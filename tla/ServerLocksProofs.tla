------------------------- MODULE ServerLocksProofs -------------------------
(***************************************************************************)
(* Proofs about ServerLocks, for any number of threads and calls.          *)
(*                                                                         *)
(* Which locks a thread has depends only on its place in the call (Wr and  *)
(* Rd below).  A table of those places and the text of the calls give the  *)
(* discipline every call keeps (lemma Discipline): a lock is waited for    *)
(* only by a thread whose locks come before it in one order, nothing is    *)
(* given back that was not taken, and data are touched under locks that    *)
(* exclude each other.  The inductive invariant says that the owners of    *)
(* the locks are those the places tell.                                    *)
(***************************************************************************)
EXTENDS ServerLocks, TLAPS

(* The call, at step k, has lock l as a mutex or for writing ... *)
Wr(c, k, l) ==
  \/ c = "insert" /\ \/ l = "sgx_table_lock" /\ k \in 2..9
                     \/ l = "cond_mutex" /\ k \in 3..8
                     \/ l = "queue_lock" /\ k \in 4..7
  \/ c = "unfinished_node" /\ \/ l = "sgx_table_lock" /\ k \in 2..8
                              \/ l = "cond_mutex" /\ k \in 3..7
                              \/ l = "queue_lock" /\ k \in 4..6
  \/ c = "unfinished_node_refused" /\ \/ l = "sgx_table_lock" /\ k \in 2..7
                                      \/ l = "cond_mutex" /\ k \in 3..6
                                      \/ l = "queue_lock" /\ k \in 4..5
  \/ c = "get_sgxtable" /\ l = "sgx_table_lock" /\ k \in 2..3
  \/ c = "get_sgxtable_and_queue" /\ l = "sgx_table_lock" /\ k \in 2..7
  \/ c = "close" /\ l = "slots_lock" /\ k \in 2..3
  \/ c = "addition" /\ \/ l = "comms_lock" /\ k \in 2..3
                       \/ l = "slots_lock" /\ k \in 5..6
  \/ c = "notification" /\ \/ l = "cond_mutex" /\ k \in {2, 4}
                           \/ l = "sgx_table_lock" /\ k \in 6..11
                           \/ l = "slots_lock" /\ k \in 15..16

(* ... or for reading. *)
Rd(c, k, l) ==
  \/ c = "get_queue" /\ l = "queue_lock" /\ k \in 2..4
  \/ c = "get_sgxtable_and_queue" /\ l = "queue_lock" /\ k \in 3..5
  \/ c = "notification" /\ \/ l = "queue_lock" /\ k \in 7..9
                           \/ l = "comms_lock" /\ k \in 13..17

(* The order in which locks are waited for. *)
Rank(l) ==
  CASE l = "sgx_table_lock" -> 1
    [] l = "cond_mutex"     -> 2
    [] l = "queue_lock"     -> 3
    [] l = "comms_lock"     -> 4
    [] l = "slots_lock"     -> 5

Takes(s) == s.do \in {"lock", "wake", "trylock"}
Gives(s) == s.do \in {"unlock", "wait"}

(* What step k of call c, which is s, may rely on and what it leaves. *)
Orderly(c, k, s) ==
  /\ s.do \in {"lock", "wake", "trylock", "rdlock", "unlock", "wait",
               "broadcast", "read", "write"}
  /\ Takes(s) \/ Gives(s) \/ s.do = "rdlock" => s.on \in Lock
  /\ Takes(s) \/ s.do = "rdlock" =>
       \A l \in Lock : Wr(c, k, l) \/ Rd(c, k, l) => Rank(l) < Rank(s.on)
  /\ s.do \in {"trylock", "wake"} => \A l \in Lock : ~Wr(c, k, l) /\ ~Rd(c, k, l)
  /\ Gives(s) => Wr(c, k, s.on) \/ Rd(c, k, s.on)
  /\ \A l \in Lock :
       /\ Wr(c, k + 1, l) <=> \/ Takes(s) /\ l = s.on
                              \/ Wr(c, k, l) /\ ~(Gives(s) /\ l = s.on)
       /\ Rd(c, k + 1, l) <=> \/ s.do = "rdlock" /\ l = s.on
                              \/ Rd(c, k, l) /\ ~(Gives(s) /\ l = s.on)

(* The locks under which data are touched. *)
Guarded(c, k, s) ==
  /\ s.do = "write" =>
       /\ s.on = "table" => Wr(c, k, "sgx_table_lock") /\ Wr(c, k, "queue_lock")
       /\ s.on = "queue" => Wr(c, k, "sgx_table_lock") /\ Wr(c, k, "queue_lock")
       /\ s.on = "comms" => Wr(c, k, "comms_lock")
       /\ s.on = "slots" => Wr(c, k, "slots_lock")
  /\ s.do = "read" =>
       /\ s.on = "table" => \/ Wr(c, k, "sgx_table_lock")
                            \/ Rd(c, k, "queue_lock")
       /\ s.on = "queue" => Rd(c, k, "queue_lock")
       /\ s.on = "comms" => Rd(c, k, "comms_lock")
       /\ s.on # "slots"

(* The table is changed and the queue is not yet. *)
Between(c, k) == c \in {"insert", "unfinished_node"} /\ k = 5

(* The call will look at the queue before it looks at the table ... *)
Before(c, k) ==
  \/ c = "get_queue" /\ k \in 1..2
  \/ c = "get_sgxtable_and_queue" /\ k \in 1..3
  \/ c = "notification" /\ k \in 1..7

(* ... has looked at it and will look at the table ... *)
Looking(c, k) ==
  \/ c = "get_queue" /\ k = 3
  \/ c = "get_sgxtable_and_queue" /\ k \in 4..6
  \/ c = "notification" /\ k \in 8..10

(* ... or looks at the table only. *)
TableOnly(c) == c \in {"get_sgxtable", "unfinished_node_refused"}

(* How the steps that look at table and queue or change them follow each
   other in a call. *)
Sighted(c, k, s) ==
  /\ s.do = "write" /\ s.on = "table" => ~Between(c, k) /\ Between(c, k + 1)
  /\ s.do = "write" /\ s.on = "queue" <=> Between(c, k)
  /\ Between(c, k + 1) => s.do = "write" /\ s.on = "table"
  /\ Between(c, k) => Wr(c, k, "sgx_table_lock") /\ Wr(c, k, "queue_lock")
  /\ s.do = "read" /\ s.on = "queue" => Before(c, k) /\ ~TableOnly(c)
  /\ s.do = "read" /\ s.on = "table" => /\ TableOnly(c) \/ Looking(c, k)
                                       /\ ~Before(c, k)
  /\ Before(c, k + 1) => Before(c, k) /\ ~(s.do = "read" /\ s.on = "table")
  /\ Looking(c, k + 1) => Looking(c, k) \/ (s.do = "read" /\ s.on = "queue")
  /\ Looking(c, k) => Wr(c, k, "sgx_table_lock") \/ Rd(c, k, "queue_lock")

Closed(c, k) == \A l \in Lock : ~Wr(c, k, l) /\ ~Rd(c, k, l)

Orders(c, p) ==
  /\ Len(p) \in Nat \ {0}
  /\ Closed(c, 1) /\ Closed(c, Len(p) + 1)
  /\ ~Between(c, 1) /\ ~Between(c, Len(p) + 1) /\ ~Looking(c, 1)
  /\ \A k \in 1..Len(p) : /\ Orderly(c, k, p[k])
                          /\ Guarded(c, k, p[k])
                          /\ Sighted(c, k, p[k])

-----------------------------------------------------------------------------
(* The calls, step by step. *)

LEMMA InsertOrders == Orders("insert", insert_node_into_sgx_table_and_queue)
  <1> DEFINE p == insert_node_into_sgx_table_and_queue
  <1>1. /\ Len(p) = 9
        /\ p[1] = Step("lock", "sgx_table_lock")
        /\ p[2] = Step("lock", "cond_mutex")
        /\ p[3] = Step("lock", "queue_lock")
        /\ p[4] = Step("write", "table")
        /\ p[5] = Step("write", "queue")
        /\ p[6] = Step("broadcast", "cond_mutex")
        /\ p[7] = Step("unlock", "queue_lock")
        /\ p[8] = Step("unlock", "cond_mutex")
        /\ p[9] = Step("unlock", "sgx_table_lock")
    BY DEF insert_node_into_sgx_table_and_queue, mutex_locks, mutex_unlocks,
           rwlock_rwlocks, rwlock_unlocks, Changes
  <1> HIDE DEF p
  <1>2. Closed("insert", 1) /\ Closed("insert", Len(p) + 1)
    BY <1>1 DEF Closed, Wr, Rd
  <1>3. ASSUME NEW k \in 1..Len(p) PROVE Orderly("insert", k, p[k])
    BY <1>1, <1>3 DEF Orderly, Takes, Gives, Wr, Rd, Rank, Step, Lock
  <1>4. ASSUME NEW k \in 1..Len(p) PROVE Guarded("insert", k, p[k])
    BY <1>1, <1>4 DEF Guarded, Wr, Rd, Step
  <1>5. ASSUME NEW k \in 1..Len(p) PROVE Sighted("insert", k, p[k])
    BY <1>1, <1>5 DEF Sighted, Between, Before, Looking, TableOnly, Wr, Rd, Step
  <1>6. /\ ~Between("insert", 1) /\ ~Between("insert", Len(p) + 1)
        /\ ~Looking("insert", 1)
    BY <1>1 DEF Between, Looking
  <1> QED
    BY <1>1, <1>2, <1>3, <1>4, <1>5, <1>6 DEF Orders, p

LEMMA UnfinishedOrders == Orders("unfinished_node", unfinished_node)
  <1> DEFINE p == unfinished_node
  <1>1. /\ Len(p) = 9
        /\ p[1] = Step("lock", "sgx_table_lock")
        /\ p[2] = Step("lock", "cond_mutex")
        /\ p[3] = Step("lock", "queue_lock")
        /\ p[4] = Step("write", "table")
        /\ p[5] = Step("write", "queue")
        /\ p[6] = Step("unlock", "queue_lock")
        /\ p[7] = Step("unlock", "cond_mutex")
        /\ p[8] = Step("unlock", "sgx_table_lock")
        /\ p[9] = Step("broadcast", "cond_mutex")
    BY DEF unfinished_node, 
           mutex_locks, mutex_unlocks, rwlock_rwlocks, rwlock_unlocks, Changes
  <1> HIDE DEF p
  <1>2. Closed("unfinished_node", 1) /\ Closed("unfinished_node", Len(p) + 1)
    BY <1>1 DEF Closed, Wr, Rd
  <1>3. ASSUME NEW k \in 1..Len(p) PROVE Orderly("unfinished_node", k, p[k])
    BY <1>1, <1>3 DEF Orderly, Takes, Gives, Wr, Rd, Rank, Step, Lock
  <1>4. ASSUME NEW k \in 1..Len(p) PROVE Guarded("unfinished_node", k, p[k])
    BY <1>1, <1>4 DEF Guarded, Wr, Rd, Step
  <1>5. ASSUME NEW k \in 1..Len(p) PROVE Sighted("unfinished_node", k, p[k])
    BY <1>1, <1>5 DEF Sighted, Between, Before, Looking, TableOnly, Wr, Rd, Step
  <1>6. /\ ~Between("unfinished_node", 1) /\ ~Between("unfinished_node", Len(p) + 1)
        /\ ~Looking("unfinished_node", 1)
    BY <1>1 DEF Between, Looking
  <1> QED
    BY <1>1, <1>2, <1>3, <1>4, <1>5, <1>6 DEF Orders, p

LEMMA RefusedOrders == Orders("unfinished_node_refused", unfinished_node_refused)
  <1> DEFINE p == unfinished_node_refused
  <1>1. /\ Len(p) = 7
        /\ p[1] = Step("lock", "sgx_table_lock")
        /\ p[2] = Step("lock", "cond_mutex")
        /\ p[3] = Step("lock", "queue_lock")
        /\ p[4] = Step("read", "table")
        /\ p[5] = Step("unlock", "queue_lock")
        /\ p[6] = Step("unlock", "cond_mutex")
        /\ p[7] = Step("unlock", "sgx_table_lock")
    BY DEF unfinished_node_refused, 
           mutex_locks, mutex_unlocks, rwlock_rwlocks, rwlock_unlocks
  <1> HIDE DEF p
  <1>2. Closed("unfinished_node_refused", 1) /\ Closed("unfinished_node_refused", Len(p) + 1)
    BY <1>1 DEF Closed, Wr, Rd
  <1>3. ASSUME NEW k \in 1..Len(p) PROVE Orderly("unfinished_node_refused", k, p[k])
    BY <1>1, <1>3 DEF Orderly, Takes, Gives, Wr, Rd, Rank, Step, Lock
  <1>4. ASSUME NEW k \in 1..Len(p) PROVE Guarded("unfinished_node_refused", k, p[k])
    BY <1>1, <1>4 DEF Guarded, Wr, Rd, Step
  <1>5. ASSUME NEW k \in 1..Len(p) PROVE Sighted("unfinished_node_refused", k, p[k])
    BY <1>1, <1>5 DEF Sighted, Between, Before, Looking, TableOnly, Wr, Rd, Step
  <1>6. /\ ~Between("unfinished_node_refused", 1) /\ ~Between("unfinished_node_refused", Len(p) + 1)
        /\ ~Looking("unfinished_node_refused", 1)
    BY Zenon, <1>1 DEF Between, Looking
  <1> QED
    BY <1>1, <1>2, <1>3, <1>4, <1>5, <1>6 DEF Orders, p

LEMMA GetTableOrders == Orders("get_sgxtable", get_sgxtable)
  <1> DEFINE p == get_sgxtable
  <1>1. /\ Len(p) = 3
        /\ p[1] = Step("trylock", "sgx_table_lock")
        /\ p[2] = Step("read", "table")
        /\ p[3] = Step("unlock", "sgx_table_lock")
    BY Zenon DEF get_sgxtable
  <1> HIDE DEF p
  <1>2. Closed("get_sgxtable", 1) /\ Closed("get_sgxtable", Len(p) + 1)
    BY <1>1 DEF Closed, Wr, Rd
  <1>3. ASSUME NEW k \in 1..Len(p) PROVE Orderly("get_sgxtable", k, p[k])
    BY <1>1, <1>3 DEF Orderly, Takes, Gives, Wr, Rd, Rank, Step, Lock
  <1>4. ASSUME NEW k \in 1..Len(p) PROVE Guarded("get_sgxtable", k, p[k])
    BY <1>1, <1>4 DEF Guarded, Wr, Rd, Step
  <1>5. ASSUME NEW k \in 1..Len(p) PROVE Sighted("get_sgxtable", k, p[k])
    BY <1>1, <1>5 DEF Sighted, Between, Before, Looking, TableOnly, Wr, Rd, Step
  <1>6. /\ ~Between("get_sgxtable", 1) /\ ~Between("get_sgxtable", Len(p) + 1)
        /\ ~Looking("get_sgxtable", 1)
    BY Zenon, <1>1 DEF Between, Looking
  <1> QED
    BY <1>1, <1>2, <1>3, <1>4, <1>5, <1>6 DEF Orders, p

LEMMA GetQueueOrders == Orders("get_queue", get_queue_str)
  <1> DEFINE p == get_queue_str
  <1>1. /\ Len(p) = 4
        /\ p[1] = Step("rdlock", "queue_lock")
        /\ p[2] = Step("read", "queue")
        /\ p[3] = Step("read", "table")
        /\ p[4] = Step("unlock", "queue_lock")
    BY Zenon DEF get_queue_str
  <1> HIDE DEF p
  <1>2. Closed("get_queue", 1) /\ Closed("get_queue", Len(p) + 1)
    BY <1>1 DEF Closed, Wr, Rd
  <1>3. ASSUME NEW k \in 1..Len(p) PROVE Orderly("get_queue", k, p[k])
    BY <1>1, <1>3 DEF Orderly, Takes, Gives, Wr, Rd, Rank, Step, Lock
  <1>4. ASSUME NEW k \in 1..Len(p) PROVE Guarded("get_queue", k, p[k])
    BY <1>1, <1>4 DEF Guarded, Wr, Rd, Step
  <1>5. ASSUME NEW k \in 1..Len(p) PROVE Sighted("get_queue", k, p[k])
    BY <1>1, <1>5 DEF Sighted, Between, Before, Looking, TableOnly, Wr, Rd, Step
  <1>6. /\ ~Between("get_queue", 1) /\ ~Between("get_queue", Len(p) + 1)
        /\ ~Looking("get_queue", 1)
    BY <1>1 DEF Between, Looking
  <1> QED
    BY <1>1, <1>2, <1>3, <1>4, <1>5, <1>6 DEF Orders, p

LEMMA GetBothOrders == Orders("get_sgxtable_and_queue", get_sgxtable_and_queue)
  <1> DEFINE p == get_sgxtable_and_queue
  <1>1. /\ Len(p) = 7
        /\ p[1] = Step("trylock", "sgx_table_lock")
        /\ p[2] = Step("rdlock", "queue_lock")
        /\ p[3] = Step("read", "queue")
        /\ p[4] = Step("read", "table")
        /\ p[5] = Step("unlock", "queue_lock")
        /\ p[6] = Step("read", "table")
        /\ p[7] = Step("unlock", "sgx_table_lock")
    BY DEF get_sgxtable_and_queue, get_queue_str
  <1> HIDE DEF p
  <1>2. Closed("get_sgxtable_and_queue", 1) /\ Closed("get_sgxtable_and_queue", Len(p) + 1)
    BY <1>1 DEF Closed, Wr, Rd
  <1>3. ASSUME NEW k \in 1..Len(p) PROVE Orderly("get_sgxtable_and_queue", k, p[k])
    BY <1>1, <1>3 DEF Orderly, Takes, Gives, Wr, Rd, Rank, Step, Lock
  <1>4. ASSUME NEW k \in 1..Len(p) PROVE Guarded("get_sgxtable_and_queue", k, p[k])
    BY <1>1, <1>4 DEF Guarded, Wr, Rd, Step
  <1>5. ASSUME NEW k \in 1..Len(p) PROVE Sighted("get_sgxtable_and_queue", k, p[k])
    BY <1>1, <1>5 DEF Sighted, Between, Before, Looking, TableOnly, Wr, Rd, Step
  <1>6. /\ ~Between("get_sgxtable_and_queue", 1) /\ ~Between("get_sgxtable_and_queue", Len(p) + 1)
        /\ ~Looking("get_sgxtable_and_queue", 1)
    BY <1>1 DEF Between, Looking
  <1> QED
    BY <1>1, <1>2, <1>3, <1>4, <1>5, <1>6 DEF Orders, p

LEMMA CloseOrders == Orders("close", threads_queue_change)
  <1> DEFINE p == threads_queue_change
  <1>1. /\ Len(p) = 3
        /\ p[1] = Step("lock", "slots_lock")
        /\ p[2] = Step("write", "slots")
        /\ p[3] = Step("unlock", "slots_lock")
    BY Zenon DEF threads_queue_change
  <1> HIDE DEF p
  <1>2. Closed("close", 1) /\ Closed("close", Len(p) + 1)
    BY <1>1 DEF Closed, Wr, Rd
  <1>3. ASSUME NEW k \in 1..Len(p) PROVE Orderly("close", k, p[k])
    BY <1>1, <1>3 DEF Orderly, Takes, Gives, Wr, Rd, Rank, Step, Lock
  <1>4. ASSUME NEW k \in 1..Len(p) PROVE Guarded("close", k, p[k])
    BY <1>1, <1>4 DEF Guarded, Wr, Rd, Step
  <1>5. ASSUME NEW k \in 1..Len(p) PROVE Sighted("close", k, p[k])
    BY <1>1, <1>5 DEF Sighted, Between, Before, Looking, TableOnly, Wr, Rd, Step
  <1>6. /\ ~Between("close", 1) /\ ~Between("close", Len(p) + 1)
        /\ ~Looking("close", 1)
    BY Zenon, <1>1 DEF Between, Looking
  <1> QED
    BY <1>1, <1>2, <1>3, <1>4, <1>5, <1>6 DEF Orders, p

LEMMA AdditionOrders == Orders("addition", process_secondary_node_addition)
  <1> DEFINE p == process_secondary_node_addition
  <1>1. /\ Len(p) = 6
        /\ p[1] = Step("lock", "comms_lock")
        /\ p[2] = Step("write", "comms")
        /\ p[3] = Step("unlock", "comms_lock")
        /\ p[4] = Step("lock", "slots_lock")
        /\ p[5] = Step("write", "slots")
        /\ p[6] = Step("unlock", "slots_lock")
    BY DEF process_secondary_node_addition, threads_queue_change
  <1> HIDE DEF p
  <1>2. Closed("addition", 1) /\ Closed("addition", Len(p) + 1)
    BY <1>1 DEF Closed, Wr, Rd
  <1>3. ASSUME NEW k \in 1..Len(p) PROVE Orderly("addition", k, p[k])
    BY <1>1, <1>3 DEF Orderly, Takes, Gives, Wr, Rd, Rank, Step, Lock
  <1>4. ASSUME NEW k \in 1..Len(p) PROVE Guarded("addition", k, p[k])
    BY <1>1, <1>4 DEF Guarded, Wr, Rd, Step
  <1>5. ASSUME NEW k \in 1..Len(p) PROVE Sighted("addition", k, p[k])
    BY <1>1, <1>5 DEF Sighted, Between, Before, Looking, TableOnly, Wr, Rd, Step
  <1>6. /\ ~Between("addition", 1) /\ ~Between("addition", Len(p) + 1)
        /\ ~Looking("addition", 1)
    BY Zenon, <1>1 DEF Between, Looking
  <1> QED
    BY <1>1, <1>2, <1>3, <1>4, <1>5, <1>6 DEF Orders, p

LEMMA NotificationOrders == Orders("notification", sgx_table_and_queue_notification)
  <1> DEFINE p == sgx_table_and_queue_notification
  <1>1. /\ Len(p) = 17
        /\ p[1] = Step("trylock", "cond_mutex")
        /\ p[2] = Step("wait", "cond_mutex")
        /\ p[3] = Step("wake", "cond_mutex")
        /\ p[4] = Step("unlock", "cond_mutex")
        /\ p[5] = Step("lock", "sgx_table_lock")
        /\ p[6] = Step("rdlock", "queue_lock")
        /\ p[7] = Step("read", "queue")
        /\ p[8] = Step("read", "table")
        /\ p[9] = Step("unlock", "queue_lock")
        /\ p[10] = Step("read", "table")
        /\ p[11] = Step("unlock", "sgx_table_lock")
        /\ p[12] = Step("rdlock", "comms_lock")
        /\ p[13] = Step("read", "comms")
        /\ p[14] = Step("lock", "slots_lock")
        /\ p[15] = Step("write", "slots")
        /\ p[16] = Step("unlock", "slots_lock")
        /\ p[17] = Step("unlock", "comms_lock")
    BY DEF sgx_table_and_queue_notification, 
           queue_wait_change, get_queue_str,
           threads_queue_change
  <1> HIDE DEF p
  <1>2. Closed("notification", 1) /\ Closed("notification", Len(p) + 1)
    BY <1>1 DEF Closed, Wr, Rd
  <1>3. ASSUME NEW k \in 1..Len(p) PROVE Orderly("notification", k, p[k])
    BY <1>1, <1>3 DEF Orderly, Takes, Gives, Wr, Rd, Rank, Step, Lock
  <1>4. ASSUME NEW k \in 1..Len(p) PROVE Guarded("notification", k, p[k])
    BY <1>1, <1>4 DEF Guarded, Wr, Rd, Step
  <1>5. ASSUME NEW k \in 1..Len(p) PROVE Sighted("notification", k, p[k])
    BY <1>1, <1>5 DEF Sighted, Between, Before, Looking, TableOnly, Wr, Rd, Step
  <1>6. /\ ~Between("notification", 1) /\ ~Between("notification", Len(p) + 1)
        /\ ~Looking("notification", 1)
    BY <1>1 DEF Between, Looking
  <1> QED
    BY <1>1, <1>2, <1>3, <1>4, <1>5, <1>6 DEF Orders, p

(* Every call takes its locks in one order, gives back what it took, and
   touches data under the locks that guard them. *)
LEMMA Discipline == \A c \in Calls : Orders(c, Program[c])
  <1>1. ASSUME NEW c \in Calls PROVE Orders(c, Program[c])
    <2>1. /\ Program["insert"] = insert_node_into_sgx_table_and_queue
          /\ Program["unfinished_node"] = unfinished_node
          /\ Program["unfinished_node_refused"] = unfinished_node_refused
          /\ Program["get_sgxtable"] = get_sgxtable
          /\ Program["get_queue"] = get_queue_str
          /\ Program["get_sgxtable_and_queue"] = get_sgxtable_and_queue
          /\ Program["close"] = threads_queue_change
          /\ Program["addition"] = process_secondary_node_addition
          /\ Program["notification"] = sgx_table_and_queue_notification
      BY Zenon DEF Program
    <2>2. c \in {"insert", "unfinished_node", "unfinished_node_refused", "get_sgxtable",
                "get_queue", "get_sgxtable_and_queue", "close", "addition",
                "notification"}
      BY Zenon DEF Calls, poet_functions
    <2> QED
      BY Zenon, <2>1, <2>2, InsertOrders, UnfinishedOrders, RefusedOrders, GetTableOrders,
         GetQueueOrders, GetBothOrders, CloseOrders, AdditionOrders, NotificationOrders
  <1> QED
    BY Zenon, <1>1

-----------------------------------------------------------------------------

(* The owners of the locks are the threads whose places say so ... *)
Holds ==
  \A t \in Thread, l \in Lock :
    /\ writer[l] = t <=> Wr(call[t], pc[t], l)
    /\ t \in readers[l] <=> Rd(call[t], pc[t], l)

(* ... and a lock is not held for reading and writing at a time. *)
Excludes == \A l \in Lock : writer[l] = NoThread \/ readers[l] = {}

IInv == TypeOK /\ Holds /\ Excludes

LEMMA ThreadFacts == NoThread \notin Thread /\ Notifier \in Thread
  BY Zenon, ThreadAssumption DEF Thread

LEMMA CallFacts == ASSUME NEW t \in Thread PROVE CallOf(t) \subseteq Calls
  BY Zenon DEF CallOf, Calls

(* Where a thread in a call stands. *)
LEMMA AtFacts ==
  ASSUME Places, NEW t \in Thread, Inside(t)
  PROVE  /\ call[t] \in Calls
         /\ pc[t] \in Nat
         /\ pc[t] \in 1..Len(Program[call[t]])
         /\ Orders(call[t], Program[call[t]])
         /\ Orderly(call[t], pc[t], At(t))
         /\ Guarded(call[t], pc[t], At(t))
         /\ Sighted(call[t], pc[t], At(t))
  <1>1. call[t] \in Calls /\ pc[t] \in Nat /\ pc[t] \in 1..Len(Program[call[t]])
    BY Zenon DEF Places, Inside
  <1>2. Orders(call[t], Program[call[t]])
    BY Zenon, <1>1, Discipline
  <1> QED
    BY Zenon, <1>1, <1>2 DEF Orders, At

LEMMA NoneClosed == \A k : Closed("none", k)
  BY Zenon DEF Closed, Wr, Rd

LEMMA ReturnStep ==
  ASSUME Places, NEW t \in Thread, Return(t)
  PROVE  /\ Places'
         /\ \A u \in Thread \ {t} : call'[u] = call[u] /\ pc'[u] = pc[u]
         /\ \A l \in Lock : ~Wr(call'[t], pc'[t], l) /\ ~Rd(call'[t], pc'[t], l)
  <1>1. /\ call' \in [Thread -> Calls \cup {"none"}]
        /\ pc' \in [Thread -> Nat]
        /\ \A u \in Thread \ {t} : call'[u] = call[u] /\ pc'[u] = pc[u]
        /\ call'[t] = "none" /\ pc'[t] = 1
    BY Zenon DEF Places, Return
  <1>2. Places'
    BY Zenon, <1>1 DEF Places, Inside
  <1> QED
    BY Zenon, <1>1, <1>2, NoneClosed DEF Closed

LEMMA AdvanceStep ==
  ASSUME Places, NEW t \in Thread, Inside(t), Advance(t)
  PROVE  /\ Places'
         /\ \A u \in Thread \ {t} : call'[u] = call[u] /\ pc'[u] = pc[u]
         /\ \A l \in Lock : /\ Wr(call'[t], pc'[t], l) <=> Wr(call[t], pc[t] + 1, l)
                            /\ Rd(call'[t], pc'[t], l) <=> Rd(call[t], pc[t] + 1, l)
  <1>1. /\ call[t] \in Calls /\ pc[t] \in Nat /\ pc[t] \in 1..Len(Program[call[t]])
        /\ Orders(call[t], Program[call[t]])
    BY Zenon, AtFacts
  <1>2. CASE pc[t] < Len(Program[call[t]])
    <2>1. call' = call /\ pc' = [pc EXCEPT ![t] = @ + 1]
      BY Zenon, <1>2 DEF Advance
    <2>2. pc' \in [Thread -> Nat] /\ pc'[t] = pc[t] + 1
          /\ \A u \in Thread \ {t} : pc'[u] = pc[u]
      BY <1>1, <2>1 DEF Places
    <2>3. pc'[t] \in 1..Len(Program[call[t]])
      BY <1>1, <1>2, <2>2 DEF Orders
    <2>4. Places'
      BY Zenon, <2>1, <2>2, <2>3 DEF Places, Inside
    <2> QED
      BY Zenon, <2>1, <2>2, <2>4
  <1>3. CASE ~(pc[t] < Len(Program[call[t]]))
    <2>1. Return(t)
      BY Zenon, <1>3 DEF Advance
    <2>2. pc[t] = Len(Program[call[t]])
      BY <1>1, <1>3 DEF Orders
    <2>3. \A l \in Lock : ~Wr(call[t], pc[t] + 1, l) /\ ~Rd(call[t], pc[t] + 1, l)
      BY Zenon, <1>1, <2>2 DEF Orders, Closed
    <2> QED
      BY Zenon, <2>1, <2>3, ReturnStep
  <1> QED
    BY Zenon, <1>2, <1>3

(* Init establishes the invariant: nobody is in a call, no lock is taken. *)
LEMMA InitInv == Init => IInv
  <1> SUFFICES ASSUME Init PROVE IInv
    OBVIOUS
  <1>0. Places
    BY Zenon DEF Init, Places, Inside
  <1>1. TypeOK
    <2>1. /\ change \in [Nodes -> Nat]
          /\ seen \in [Thread -> [Nodes -> Nat \cup {-1}]]
          /\ begun \in 0..MaxCalls
      BY CallsAssumption DEF Init, NotSeen
    <2>2. /\ writer \in [Lock -> Thread \cup {NoThread}]
          /\ readers \in [Lock -> SUBSET Thread]
          /\ asleep \in BOOLEAN
      BY ZenonT(60) DEF Init
    <2> QED
      BY <1>0, <2>1, <2>2, Zenon DEF TypeOK
  <1>2. Holds
    BY Zenon, NoneClosed, ThreadFacts DEF Init, Holds, Closed
  <1>3. Excludes
    BY Zenon DEF Init, Excludes
  <1> QED
    BY Zenon, <1>1, <1>2, <1>3 DEF IInv

LEMMA BeginInv ==
  ASSUME IInv, NEW t \in Thread, NEW c \in CallOf(t), Begin(t, c)
  PROVE  IInv'
  <1> USE DEF IInv
  <1>1. c \in Calls /\ Orders(c, Program[c]) /\ c # "none"
    BY Zenon, CallFacts, Discipline DEF Calls, poet_functions
  <1>2. /\ call' \in [Thread -> Calls \cup {"none"}]
        /\ pc' \in [Thread -> Nat]
        /\ \A u \in Thread \ {t} : call'[u] = call[u] /\ pc'[u] = pc[u]
        /\ call'[t] = c /\ pc'[t] = 1
    BY Zenon, <1>1 DEF Begin, TypeOK, Places
  <1>3. Places'
    <2>1. 1 \in 1..Len(Program[c])
      BY <1>1 DEF Orders
    <2>2. \A u \in Thread : IF Inside(u)' THEN pc'[u] \in 1..Len(Program[call'[u]])
                           ELSE pc'[u] = 1
      BY Zenon, <1>1, <1>2, <2>1 DEF TypeOK, Places, Inside
    <2> QED
      BY Zenon, <1>2, <2>2 DEF Places
  <1>4. seen' \in [Thread -> [Nodes -> Nat \cup {-1}]]
    BY Zenon DEF Begin, TypeOK, NotSeen
  <1>5. begun' \in 0..MaxCalls
    BY CallsAssumption DEF Begin, TypeOK
  <1>6. TypeOK'
    BY Zenon, <1>3, <1>4, <1>5 DEF Begin, TypeOK
  <1>7. Holds'
    <2>1. \A l \in Lock : ~Wr(call[t], pc[t], l) /\ ~Rd(call[t], pc[t], l)
      BY Zenon, NoneClosed DEF Begin, Inside, Closed
    <2>2. \A l \in Lock : ~Wr(call'[t], pc'[t], l) /\ ~Rd(call'[t], pc'[t], l)
      BY Zenon, <1>1, <1>2 DEF Orders, Closed
    <2> QED
      BY Zenon, <1>2, <2>1, <2>2 DEF Begin, Holds
  <1>8. Excludes'
    BY Zenon DEF Begin, Excludes
  <1> QED
    BY Zenon, <1>6, <1>7, <1>8

(* A lock that is taken exclusively was free. *)
LEMMA TakeInv ==
  ASSUME IInv, NEW t \in Thread, Inside(t), Takes(At(t)), Free(At(t).on),
         writer' = [writer EXCEPT ![At(t).on] = t], Advance(t),
         UNCHANGED <<readers, asleep, change, seen, begun>>
  PROVE  IInv'
  <1> USE DEF IInv
  <1> DEFINE m == At(t).on
  <1>1. Orderly(call[t], pc[t], At(t)) /\ m \in Lock
    BY Zenon, AtFacts DEF TypeOK, Orderly
  <1>2. /\ Places'
        /\ \A u \in Thread \ {t} : call'[u] = call[u] /\ pc'[u] = pc[u]
        /\ \A l \in Lock : /\ Wr(call'[t], pc'[t], l) <=> Wr(call[t], pc[t] + 1, l)
                           /\ Rd(call'[t], pc'[t], l) <=> Rd(call[t], pc[t] + 1, l)
    BY Zenon, AdvanceStep DEF TypeOK
  <1>3. /\ writer' \in [Lock -> Thread \cup {NoThread}] /\ writer'[m] = t
        /\ \A l \in Lock \ {m} : writer'[l] = writer[l]
    BY Zenon, <1>1 DEF TypeOK
  <1>4. TypeOK'
    BY <1>2, <1>3, Zenon DEF TypeOK
  <1>5. \A l \in Lock :
          /\ Wr(call'[t], pc'[t], l) <=> l = m \/ Wr(call[t], pc[t], l)
          /\ Rd(call'[t], pc'[t], l) <=> Rd(call[t], pc[t], l)
    BY Zenon, <1>1, <1>2 DEF Orderly, Takes, Gives
  <1> HIDE DEF m
  <1>6. writer[m] = NoThread /\ readers[m] = {}
    BY Zenon DEF Free, m
  <1>7. Holds'
    BY <1>1, <1>2, <1>3, <1>5, <1>6, ThreadFacts DEF Holds
  <1>8. Excludes'
    BY Zenon, <1>3, <1>6 DEF Excludes
  <1> QED
    BY Zenon, <1>4, <1>7, <1>8

LEMMA ReadLockInv ==
  ASSUME IInv, NEW t \in Thread, DoReadLock(t)
  PROVE  IInv'
  <1> USE DEF IInv
  <1> DEFINE m == At(t).on
  <1>0. Inside(t) /\ Advance(t) /\ At(t).do = "rdlock" /\ writer[m] = NoThread
        /\ readers' = [readers EXCEPT ![m] = @ \cup {t}]
        /\ UNCHANGED <<writer, asleep, change, seen, begun>>
    BY Zenon DEF DoReadLock
  <1>1. Orderly(call[t], pc[t], At(t)) /\ m \in Lock
    BY Zenon, <1>0, AtFacts DEF TypeOK, Orderly
  <1>2. /\ Places'
        /\ \A u \in Thread \ {t} : call'[u] = call[u] /\ pc'[u] = pc[u]
        /\ \A l \in Lock : /\ Wr(call'[t], pc'[t], l) <=> Wr(call[t], pc[t] + 1, l)
                           /\ Rd(call'[t], pc'[t], l) <=> Rd(call[t], pc[t] + 1, l)
    BY Zenon, <1>0, AdvanceStep DEF TypeOK
  <1>3. /\ readers' \in [Lock -> SUBSET Thread] /\ readers'[m] = readers[m] \cup {t}
        /\ \A l \in Lock \ {m} : readers'[l] = readers[l]
    BY Zenon, <1>0, <1>1 DEF TypeOK
  <1>4. TypeOK'
    BY <1>0, <1>2, <1>3, Zenon DEF TypeOK
  <1>5. \A l \in Lock :
          /\ Wr(call'[t], pc'[t], l) <=> Wr(call[t], pc[t], l)
          /\ Rd(call'[t], pc'[t], l) <=> l = m \/ Rd(call[t], pc[t], l)
    BY Zenon, <1>0, <1>1, <1>2 DEF Orderly, Takes, Gives
  <1> HIDE DEF m
  <1>6. Holds'
    BY <1>0, <1>1, <1>2, <1>3, <1>5 DEF Holds
  <1>7. Excludes'
    BY Zenon, <1>0, <1>3 DEF Excludes
  <1> QED
    BY Zenon, <1>4, <1>6, <1>7

LEMMA UnlockInv ==
  ASSUME IInv, NEW t \in Thread, DoUnlock(t)
  PROVE  IInv'
  <1> USE DEF IInv
  <1> DEFINE m == At(t).on
  <1>0. Inside(t) /\ Advance(t) /\ Gives(At(t))
        /\ writer' = (IF writer[m] = t THEN [writer EXCEPT ![m] = NoThread] ELSE writer)
        /\ readers' = [readers EXCEPT ![m] = @ \ {t}]
        /\ asleep' \in BOOLEAN
        /\ UNCHANGED <<change, seen, begun>>
    BY Zenon DEF DoUnlock, Gives
  <1>1. Orderly(call[t], pc[t], At(t)) /\ m \in Lock
    BY Zenon, <1>0, AtFacts DEF TypeOK, Orderly
  <1>2. /\ Places'
        /\ \A u \in Thread \ {t} : call'[u] = call[u] /\ pc'[u] = pc[u]
        /\ \A l \in Lock : /\ Wr(call'[t], pc'[t], l) <=> Wr(call[t], pc[t] + 1, l)
                           /\ Rd(call'[t], pc'[t], l) <=> Rd(call[t], pc[t] + 1, l)
    BY Zenon, <1>0, AdvanceStep DEF TypeOK
  <1>3. /\ readers' \in [Lock -> SUBSET Thread] /\ readers'[m] = readers[m] \ {t}
        /\ \A l \in Lock \ {m} : readers'[l] = readers[l] /\ writer'[l] = writer[l]
        /\ writer' \in [Lock -> Thread \cup {NoThread}]
        /\ writer'[m] = IF writer[m] = t THEN NoThread ELSE writer[m]
    BY Zenon, <1>0, <1>1 DEF TypeOK
  <1>4. TypeOK'
    BY <1>0, <1>2, <1>3, Zenon DEF TypeOK
  <1>5. \A l \in Lock :
          /\ Wr(call'[t], pc'[t], l) <=> l # m /\ Wr(call[t], pc[t], l)
          /\ Rd(call'[t], pc'[t], l) <=> l # m /\ Rd(call[t], pc[t], l)
    BY Zenon, <1>0, <1>1, <1>2 DEF Orderly, Takes, Gives
  <1> HIDE DEF m
  <1>6. Holds'
    BY <1>1, <1>2, <1>3, <1>5, ThreadFacts DEF Holds
  <1>7. Excludes'
    BY Zenon, <1>3 DEF Excludes
  <1> QED
    BY Zenon, <1>4, <1>6, <1>7

(* A step that leaves the locks alone. *)
LEMMA KeepInv ==
  ASSUME IInv, NEW t \in Thread, Inside(t), Advance(t),
         ~Takes(At(t)), ~Gives(At(t)), At(t).do # "rdlock",
         UNCHANGED <<writer, readers, begun>>, asleep' \in BOOLEAN,
         change' \in [Nodes -> Nat], seen' \in [Thread -> [Nodes -> Nat \cup {-1}]]
  PROVE  IInv'
  <1> USE DEF IInv
  <1>1. Orderly(call[t], pc[t], At(t))
    BY Zenon, AtFacts DEF TypeOK
  <1>2. /\ Places'
        /\ \A u \in Thread \ {t} : call'[u] = call[u] /\ pc'[u] = pc[u]
        /\ \A l \in Lock : /\ Wr(call'[t], pc'[t], l) <=> Wr(call[t], pc[t] + 1, l)
                           /\ Rd(call'[t], pc'[t], l) <=> Rd(call[t], pc[t] + 1, l)
    BY Zenon, AdvanceStep DEF TypeOK
  <1>3. TypeOK'
    BY <1>2, Zenon DEF TypeOK
  <1>4. \A l \in Lock : /\ Wr(call'[t], pc'[t], l) <=> Wr(call[t], pc[t], l)
                        /\ Rd(call'[t], pc'[t], l) <=> Rd(call[t], pc[t], l)
    BY Zenon, <1>1, <1>2 DEF Orderly
  <1>5. Holds'
    BY Zenon, <1>2, <1>4 DEF Holds
  <1>6. Excludes'
    BY Zenon DEF Excludes
  <1> QED
    BY Zenon, <1>3, <1>5, <1>6

LEMMA TryLockInv ==
  ASSUME IInv, NEW t \in Thread, DoTryLock(t)
  PROVE  IInv'
  <1>1. CASE Free(At(t).on)
    BY Zenon, <1>1, TakeInv DEF DoTryLock, Takes
  <1>2. CASE ~Free(At(t).on)
    <2> USE DEF IInv
    <2>1. Return(t) /\ UNCHANGED <<writer, readers, asleep, change, seen, begun>>
          /\ Inside(t) /\ At(t).do = "trylock"
      BY Zenon, <1>2 DEF DoTryLock
    <2>2. /\ Places'
          /\ \A u \in Thread \ {t} : call'[u] = call[u] /\ pc'[u] = pc[u]
          /\ \A l \in Lock : ~Wr(call'[t], pc'[t], l) /\ ~Rd(call'[t], pc'[t], l)
      BY Zenon, <2>1, ReturnStep DEF TypeOK
    <2>3. Orderly(call[t], pc[t], At(t))
      BY Zenon, <2>1, AtFacts DEF TypeOK
    <2>4. \A l \in Lock : ~Wr(call[t], pc[t], l) /\ ~Rd(call[t], pc[t], l)
      BY Zenon, <2>1, <2>3 DEF Orderly
    <2>5. TypeOK'
      BY <2>1, <2>2, Zenon DEF TypeOK
    <2>6. Holds'
      BY Zenon, <2>1, <2>2, <2>4 DEF Holds
    <2>7. Excludes'
      BY Zenon, <2>1 DEF Excludes
    <2> QED
      BY Zenon, <2>5, <2>6, <2>7
  <1> QED
    BY Zenon, <1>1, <1>2

LEMMA AccessInv ==
  ASSUME IInv, NEW t \in Thread, DoAccess(t)
  PROVE  IInv'
  <1>1. change' \in [Nodes -> Nat]
    BY DEF DoAccess, IInv, TypeOK
  <1>2. seen' \in [Thread -> [Nodes -> Nat \cup {-1}]]
    BY Zenon DEF DoAccess, IInv, TypeOK
  <1> QED
    BY Zenon, <1>1, <1>2, KeepInv DEF DoAccess, Takes, Gives, IInv, TypeOK

LEMMA NextInv == IInv /\ [Next]_vars => IInv'
  <1> SUFFICES ASSUME IInv, [Next]_vars PROVE IInv'
    OBVIOUS
  <1>1. ASSUME NEW t \in Thread, NEW c \in CallOf(t), Begin(t, c) PROVE IInv'
    BY Zenon, <1>1, BeginInv
  <1>2. ASSUME NEW t \in Thread, DoLock(t) PROVE IInv'
    BY Zenon, <1>2, TakeInv DEF DoLock, Takes
  <1>3. ASSUME NEW t \in Thread, DoTryLock(t) PROVE IInv'
    BY Zenon, <1>3, TryLockInv
  <1>4. ASSUME NEW t \in Thread, DoReadLock(t) PROVE IInv'
    BY Zenon, <1>4, ReadLockInv
  <1>5. ASSUME NEW t \in Thread, DoUnlock(t) PROVE IInv'
    BY Zenon, <1>5, UnlockInv
  <1>6. ASSUME NEW t \in Thread, DoBroadcast(t) PROVE IInv'
    BY Zenon, <1>6, KeepInv DEF DoBroadcast, Takes, Gives, IInv, TypeOK
  <1>7. ASSUME NEW t \in Thread, DoAccess(t) PROVE IInv'
    BY Zenon, <1>7, AccessInv
  <1>8. CASE SpuriousWake
    <2>1. begun' \in 0..MaxCalls
      BY <1>8, CallsAssumption DEF SpuriousWake, IInv, TypeOK
    <2>2. TypeOK'
      BY Zenon, <1>8, <2>1 DEF SpuriousWake, IInv, TypeOK, Places, Inside
    <2>3. Holds'
      BY Zenon, <1>8 DEF SpuriousWake, IInv, Holds
    <2>4. Excludes'
      BY Zenon, <1>8 DEF SpuriousWake, IInv, Excludes
    <2> QED
      BY Zenon, <2>2, <2>3, <2>4 DEF IInv
  <1>9. CASE UNCHANGED vars
    <2>1. TypeOK'
      BY <1>9, Zenon DEF vars, IInv, TypeOK, Places, Inside
    <2>2. Holds'
      BY <1>9, Zenon DEF vars, IInv, Holds
    <2>3. Excludes'
      BY Zenon, <1>9 DEF vars, IInv, Excludes
    <2> QED
      BY Zenon, <2>1, <2>2, <2>3 DEF IInv
  <1> QED
    BY Zenon, <1>1, <1>2, <1>3, <1>4, <1>5, <1>6, <1>7, <1>8, <1>9 DEF Next, Run

(* The owners of all locks follow from the places of the threads, in every
   reachable state. *)
THEOREM Invariance == Spec => []IInv
  BY InitInv, NextInv, PTL DEF Spec

(* The types of the variables. *)
THEOREM TypeCorrect == Spec => []TypeOK
  <1>1. IInv => TypeOK
    BY Zenon DEF IInv
  <1> QED
    BY <1>1, Invariance, PTL

-----------------------------------------------------------------------------
(* Two threads that hold locks which exclude each other are one. *)
LEMMA Exclusive ==
  ASSUME IInv, NEW t \in Thread, NEW u \in Thread, NEW l \in Lock,
         Wr(call[t], pc[t], l), Wr(call[u], pc[u], l) \/ Rd(call[u], pc[u], l)
  PROVE  t = u
  BY ThreadFacts DEF IInv, Holds, Excludes

LEMMA NoRaceNow == IInv => NoRace
  <1> SUFFICES ASSUME IInv, NEW t \in Thread, NEW u \in Thread, NEW d \in Data,
                      t # u, Touches(t, d), Touches(u, d), At(t).do = "write"
               PROVE  FALSE
    BY Zenon DEF NoRace, Touches
  <1>1. /\ Guarded(call[t], pc[t], At(t)) /\ Guarded(call[u], pc[u], At(u))
        /\ At(t).on = d /\ At(u).on = d /\ At(u).do \in {"read", "write"}
    BY Zenon, AtFacts DEF IInv, TypeOK, Touches
  <1>2. Lock = {"sgx_table_lock", "cond_mutex", "queue_lock", "comms_lock", "slots_lock"}
    BY Zenon DEF Lock
  <1>3. CASE d = "table"
    BY Zenon, <1>1, <1>2, <1>3, Exclusive DEF Guarded
  <1>4. CASE d = "queue"
    BY Zenon, <1>1, <1>2, <1>4, Exclusive DEF Guarded
  <1>5. CASE d = "comms"
    BY Zenon, <1>1, <1>2, <1>5, Exclusive DEF Guarded
  <1>6. CASE d = "slots"
    BY Zenon, <1>1, <1>2, <1>6, Exclusive DEF Guarded
  <1> QED
    BY Zenon, <1>3, <1>4, <1>5, <1>6 DEF Data, Nodes

(* No data race, for any number of threads: whoever writes the table has
   both locks of which readers have one. *)
THEOREM RaceFree == Spec => []NoRace
  BY Invariance, NoRaceNow, PTL

LEMMA UnlocksOwnNow == IInv => UnlocksOwn
  <1> SUFFICES ASSUME IInv, NEW t \in Thread, Inside(t), At(t).do \in {"unlock", "wait"}
               PROVE  writer[At(t).on] = t \/ t \in readers[At(t).on]
    BY Zenon DEF UnlocksOwn
  <1>1. Orderly(call[t], pc[t], At(t))
    BY Zenon, AtFacts DEF IInv, TypeOK
  <1> QED
    BY Zenon, <1>1 DEF Orderly, Gives, IInv, Holds

(* A lock is given back only by a thread that has it. *)
THEOREM UnlocksOnlyOwn == Spec => []UnlocksOwn
  BY Invariance, UnlocksOwnNow, PTL

-----------------------------------------------------------------------------
Waits(t) == Inside(t) /\ ~Sleeps(t)

(* If nobody can go on, whoever waits does so for a thread that waits for a
   lock later in the order. *)
LEMMA WaitsForLater ==
  ASSUME IInv, \A u \in Thread : ~CanRun(u), NEW t \in Thread, Waits(t)
  PROVE  /\ At(t).on \in Lock
         /\ \E u \in Thread : Waits(u) /\ Rank(At(t).on) < Rank(At(u).on)
  <1> DEFINE m == At(t).on
  <1>1. Orderly(call[t], pc[t], At(t)) /\ Inside(t) /\ ~CanRun(t)
    BY Zenon, AtFacts DEF Waits, IInv, TypeOK
  <1>2. At(t).do \in {"lock", "wake", "rdlock"} /\ ~Free(m)
    BY Zenon, <1>1 DEF CanRun, Waits, Sleeps, Free
  <1>3. m \in Lock
    BY Zenon, <1>1, <1>2 DEF Orderly, Takes
  <1>4. PICK u \in Thread : writer[m] = u \/ u \in readers[m]
    BY Zenon, <1>2, <1>3 DEF Free, IInv, TypeOK
  <1>5. Wr(call[u], pc[u], m) \/ Rd(call[u], pc[u], m)
    BY Zenon, <1>3, <1>4 DEF IInv, Holds
  <1>6. Inside(u)
    BY Zenon, <1>3, <1>5, NoneClosed DEF Inside, Closed
  <1>7. Orderly(call[u], pc[u], At(u)) /\ ~CanRun(u)
    BY Zenon, <1>6, AtFacts DEF IInv, TypeOK
  <1>8. At(u).do \in {"lock", "wake", "rdlock"}
    BY Zenon, <1>6, <1>7 DEF CanRun
  <1>9. Rank(m) < Rank(At(u).on) /\ At(u).do # "wake"
    BY Zenon, <1>3, <1>5, <1>7, <1>8 DEF Orderly, Takes
  <1> QED
    BY Zenon, <1>3, <1>6, <1>9 DEF Waits, Sleeps

LEMMA SomeoneMovesNow == IInv => SomeoneMoves
  <1> SUFFICES ASSUME IInv, NEW a \in Thread, Waits(a), \A u \in Thread : ~CanRun(u)
               PROVE  FALSE
    BY Zenon DEF SomeoneMoves, Waits
  <1>0. \A l \in Lock : Rank(l) \in 1..5
    BY DEF Lock, Rank
  <1>1. PICK b \in Thread : Waits(b) /\ Rank(At(a).on) < Rank(At(b).on)
    BY Zenon, WaitsForLater
  <1>2. PICK c \in Thread : Waits(c) /\ Rank(At(b).on) < Rank(At(c).on)
    BY Zenon, <1>1, WaitsForLater
  <1>3. PICK d \in Thread : Waits(d) /\ Rank(At(c).on) < Rank(At(d).on)
    BY Zenon, <1>2, WaitsForLater
  <1>4. PICK e \in Thread : Waits(e) /\ Rank(At(d).on) < Rank(At(e).on)
    BY Zenon, <1>3, WaitsForLater
  <1>5. PICK f \in Thread : Waits(f) /\ Rank(At(e).on) < Rank(At(f).on)
    BY Zenon, <1>4, WaitsForLater
  <1>6. /\ Rank(At(a).on) \in 1..5 /\ Rank(At(b).on) \in 1..5 /\ Rank(At(c).on) \in 1..5
        /\ Rank(At(d).on) \in 1..5 /\ Rank(At(e).on) \in 1..5 /\ Rank(At(f).on) \in 1..5
    BY Zenon, <1>0, <1>1, <1>2, <1>3, <1>4, <1>5, WaitsForLater
  <1> QED
    BY <1>1, <1>2, <1>3, <1>4, <1>5, <1>6

(* The threads are never in a deadlock, however many there are: the locks a
   thread has come before the one it waits for, so a circle of threads
   cannot close. *)
THEOREM NoDeadlock == Spec => []SomeoneMoves
  BY Invariance, SomeoneMovesNow, PTL

-----------------------------------------------------------------------------
(* Table and queue have changed equally often, unless a thread is between
   the two changes; a thread that is looking saw the queue as it is; nobody
   has looked before its time. *)
SInv ==
  /\ \A t \in Thread : Between(call[t], pc[t]) => change["table"] = change["queue"] + 1
  /\ (\A t \in Thread : ~Between(call[t], pc[t])) => change["table"] = change["queue"]
  /\ \A t \in Thread : Looking(call[t], pc[t]) => seen[t]["queue"] = change["queue"]
  /\ \A t \in Thread : Before(call[t], pc[t]) => seen[t]["table"] = -1
  /\ \A t \in Thread : TableOnly(call[t]) => seen[t]["queue"] = -1
  /\ SnapshotsAgree

LEMMA NoneSights ==
  \A k : ~Between("none", k) /\ ~Looking("none", k) /\ ~Before("none", k) /\ ~TableOnly("none")
  BY Zenon DEF Between, Looking, Before, TableOnly

(* A thread that returns or goes on sees what its next step tells. *)
LEMMA ReturnSights ==
  ASSUME Places, NEW t \in Thread, Return(t)
  PROVE  /\ ~Between(call'[t], pc'[t]) /\ ~Looking(call'[t], pc'[t])
         /\ ~Before(call'[t], pc'[t]) /\ ~TableOnly(call'[t])
  BY Zenon, NoneSights DEF Places, Return

LEMMA AdvanceSights ==
  ASSUME Places, NEW t \in Thread, Inside(t), Advance(t)
  PROVE  /\ Between(call'[t], pc'[t]) <=> Between(call[t], pc[t] + 1)
         /\ Looking(call'[t], pc'[t]) => Looking(call[t], pc[t] + 1)
         /\ Before(call'[t], pc'[t]) => Before(call[t], pc[t] + 1)
         /\ TableOnly(call'[t]) => TableOnly(call[t])
  <1>1. /\ call[t] \in Calls /\ pc[t] \in Nat /\ pc[t] \in 1..Len(Program[call[t]])
        /\ Orders(call[t], Program[call[t]])
    BY Zenon, AtFacts
  <1>2. CASE pc[t] < Len(Program[call[t]])
    <2>1. call'[t] = call[t] /\ pc'[t] = pc[t] + 1
      BY Zenon, <1>2 DEF Advance, Places
    <2> QED
      BY Zenon, <2>1
  <1>3. CASE ~(pc[t] < Len(Program[call[t]]))
    <2>1. Return(t)
      BY Zenon, <1>3 DEF Advance
    <2>2. pc[t] = Len(Program[call[t]])
      BY <1>1, <1>3 DEF Orders
    <2>3. ~Between(call[t], pc[t] + 1)
      BY Zenon, <1>1, <2>2 DEF Orders
    <2> QED
      BY Zenon, <2>1, <2>3, ReturnSights
  <1> QED
    BY Zenon, <1>2, <1>3

(* A step that neither looks at table and queue nor changes them. *)
LEMMA QuietStep ==
  ASSUME IInv, SInv, NEW t \in Thread, Inside(t), Advance(t) \/ Return(t),
         ~(At(t).do \in {"read", "write"} /\ At(t).on \in Nodes),
         UNCHANGED <<change, seen>>
  PROVE  SInv'
  <1>1. Sighted(call[t], pc[t], At(t))
    BY Zenon, AtFacts DEF IInv, TypeOK
  <1>2. \A u \in Thread \ {t} : call'[u] = call[u] /\ pc'[u] = pc[u]
    BY Zenon, AdvanceStep, ReturnStep DEF IInv, TypeOK
  <1>3. /\ ~Between(call[t], pc[t]) /\ ~Between(call'[t], pc'[t])
        /\ Looking(call'[t], pc'[t]) => Looking(call[t], pc[t])
        /\ Before(call'[t], pc'[t]) => Before(call[t], pc[t])
        /\ TableOnly(call'[t]) => TableOnly(call[t])
    BY Zenon, <1>1, AdvanceSights, ReturnSights DEF Sighted, IInv, TypeOK, Nodes
  <1>4. SnapshotsAgree'
    BY Zenon DEF SInv, SnapshotsAgree
  <1> QED
    BY Zenon, <1>2, <1>3, <1>4 DEF SInv

LEMMA BeginSights ==
  ASSUME IInv, SInv, NEW t \in Thread, NEW c \in CallOf(t), Begin(t, c)
  PROVE  SInv'
  <1>1. c \in Calls /\ Orders(c, Program[c])
    BY Zenon, CallFacts, Discipline
  <1>2. /\ \A u \in Thread \ {t} : call'[u] = call[u] /\ pc'[u] = pc[u] /\ seen'[u] = seen[u]
        /\ call'[t] = c /\ pc'[t] = 1 /\ change' = change
        /\ seen'[t]["table"] = -1 /\ seen'[t]["queue"] = -1
    BY Zenon DEF Begin, IInv, TypeOK, Places, NotSeen, Nodes
  <1>3. ~Between(c, 1) /\ ~Looking(c, 1) /\ ~Between(call[t], pc[t])
    BY Zenon, <1>1, NoneSights DEF Orders, Begin, Inside
  <1>4. SnapshotsAgree'
    BY Zenon, <1>2 DEF SInv, SnapshotsAgree
  <1> QED
    BY Zenon, <1>2, <1>3, <1>4 DEF SInv

(* While a thread has sgx_table_lock, or the queue for reading, nobody else
   is between the two changes or about to make one. *)
LEMMA Undisturbed ==
  ASSUME IInv, NEW t \in Thread, NEW u \in Thread, t # u,
         Wr(call[t], pc[t], "sgx_table_lock") \/ Rd(call[t], pc[t], "queue_lock")
  PROVE  ~(Wr(call[u], pc[u], "sgx_table_lock") /\ Wr(call[u], pc[u], "queue_lock"))
  BY Zenon, Exclusive DEF Lock

LEMMA BetweenHolds ==
  ASSUME IInv, NEW t \in Thread, Between(call[t], pc[t])
  PROVE  Wr(call[t], pc[t], "sgx_table_lock") /\ Wr(call[t], pc[t], "queue_lock")
  <1>1. Inside(t)
    BY Zenon, NoneSights DEF Inside
  <1> QED
    BY Zenon, <1>1, AtFacts DEF IInv, TypeOK, Sighted

LEMMA LookingHolds ==
  ASSUME IInv, NEW t \in Thread, Looking(call[t], pc[t])
  PROVE  Wr(call[t], pc[t], "sgx_table_lock") \/ Rd(call[t], pc[t], "queue_lock")
  <1>1. Inside(t)
    BY Zenon, NoneSights DEF Inside
  <1> QED
    BY Zenon, <1>1, AtFacts DEF IInv, TypeOK, Sighted

(* What all accesses to table and queue have in common. *)
LEMMA AccessFacts ==
  ASSUME IInv, NEW t \in Thread, DoAccess(t)
  PROVE  /\ Guarded(call[t], pc[t], At(t)) /\ Sighted(call[t], pc[t], At(t))
         /\ \A u \in Thread \ {t} : call'[u] = call[u] /\ pc'[u] = pc[u]
         /\ Between(call'[t], pc'[t]) <=> Between(call[t], pc[t] + 1)
         /\ Looking(call'[t], pc'[t]) => Looking(call[t], pc[t] + 1)
         /\ Before(call'[t], pc'[t]) => Before(call[t], pc[t] + 1)
         /\ TableOnly(call'[t]) => TableOnly(call[t])
  BY Zenon, AtFacts, AdvanceStep, AdvanceSights DEF DoAccess, IInv, TypeOK

LEMMA WriteSights ==
  ASSUME IInv, SInv, NEW t \in Thread, DoAccess(t), At(t).do = "write", At(t).on \in Nodes
  PROVE  SInv'
  <1>1. /\ Guarded(call[t], pc[t], At(t)) /\ Sighted(call[t], pc[t], At(t))
        /\ \A u \in Thread \ {t} : call'[u] = call[u] /\ pc'[u] = pc[u]
        /\ Between(call'[t], pc'[t]) <=> Between(call[t], pc[t] + 1)
        /\ Looking(call'[t], pc'[t]) => Looking(call[t], pc[t] + 1)
        /\ Before(call'[t], pc'[t]) => Before(call[t], pc[t] + 1)
        /\ TableOnly(call'[t]) => TableOnly(call[t])
    BY ZenonT(60), AccessFacts
  <1>2. Wr(call[t], pc[t], "sgx_table_lock") /\ Wr(call[t], pc[t], "queue_lock")
    BY ZenonT(60), <1>1 DEF Guarded, Nodes
  <1>3. \A u \in Thread \ {t} : ~Between(call[u], pc[u]) /\ ~Looking(call[u], pc[u])
    BY Zenon, <1>2, Undisturbed, BetweenHolds, LookingHolds
  <1>4. seen' = seen /\ change \in [Nodes -> Nat]
        /\ change' = [change EXCEPT ![At(t).on] = @ + 1]
    BY Zenon DEF DoAccess, IInv, TypeOK
  <1>5. SnapshotsAgree'
    BY Zenon, <1>4 DEF SInv, SnapshotsAgree
  <1>6. /\ Looking(call'[t], pc'[t]) => Looking(call[t], pc[t])
        /\ Before(call'[t], pc'[t]) => Before(call[t], pc[t])
    BY Zenon, <1>1 DEF Sighted
  <1>7. CASE At(t).on = "table"
    <2>1. /\ change'["table"] = change["table"] + 1 /\ change'["queue"] = change["queue"]
          /\ change["table"] \in Nat /\ change["queue"] \in Nat
      BY Zenon, <1>4, <1>7 DEF Nodes
    <2>2. ~Between(call[t], pc[t]) /\ Between(call'[t], pc'[t])
      BY ZenonT(60), <1>1, <1>7 DEF Sighted
    <2>3. change["table"] = change["queue"]
      BY Zenon, <1>3, <2>2 DEF SInv
    <2> QED
      BY Zenon, <1>1, <1>3, <1>4, <1>5, <1>6, <2>1, <2>2, <2>3 DEF SInv
  <1>8. CASE At(t).on = "queue"
    <2>1. /\ change'["queue"] = change["queue"] + 1 /\ change'["table"] = change["table"]
          /\ change["table"] \in Nat /\ change["queue"] \in Nat
      BY Zenon, <1>4, <1>8 DEF Nodes
    <2>2. Between(call[t], pc[t]) /\ ~Between(call'[t], pc'[t])
      BY Zenon, <1>1, <1>8 DEF Sighted
    <2>3. change["table"] = change["queue"] + 1
      BY Zenon, <2>2 DEF SInv
    <2>4. ~Looking(call'[t], pc'[t])
      BY Zenon, <1>6, <2>2 DEF Between, Looking
    <2> QED
      BY ZenonT(60), <1>1, <1>3, <1>4, <1>5, <1>6, <2>1, <2>2, <2>3, <2>4 DEF SInv
  <1> QED
    BY Zenon, <1>7, <1>8 DEF Nodes

LEMMA ReadSights ==
  ASSUME IInv, SInv, NEW t \in Thread, DoAccess(t), At(t).do = "read", At(t).on \in Nodes
  PROVE  SInv'
  <1>1. /\ Guarded(call[t], pc[t], At(t)) /\ Sighted(call[t], pc[t], At(t))
        /\ \A u \in Thread \ {t} : call'[u] = call[u] /\ pc'[u] = pc[u]
        /\ Between(call'[t], pc'[t]) <=> Between(call[t], pc[t] + 1)
        /\ Looking(call'[t], pc'[t]) => Looking(call[t], pc[t] + 1)
        /\ Before(call'[t], pc'[t]) => Before(call[t], pc[t] + 1)
        /\ TableOnly(call'[t]) => TableOnly(call[t])
    BY Zenon, AccessFacts
  <1>2. change' = change /\ change \in [Nodes -> Nat]
        /\ seen \in [Thread -> [Nodes -> Nat \cup {-1}]]
        /\ seen' = [seen EXCEPT ![t][At(t).on] = change[At(t).on]]
    BY Zenon DEF DoAccess, IInv, TypeOK
  <1>3. ~Between(call[t], pc[t]) /\ ~Between(call'[t], pc'[t])
    BY Zenon, <1>1 DEF Sighted
  <1>4. \A u \in Thread \ {t} : seen'[u] = seen[u]
    BY Zenon, <1>2
  <1>5. CASE At(t).on = "queue"
    <2>1. seen'[t]["queue"] = change["queue"] /\ seen'[t]["table"] = seen[t]["table"]
      BY Zenon, <1>2, <1>5 DEF Nodes
    <2>2. seen[t]["table"] = -1 /\ ~TableOnly(call[t])
      BY ZenonT(60), <1>1, <1>5 DEF Sighted, SInv
    <2>3. SnapshotsAgree'
      BY Zenon, <1>4, <2>1, <2>2 DEF SInv, SnapshotsAgree
    <2> QED
      BY Zenon, <1>1, <1>2, <1>3, <1>4, <2>1, <2>2, <2>3 DEF SInv
  <1>6. CASE At(t).on = "table"
    <2>1. seen'[t]["table"] = change["table"] /\ seen'[t]["queue"] = seen[t]["queue"]
      BY Zenon, <1>2, <1>6 DEF Nodes
    <2>2. /\ TableOnly(call[t]) \/ Looking(call[t], pc[t])
          /\ ~Before(call'[t], pc'[t])
          /\ Looking(call'[t], pc'[t]) => Looking(call[t], pc[t])
      BY Zenon, <1>1, <1>6 DEF Sighted
    <2>3. seen[t]["queue"] = -1 \/ seen[t]["queue"] = change["table"]
      <3>1. CASE TableOnly(call[t])
        BY Zenon, <3>1 DEF SInv
      <3>2. CASE Looking(call[t], pc[t])
        <4>1. \A u \in Thread \ {t} : ~Between(call[u], pc[u])
          BY Zenon, <3>2, LookingHolds, Undisturbed, BetweenHolds
        <4>2. change["table"] = change["queue"]
          BY Zenon, <1>3, <4>1 DEF SInv
        <4> QED
          BY Zenon, <3>2, <4>2 DEF SInv
      <3> QED
        BY Zenon, <2>2, <3>1, <3>2
    <2>4. SnapshotsAgree'
      BY Zenon, <1>4, <2>1, <2>3 DEF SInv, SnapshotsAgree
    <2> QED
      BY Zenon, <1>1, <1>2, <1>3, <1>4, <2>1, <2>2, <2>4 DEF SInv
  <1> QED
    BY Zenon, <1>5, <1>6 DEF Nodes

LEMMA InitSights == Init => SInv
  BY NoneSights DEF Init, SInv, SnapshotsAgree, NotSeen, Nodes

LEMMA NextSights == IInv /\ SInv /\ [Next]_vars => SInv'
  <1> SUFFICES ASSUME IInv, SInv, [Next]_vars PROVE SInv'
    OBVIOUS
  <1>1. ASSUME NEW t \in Thread, NEW c \in CallOf(t), Begin(t, c) PROVE SInv'
    BY Zenon, <1>1, BeginSights
  <1>2. ASSUME NEW t \in Thread, DoLock(t) PROVE SInv'
    BY Zenon, <1>2, QuietStep DEF DoLock
  <1>3. ASSUME NEW t \in Thread, DoTryLock(t) PROVE SInv'
    BY Zenon, <1>3, QuietStep DEF DoTryLock
  <1>4. ASSUME NEW t \in Thread, DoReadLock(t) PROVE SInv'
    BY Zenon, <1>4, QuietStep DEF DoReadLock
  <1>5. ASSUME NEW t \in Thread, DoUnlock(t) PROVE SInv'
    BY Zenon, <1>5, QuietStep DEF DoUnlock
  <1>6. ASSUME NEW t \in Thread, DoBroadcast(t) PROVE SInv'
    BY Zenon, <1>6, QuietStep DEF DoBroadcast
  <1>7. ASSUME NEW t \in Thread, DoAccess(t) PROVE SInv'
    <2>1. CASE At(t).on \in Nodes
      BY Zenon, <1>7, <2>1, WriteSights, ReadSights DEF DoAccess
    <2>2. CASE At(t).on \notin Nodes
      BY Zenon, <1>7, <2>2, QuietStep DEF DoAccess
    <2> QED
      BY Zenon, <2>1, <2>2
  <1>8. CASE SpuriousWake
    BY Zenon, <1>8 DEF SpuriousWake, SInv, SnapshotsAgree
  <1>9. CASE UNCHANGED vars
    BY Zenon, <1>9 DEF vars, SInv, SnapshotsAgree
  <1> QED
    BY Zenon, <1>1, <1>2, <1>3, <1>4, <1>5, <1>6, <1>7, <1>8, <1>9 DEF Next, Run

(* Every message shows table and queue after the same change, for any
   number of threads. *)
THEOREM ConsistentSnapshots == Spec => []SnapshotsAgree
  <1>1. SInv => SnapshotsAgree
    BY Zenon DEF SInv
  <1> QED
    BY <1>1, Invariance, InitSights, NextSights, PTL DEF Spec

=============================================================================
