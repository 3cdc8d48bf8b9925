---------------------------- MODULE ServerLocks ----------------------------
(***************************************************************************)
(* The locks of the server.  Every thread runs calls that take locks one   *)
(* at a time, touch the shared data and give the locks back; a call is the *)
(* sequence of those steps, in the order of the code.  What the data are   *)
(* is left to PoetServer and Notifier: here a change is counted, and a     *)
(* reader remembers which change it saw.                                   *)
(*                                                                         *)
(* The helpers of poet_shared_functions.cpp mean to sort their locks by    *)
(* address, but comp_address compares the places in the array, so the      *)
(* locks are taken as the caller lists them.                               *)
(***************************************************************************)
EXTENDS Integers, Sequences

CONSTANTS
  Client,    \* threads that run process_new_node
  Adder,     \* threads that run process_secondary_node_addition
  Notifier,  \* the thread of sgx_table_and_queue_notification
  NoThread,  \* the owner of a lock that is free
  MaxCalls   \* bound: calls of clients and adders, and spurious wake-ups

ASSUME ThreadAssumption ==
  /\ Notifier \notin Client \cup Adder
  /\ NoThread \notin Client \cup Adder \cup {Notifier}
ASSUME CallsAssumption == MaxCalls \in Nat

VARIABLES
  call,     \* the call a thread is in, "none" between calls
  pc,       \* the step it takes next
  writer,   \* who has a lock as a mutex or for writing
  readers,  \* who has it for reading
  asleep,   \* the notification thread waits for a signal of the queue
  change,   \* changes made to the table and to the queue
  seen,     \* the changes a thread saw in this call, -1 before it looks
  begun     \* calls begun, and spurious wake-ups

vars == <<call, pc, writer, readers, asleep, change, seen, begun>>

Thread == Client \cup Adder \cup {Notifier}
Lock == {"sgx_table_lock", "cond_mutex", "queue_lock", "comms_lock", "slots_lock"}
Nodes == {"table", "queue"}
Data == Nodes \cup {"comms", "slots"}

-----------------------------------------------------------------------------
(* Steps, and the helpers that make them. *)
Step(do, on) == [do |-> do, on |-> on]

mutex_locks(a, b) == <<Step("lock", a), Step("lock", b)>>
mutex_unlocks(a, b) == <<Step("unlock", b), Step("unlock", a)>>
rwlock_rwlocks(l) == <<Step("lock", l)>>
rwlock_unlocks(l) == <<Step("unlock", l)>>

(* queue_push and queue_front_and_pop on threads_queue *)
threads_queue_change ==
  <<Step("lock", "slots_lock"), Step("write", "slots"), Step("unlock", "slots_lock")>>

(* queue_wait_change(g.queue): pthread_cond_wait gives the mutex back while
   it sleeps and takes it again before it returns. *)
queue_wait_change ==
  <<Step("trylock", "cond_mutex"), Step("wait", "cond_mutex"),
    Step("wake", "cond_mutex"), Step("unlock", "cond_mutex")>>

(* Variant: the queue is printed without its lock. *)
get_queue_str_bare == <<Step("read", "queue"), Step("read", "table")>>

(* The ids are in the queue, but each is looked up in the table. *)
get_queue_str ==
  <<Step("rdlock", "queue_lock"), Step("read", "queue"), Step("read", "table"),
    Step("unlock", "queue_lock")>>

Changes == <<Step("write", "table"), Step("write", "queue")>>

(* The queue is refilled after the broadcast, as part of the same change: who is
   woken needs cond_mutex to go on. *)
insert_node_into_sgx_table_and_queue ==
  mutex_locks("sgx_table_lock", "cond_mutex") \o rwlock_rwlocks("queue_lock")
    \o Changes \o <<Step("broadcast", "cond_mutex")>>
    \o rwlock_unlocks("queue_lock") \o mutex_unlocks("sgx_table_lock", "cond_mutex")

(* Variant: the queue is locked first, as queue_cleanup would by default. *)
unfinished_node_queue_first ==
  rwlock_rwlocks("queue_lock") \o mutex_locks("sgx_table_lock", "cond_mutex")
    \o Changes
    \o mutex_unlocks("sgx_table_lock", "cond_mutex") \o rwlock_unlocks("queue_lock")
    \o <<Step("broadcast", "cond_mutex")>>

(* poet_unfinished_node, when the report is taken over ... *)
unfinished_node ==
  mutex_locks("sgx_table_lock", "cond_mutex") \o rwlock_rwlocks("queue_lock")
    \o Changes
    \o rwlock_unlocks("queue_lock") \o mutex_unlocks("sgx_table_lock", "cond_mutex")
    \o <<Step("broadcast", "cond_mutex")>>

(* ... and when it is not. *)
unfinished_node_refused ==
  mutex_locks("sgx_table_lock", "cond_mutex") \o rwlock_rwlocks("queue_lock")
    \o <<Step("read", "table")>>
    \o rwlock_unlocks("queue_lock") \o mutex_unlocks("sgx_table_lock", "cond_mutex")

(* Variant: the mutex is not given back. *)
get_sgxtable_kept == <<Step("trylock", "sgx_table_lock"), Step("read", "table")>>

(* LOCK_TIMEOUT is five seconds after the start of 1970, so a timed lock
   that is not free fails at once. *)
get_sgxtable ==
  <<Step("trylock", "sgx_table_lock"), Step("read", "table"),
    Step("unlock", "sgx_table_lock")>>

(* Variant: the mutex is given back before the table is printed. *)
get_sgxtable_and_queue_early ==
  <<Step("trylock", "sgx_table_lock")>> \o get_queue_str
    \o <<Step("unlock", "sgx_table_lock"), Step("read", "table")>>

get_sgxtable_and_queue ==
  <<Step("trylock", "sgx_table_lock")>> \o get_queue_str
    \o <<Step("read", "table"), Step("unlock", "sgx_table_lock")>>

(* The subscriber is entered, and the slot pushed back at the end. *)
process_secondary_node_addition ==
  <<Step("lock", "comms_lock"), Step("write", "comms"), Step("unlock", "comms_lock")>>
    \o threads_queue_change

(* One round of the notification thread, with one subscriber. *)
sgx_table_and_queue_notification ==
  queue_wait_change
    \o <<Step("lock", "sgx_table_lock")>> \o get_queue_str
    \o <<Step("read", "table"), Step("unlock", "sgx_table_lock")>>
    \o <<Step("rdlock", "comms_lock"), Step("read", "comms")>>
    \o threads_queue_change \o <<Step("unlock", "comms_lock")>>

Program ==
  [none                    |-> <<>>,
   insert                  |-> insert_node_into_sgx_table_and_queue,
   unfinished_node         |-> unfinished_node,
   unfinished_node_refused |-> unfinished_node_refused,
   get_sgxtable            |-> get_sgxtable,
   get_queue               |-> get_queue_str,
   get_sgxtable_and_queue  |-> get_sgxtable_and_queue,
   close                   |-> threads_queue_change,
   addition                |-> process_secondary_node_addition,
   notification            |-> sgx_table_and_queue_notification]

poet_functions == {"insert", "unfinished_node", "unfinished_node_refused",
                   "get_sgxtable", "get_queue", "get_sgxtable_and_queue", "close"}

Calls == poet_functions \cup {"addition", "notification"}

CallOf(t) ==
  IF t = Notifier THEN {"notification"}
  ELSE IF t \in Client THEN poet_functions ELSE {"addition"}

-----------------------------------------------------------------------------
NotSeen == [d \in Nodes |-> -1]

Init ==
  /\ call = [t \in Thread |-> "none"]
  /\ pc = [t \in Thread |-> 1]
  /\ writer = [l \in Lock |-> NoThread]
  /\ readers = [l \in Lock |-> {}]
  /\ asleep = FALSE
  /\ change = [d \in Nodes |-> 0]
  /\ seen = [t \in Thread |-> NotSeen]
  /\ begun = 0

Inside(t) == call[t] # "none"
At(t) == Program[call[t]][pc[t]]

Return(t) ==
  /\ call' = [call EXCEPT ![t] = "none"]
  /\ pc' = [pc EXCEPT ![t] = 1]

Advance(t) ==
  IF pc[t] < Len(Program[call[t]])
  THEN pc' = [pc EXCEPT ![t] = @ + 1] /\ call' = call
  ELSE Return(t)

(* A call begins: a request is delegated, a subscriber connects, or the
   notification thread goes round again. *)
Begin(t, c) ==
  /\ ~Inside(t)
  /\ c \in CallOf(t)
  /\ t # Notifier => begun < MaxCalls
  /\ begun' = IF t = Notifier THEN begun ELSE begun + 1
  /\ call' = [call EXCEPT ![t] = c]
  /\ pc' = [pc EXCEPT ![t] = 1]
  /\ seen' = [seen EXCEPT ![t] = NotSeen]
  /\ UNCHANGED <<writer, readers, asleep, change>>

Free(l) == writer[l] = NoThread /\ readers[l] = {}

(* pthread_mutex_lock, pthread_rwlock_wrlock, and the return of
   pthread_cond_wait *)
DoLock(t) ==
  /\ Inside(t)
  /\ At(t).do = "lock" \/ (At(t).do = "wake" /\ ~asleep)
  /\ Free(At(t).on)
  /\ writer' = [writer EXCEPT ![At(t).on] = t]
  /\ Advance(t)
  /\ UNCHANGED <<readers, asleep, change, seen, begun>>

(* Variant: the result of the timed lock is not looked at. *)
DoTryLockAnyway(t) ==
  /\ Inside(t)
  /\ At(t).do = "trylock"
  /\ writer' = IF Free(At(t).on) THEN [writer EXCEPT ![At(t).on] = t] ELSE writer
  /\ Advance(t)
  /\ UNCHANGED <<readers, asleep, change, seen, begun>>

(* A lock that is not free ends the call. *)
DoTryLock(t) ==
  /\ Inside(t)
  /\ At(t).do = "trylock"
  /\ IF Free(At(t).on)
     THEN writer' = [writer EXCEPT ![At(t).on] = t] /\ Advance(t)
     ELSE writer' = writer /\ Return(t)
  /\ UNCHANGED <<readers, asleep, change, seen, begun>>

(* pthread_rwlock_rdlock: writers that wait do not hold readers up. *)
DoReadLock(t) ==
  /\ Inside(t)
  /\ At(t).do = "rdlock"
  /\ writer[At(t).on] = NoThread
  /\ readers' = [readers EXCEPT ![At(t).on] = @ \cup {t}]
  /\ Advance(t)
  /\ UNCHANGED <<writer, asleep, change, seen, begun>>

DoUnlock(t) ==
  /\ Inside(t)
  /\ At(t).do \in {"unlock", "wait"}
  /\ writer' = IF writer[At(t).on] = t THEN [writer EXCEPT ![At(t).on] = NoThread]
               ELSE writer
  /\ readers' = [readers EXCEPT ![At(t).on] = @ \ {t}]
  /\ asleep' = (asleep \/ At(t).do = "wait")
  /\ Advance(t)
  /\ UNCHANGED <<change, seen, begun>>

DoBroadcast(t) ==
  /\ Inside(t)
  /\ At(t).do = "broadcast"
  /\ asleep' = FALSE
  /\ Advance(t)
  /\ UNCHANGED <<writer, readers, change, seen, begun>>

DoAccess(t) ==
  /\ Inside(t)
  /\ At(t).do \in {"read", "write"}
  /\ change' = IF At(t).do = "write" /\ At(t).on \in Nodes
               THEN [change EXCEPT ![At(t).on] = @ + 1] ELSE change
  /\ seen' = IF At(t).do = "read" /\ At(t).on \in Nodes
             THEN [seen EXCEPT ![t][At(t).on] = change[At(t).on]] ELSE seen
  /\ Advance(t)
  /\ UNCHANGED <<writer, readers, asleep, begun>>

(* pthread_cond_wait may return without a signal. *)
SpuriousWake ==
  /\ asleep
  /\ begun < MaxCalls
  /\ asleep' = FALSE
  /\ begun' = begun + 1
  /\ UNCHANGED <<call, pc, writer, readers, change, seen>>

Run(t) == DoLock(t) \/ DoTryLock(t) \/ DoReadLock(t) \/ DoUnlock(t)
          \/ DoBroadcast(t) \/ DoAccess(t)

Next ==
  \/ \E t \in Thread : Run(t) \/ \E c \in CallOf(t) : Begin(t, c)
  \/ SpuriousWake

Spec == Init /\ [][Next]_vars

(* A thread that can go on does; no lock is promised to anybody who waits. *)
FairSpec == Spec /\ \A t \in Thread : WF_vars(Run(t))

-----------------------------------------------------------------------------
Places ==
  /\ call \in [Thread -> Calls \cup {"none"}]
  /\ pc \in [Thread -> Nat]
  /\ \A t \in Thread : IF Inside(t) THEN pc[t] \in 1..Len(Program[call[t]])
                      ELSE pc[t] = 1

TypeOK ==
  /\ Places
  /\ writer \in [Lock -> Thread \cup {NoThread}]
  /\ readers \in [Lock -> SUBSET Thread]
  /\ asleep \in BOOLEAN
  /\ change \in [Nodes -> Nat]
  /\ seen \in [Thread -> [Nodes -> Nat \cup {-1}]]
  /\ begun \in 0..MaxCalls

Touches(t, d) == Inside(t) /\ At(t).do \in {"read", "write"} /\ At(t).on = d

(* No data are written while another thread reads or writes them, although
   no single lock guards them: get_queue looks ids up in the table without
   sgx_table_lock, get_sgxtable reads it without the lock of the queue, and
   both depend on every change holding the two. *)
NoRace ==
  \A t, u \in Thread, d \in Data :
    t # u /\ Touches(t, d) /\ Touches(u, d) => At(t).do = "read" /\ At(u).do = "read"

(* A message never shows the queue after a change and the table before it,
   or the other way round: poet_get_queue, poet_get_sgxtable_and_queue and
   the notification thread see both after the same number of changes. *)
SnapshotsAgree ==
  \A t \in Thread : seen[t]["table"] # -1 /\ seen[t]["queue"] # -1 =>
    seen[t]["table"] = seen[t]["queue"]

(* No thread gives back a lock it does not have, whichever way a call ends:
   a timed lock that failed is not unlocked. *)
UnlocksOwn ==
  \A t \in Thread : Inside(t) /\ At(t).do \in {"unlock", "wait"} =>
    writer[At(t).on] = t \/ t \in readers[At(t).on]

Sleeps(t) == At(t).do = "wake" /\ asleep

CanRun(t) ==
  /\ Inside(t)
  /\ CASE At(t).do = "lock"   -> Free(At(t).on)
       [] At(t).do = "wake"   -> ~asleep /\ Free(At(t).on)
       [] At(t).do = "rdlock" -> writer[At(t).on] = NoThread
       [] OTHER               -> TRUE

(* The threads never all wait for each other: as long as one of them is in
   a call and not asleep on the condition variable, one of them can go on. *)
SomeoneMoves ==
  (\E t \in Thread : Inside(t) /\ ~Sleeps(t)) => \E t \in Thread : CanRun(t)

(* Every call of a client or subscriber that was begun comes to its end, if
   the calls that compete with it are finitely many. *)
CallsEnd == \A t \in Client \cup Adder : Inside(t) ~> ~Inside(t)
=============================================================================
