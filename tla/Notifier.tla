------------------------------ MODULE Notifier ------------------------------
(***************************************************************************)
(* The threads of poet_server.cpp around the request handlers: main and    *)
(* secondary_socket_sentinel, which give connections a thread from         *)
(* threads_queue, and sgx_table_and_queue_notification, which sends every  *)
(* subscriber the table and the queue after a change.                      *)
(*                                                                         *)
(* A slot is an element of the array threads.  It holds the pthread_t of   *)
(* the thread created in it last, dead or alive, and is handed out again   *)
(* as soon as that thread has pushed it back.  The handlers appear only as *)
(* critical sections that change table and queue.                          *)
(***************************************************************************)
EXTENDS Integers, Sequences, FiniteSets

CONSTANTS
  Slot,       \* the elements of threads, MAX_THREADS of them
  NoSlot,     \* a creator that has no slot in hand
  Sub,        \* node ids that subscribe on the secondary socket
  MaxVersion  \* bound: changes of the queue

ASSUME SlotAssumption == IsFiniteSet(Slot) /\ NoSlot \notin Slot
ASSUME SubAssumption == Sub \subseteq Nat
ASSUME VersionAssumption == MaxVersion \in Nat

VARIABLES
  threads_queue,  \* slots to hand out
  thread,         \* the thread created last in a slot
  main,           \* where main is, and the slot it works on
  sentinel,       \* the same for secondary_socket_sentinel
  comms,          \* g.secondary_socket_comms: subscribers
  handler,        \* the critical section of a handler: "out", "table", "queue"
  owed,           \* broadcasts poet_unfinished_node still has to make
  sgx_table,      \* g.sgx_table, as the number of changes made to it
  queue,          \* g.queue, as the number of changes made to it
  npc,            \* where the notification thread is
  woken,          \* its condition variable was signalled
  buffer,         \* the table and the queue as written to the buffer
  pending,        \* subscribers that have no sender yet
  q,              \* slots of the senders to join
  got,            \* last message delivered to a subscriber
  status          \* "running", or what ended the process

server == <<handler, owed, sgx_table, queue>>
notifier == <<npc, buffer, pending, q>>
pool == <<threads_queue, thread>>
vars == <<pool, main, sentinel, comms, server, notifier, woken, got, status>>

(* sender: has the buffer in use; sent: has yet to push its slot;
   added: has yet to push its slot *)
Alive == {"node", "addition", "added", "sender", "sent"}
Thread == [does : Alive \cup {"exited", "joined"}, detached : BOOLEAN,
           sub : Sub \cup {-1}, msg : Nat]
NoThread == [does |-> "joined", detached |-> TRUE, sub |-> -1, msg |-> 0]
Started(what) == [does |-> what, detached |-> FALSE, sub |-> -1, msg |-> 0]

TypeOK ==
  /\ threads_queue \in Seq(Slot)
  /\ thread \in [Slot -> Thread]
  /\ main \in [at : {"accept", "checked", "created"}, slot : Slot \cup {NoSlot}]
  /\ sentinel \in [at : {"accept", "created"}, slot : Slot \cup {NoSlot}]
  /\ comms \subseteq Sub
  /\ handler \in {"out", "table", "queue"}
  /\ owed \in Nat /\ sgx_table \in Nat /\ queue \in Nat
  /\ npc \in {"idle", "waiting", "snapshot", "spawn", "join", "joining"}
  /\ woken \in BOOLEAN
  /\ buffer \in [table : Nat, queue : Nat]
  /\ pending \subseteq Sub
  /\ q \in Seq(Slot)
  /\ got \in [Sub -> Nat]
  /\ status \in {"running", "segfault", "assert_335"}

Init ==
  /\ threads_queue \in [1..Cardinality(Slot) -> Slot]
  /\ \A s \in Slot : \E k \in DOMAIN threads_queue : threads_queue[k] = s
  /\ thread = [s \in Slot |-> NoThread]
  /\ main = [at |-> "accept", slot |-> NoSlot]
  /\ sentinel = [at |-> "accept", slot |-> NoSlot]
  /\ comms = {}
  /\ handler = "out" /\ owed = 0 /\ sgx_table = 0 /\ queue = 0
  /\ npc = "idle" /\ woken = FALSE
  /\ buffer = [table |-> 0, queue |-> 0]
  /\ pending = {} /\ q = <<>>
  /\ got = [n \in Sub |-> 0]
  /\ status = "running"

-----------------------------------------------------------------------------
(* queue_front_and_pop on threads_queue and delegate_thread_to_function up to
   pthread_create: a null slot fails its assertion. *)
Create(t) ==
  IF threads_queue = <<>>
  THEN status' = "assert_335" /\ UNCHANGED pool
  ELSE /\ threads_queue' = Tail(threads_queue)
       /\ thread' = [thread EXCEPT ![Head(threads_queue)] = t]
       /\ status' = status

NextSlot == IF threads_queue = <<>> THEN NoSlot ELSE Head(threads_queue)

(* Variant: nothing is detached. *)
DetachNothing(s) == thread' = thread

(* pthread_detach: whatever thread the slot holds by now.  It has no
   effect on a thread that is being joined. *)
Detach(s) ==
  IF s = NoSlot \/ (npc = "joining" /\ Head(q) = s)
  THEN thread' = thread
  ELSE thread' = [thread EXCEPT ![s].detached = TRUE]

(* main accepts a connection and looks whether there is a slot ... *)
MainCheck ==
  /\ main.at = "accept"
  /\ threads_queue # <<>>
  /\ main' = [at |-> "checked", slot |-> NoSlot]
  /\ UNCHANGED <<pool, sentinel, comms, server, notifier, woken, got, status>>

(* ... and then takes it. *)
MainCreate ==
  /\ main.at = "checked"
  /\ main' = [at |-> "created", slot |-> NextSlot]
  /\ Create(Started("node"))
  /\ UNCHANGED <<sentinel, comms, server, notifier, woken, got>>

MainDetach ==
  /\ main.at = "created"
  /\ Detach(main.slot)
  /\ main' = [at |-> "accept", slot |-> NoSlot]
  /\ UNCHANGED <<threads_queue, sentinel, comms, server, notifier, woken, got, status>>

(* secondary_socket_sentinel does not look. *)
SentinelCreate ==
  /\ sentinel.at = "accept"
  /\ sentinel' = [at |-> "created", slot |-> NextSlot]
  /\ Create(Started("addition"))
  /\ UNCHANGED <<main, comms, server, notifier, woken, got>>

SentinelDetach ==
  /\ sentinel.at = "created"
  /\ Detach(sentinel.slot)
  /\ sentinel' = [at |-> "accept", slot |-> NoSlot]
  /\ UNCHANGED <<threads_queue, main, comms, server, notifier, woken, got, status>>

-----------------------------------------------------------------------------
(* Threads in a slot *)

(* process_secondary_node_addition with a valid id.  The write lock of
   secondary_socket_comms excludes the notification thread's loop. *)
Add(s, n) ==
  /\ thread[s].does = "addition"
  /\ npc # "spawn"
  /\ comms' = comms \cup {n}
  /\ thread' = [thread EXCEPT ![s].does = "added"]
  /\ UNCHANGED <<threads_queue, main, sentinel, server, notifier, woken, got, status>>

(* Variant: the slot is pushed when the message is out, and again at the end. *)
SendReturnsSlot(s) ==
  /\ thread[s].does = "sender"
  /\ got' = [got EXCEPT ![thread[s].sub] = thread[s].msg]
  /\ thread' = [thread EXCEPT ![s].does = "sent"]
  /\ threads_queue' = Append(threads_queue, s)
  /\ UNCHANGED <<main, sentinel, comms, server, notifier, woken, status>>

(* asyncronous_send_message: the message arrives, or the send fails. *)
Send(s) ==
  /\ thread[s].does = "sender"
  /\ \/ got' = [got EXCEPT ![thread[s].sub] = thread[s].msg]
     \/ got' = got
  /\ thread' = [thread EXCEPT ![s].does = "sent"]
  /\ UNCHANGED <<threads_queue, main, sentinel, comms, server, notifier, woken, status>>

(* The end of process_new_node (the client has left), of
   process_secondary_node_addition (also one with an invalid id) and of
   asyncronous_send_message: the slot is pushed, then the thread exits.  A
   pthread_join on it returns. *)
Exit(s) ==
  /\ thread[s].does \in {"node", "addition", "added", "sent"}
  /\ threads_queue' = Append(threads_queue, s)
  /\ IF npc = "joining" /\ Head(q) = s
     THEN /\ npc' = "join" /\ q' = Tail(q)
          /\ thread' = [thread EXCEPT ![s].does = "joined"]
     ELSE /\ UNCHANGED <<npc, q>>
          /\ thread' = [thread EXCEPT ![s].does = "exited"]
  /\ UNCHANGED <<main, sentinel, comms, server, buffer, pending, woken, got, status>>

-----------------------------------------------------------------------------
(* Handlers: insert_node_into_sgx_table_and_queue and poet_unfinished_node
   hold sgx_table_lock and cond_mutex from the first change to the last. *)

HandlerTable ==
  /\ handler = "out"
  /\ queue < MaxVersion
  /\ handler' = "table"
  /\ sgx_table' = sgx_table + 1
  /\ UNCHANGED <<pool, main, sentinel, comms, owed, queue, notifier, woken, got, status>>

(* An insert broadcasts inside its critical section, a report after it. *)
HandlerQueue ==
  /\ handler = "table"
  /\ handler' = "queue"
  /\ queue' = queue + 1
  /\ \/ woken' = (npc = "waiting") /\ owed' = owed
     \/ woken' = woken /\ owed' = owed + 1
  /\ UNCHANGED <<pool, main, sentinel, comms, sgx_table, notifier, got, status>>

HandlerLeave ==
  /\ handler = "queue"
  /\ handler' = "out"
  /\ UNCHANGED <<pool, main, sentinel, comms, owed, sgx_table, queue, notifier, woken,
                 got, status>>

(* queue_broadcast reaches a thread that waits and no other. *)
Broadcast ==
  /\ owed > 0
  /\ owed > 1 \/ handler # "queue"
  /\ owed' = owed - 1
  /\ woken' = (npc = "waiting")
  /\ UNCHANGED <<pool, main, sentinel, comms, handler, sgx_table, queue, notifier, got,
                 status>>

-----------------------------------------------------------------------------
(* sgx_table_and_queue_notification *)

(* queue_wait_change: the thread waits if it gets cond_mutex at once.  If not,
   it tries again a second later. *)
WaitChange ==
  /\ npc = "idle"
  /\ handler = "out"
  /\ npc' = "waiting" /\ woken' = FALSE
  /\ UNCHANGED <<pool, main, sentinel, comms, server, buffer, pending, q, got, status>>

(* pthread_cond_wait returns with cond_mutex: no handler has it. *)
Wake ==
  /\ npc = "waiting" /\ woken
  /\ handler = "out"
  /\ npc' = "snapshot" /\ woken' = FALSE
  /\ UNCHANGED <<pool, main, sentinel, comms, server, buffer, pending, q, got, status>>

SpuriousWake ==
  /\ npc = "waiting" /\ ~woken
  /\ handler = "out"
  /\ npc' = "snapshot"
  /\ UNCHANGED <<pool, main, sentinel, comms, server, buffer, pending, q, woken, got,
                 status>>

(* Variant: without sgx_table_lock. *)
SnapshotUnlocked ==
  /\ npc = "snapshot"
  /\ buffer' = [table |-> sgx_table, queue |-> queue]
  /\ npc' = "spawn" /\ pending' = comms
  /\ UNCHANGED <<pool, main, sentinel, comms, server, q, woken, got, status>>

(* Table and queue are read under sgx_table_lock; then the read lock on
   secondary_socket_comms is taken. *)
Snapshot ==
  /\ npc = "snapshot"
  /\ handler = "out"
  /\ buffer' = [table |-> sgx_table, queue |-> queue]
  /\ npc' = "spawn" /\ pending' = comms
  /\ UNCHANGED <<pool, main, sentinel, comms, server, q, woken, got, status>>

(* One sender for every subscriber, in the order of the map. *)
Spawn(n) ==
  /\ npc = "spawn"
  /\ n \in pending /\ \A m \in pending : n <= m
  /\ Create([Started("sender") EXCEPT !.sub = n, !.msg = buffer.queue])
  /\ q' = IF threads_queue = <<>> THEN q ELSE Append(q, NextSlot)
  /\ pending' = pending \ {n}
  /\ UNCHANGED <<main, sentinel, comms, server, npc, buffer, woken, got>>

SpawnDone ==
  /\ npc = "spawn" /\ pending = {}
  /\ npc' = "join"
  /\ UNCHANGED <<pool, main, sentinel, comms, server, buffer, pending, q, woken, got,
                 status>>

(* pthread_join on a thread that is running: it waits.  Exit goes
   on from there. *)
JoinWait ==
  /\ npc = "join" /\ q # <<>>
  /\ thread[Head(q)].does \in Alive /\ ~thread[Head(q)].detached
  /\ npc' = "joining"
  /\ UNCHANGED <<pool, main, sentinel, comms, server, buffer, pending, q, woken, got,
                 status>>

(* ... on one that has exited; or on one that cannot be joined, which is an
   error while that thread runs and undefined when it is gone. *)
JoinReturns ==
  /\ npc = "join" /\ q # <<>>
  /\ LET t == thread[Head(q)]
     IN  \/ /\ t.does = "exited" /\ ~t.detached
            /\ thread' = [thread EXCEPT ![Head(q)].does = "joined"]
            /\ status' = status
         \/ /\ t.does \in Alive /\ t.detached
            /\ UNCHANGED <<thread, status>>
         \/ /\ t.does = "joined" \/ (t.does = "exited" /\ t.detached)
            /\ thread' = thread
            /\ status' \in {"running", "segfault"}
  /\ q' = Tail(q)
  /\ UNCHANGED <<threads_queue, main, sentinel, comms, server, npc, buffer, pending,
                 woken, got>>

(* Variant: the senders are not joined. *)
FreeUnjoined ==
  /\ npc = "join"
  /\ npc' = "idle" /\ q' = <<>>
  /\ UNCHANGED <<pool, main, sentinel, comms, server, buffer, pending, woken, got, status>>

(* free(buffer), and back to waiting. *)
FreeBuffer ==
  /\ npc = "join" /\ q = <<>>
  /\ npc' = "idle"
  /\ UNCHANGED <<pool, main, sentinel, comms, server, buffer, pending, q, woken, got,
                 status>>

-----------------------------------------------------------------------------
Creator == MainCheck \/ MainCreate \/ MainDetach \/ SentinelCreate \/ SentinelDetach
Handler == HandlerTable \/ HandlerQueue \/ HandlerLeave \/ Broadcast
Notify ==
  \/ WaitChange
  \/ Wake
  \/ Snapshot
  \/ \E n \in Sub : Spawn(n)
  \/ SpawnDone
  \/ JoinWait
  \/ JoinReturns
  \/ FreeBuffer
Work(s) == Exit(s) \/ Send(s) \/ \E n \in Sub : Add(s, n)

Next ==
  /\ status = "running"
  /\ \/ Creator
     \/ Handler
     \/ Notify
     \/ SpuriousWake
     \/ \E s \in Slot : Work(s)

Spec == Init /\ [][Next]_vars

(* A handler leaves its critical section and makes the broadcast it owes, the
   notification thread and the two creators are scheduled, and the threads that
   do not wait for a client come to their end. *)
Fairness ==
  /\ WF_vars(status = "running" /\ MainDetach)
  /\ WF_vars(status = "running" /\ SentinelDetach)
  /\ WF_vars(status = "running" /\ (HandlerQueue \/ HandlerLeave))
  /\ WF_vars(status = "running" /\ Broadcast)
  /\ WF_vars(status = "running" /\ Notify)
  /\ \A s \in Slot :
       /\ WF_vars(status = "running" /\ Send(s))
       /\ WF_vars(status = "running" /\ thread[s].does # "node" /\ Exit(s))

(* The creator of a thread detaches it before its slot is handed out again
   and before the notification thread looks at that slot. *)
Undetached(s) == s \in {main.slot, sentinel.slot}
PromptDetach ==
  \A s \in Slot : Undetached(s) =>
    /\ thread[s].does \notin Alive => thread'[s].does \notin Alive
    /\ npc = "join" /\ q # <<>> /\ Head(q) = s => npc' = npc /\ q' = q

SpecPrompt == Init /\ [][Next /\ PromptDetach]_vars
FairPrompt == SpecPrompt /\ Fairness

-----------------------------------------------------------------------------
(* Properties of every schedule *)

(* A slot is handed to one thread at a time: it is queued once at most, and
   never while the thread in it runs. *)
SlotsOnce ==
  /\ \A j, k \in DOMAIN threads_queue : threads_queue[j] = threads_queue[k] => j = k
  /\ \A k \in DOMAIN threads_queue : thread[threads_queue[k]].does \notin Alive

(* The message has table and queue of the same change. *)
SnapshotConsistent == buffer.table = buffer.queue

(* Properties that need PromptDetach *)

(* The notification thread frees the buffer when no sender has it in use. *)
BufferSafe ==
  npc \in {"idle", "waiting", "snapshot"} => \A s \in Slot : thread[s].does # "sender"

(* A subscriber never gets an older queue after a newer one. *)
DeliveredInOrder == [][\A n \in Sub : got[n] <= got'[n]]_vars

(* Once woken, the notification thread comes back to wait for the next change:
   its joins end, though the slots it joins are in use again. *)
NotifierReturns == npc = "snapshot" ~> npc = "idle" \/ status # "running"

-----------------------------------------------------------------------------
(* What poet_server.cpp says *)

(* "wait until there is a change in the nodes queue": the thread that waits is
   woken by every change, so that a snapshot has it or a later one. *)
ChangeAnnounced ==
  \A v \in 1..MaxVersion : queue >= v ~> buffer.queue >= v \/ status # "running"
=============================================================================
