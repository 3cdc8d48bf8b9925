--------------------------- MODULE NotifierProofs ---------------------------
(***************************************************************************)
(* Theorems about Notifier for any number of slots, subscribers and        *)
(* changes.                                                                *)
(***************************************************************************)
EXTENDS Notifier, TLAPS, FiniteSetTheorems, SequenceTheorems

(* Taking from the front of a sequence and adding to its end. *)
LEMMA TailFacts ==
  ASSUME NEW S, NEW e \in Seq(S), e # <<>>
  PROVE  /\ Head(e) \in S /\ Tail(e) \in Seq(S)
         /\ Len(e) \in Nat \ {0} /\ DOMAIN e = 1..Len(e) /\ Head(e) = e[1]
         /\ Len(Tail(e)) = Len(e) - 1 /\ DOMAIN Tail(e) = 1..(Len(e) - 1)
         /\ \A k \in 1..(Len(e) - 1) : Tail(e)[k] = e[k + 1]
  BY EmptySeq, LenProperties, HeadTailProperties

LEMMA AppendFacts ==
  ASSUME NEW S, NEW e \in Seq(S), NEW x \in S
  PROVE  /\ Append(e, x) \in Seq(S)
         /\ Len(e) \in Nat /\ DOMAIN e = 1..Len(e)
         /\ Len(Append(e, x)) = Len(e) + 1 /\ DOMAIN Append(e, x) = 1..(Len(e) + 1)
         /\ \A k \in 1..Len(e) : Append(e, x)[k] = e[k]
         /\ Append(e, x)[Len(e) + 1] = x
  BY AppendProperties, LenProperties

-----------------------------------------------------------------------------
(* Type correctness *)

(* The notification thread only waits in pthread_join for a slot it holds. *)
JoiningHolds == npc = "joining" => q # <<>>

TInv == TypeOK /\ JoiningHolds

LEMMA ThreadRecords ==
  /\ NoThread \in Thread
  /\ \A w \in Alive : Started(w) \in Thread
  /\ \A t \in Thread, w \in Alive \cup {"exited", "joined"} :
       [t EXCEPT !.does = w] \in Thread
  /\ \A t \in Thread : [t EXCEPT !.detached = TRUE] \in Thread
  /\ \A t \in Thread, n \in Sub, v \in Nat :
       [t EXCEPT !.sub = n, !.msg = v] \in Thread
  BY ZenonT(60) DEF NoThread, Thread, Alive, Started

LEMMA CreateType ==
  ASSUME TypeOK, NEW t \in Thread, Create(t)
  PROVE  /\ threads_queue' \in Seq(Slot)
         /\ thread' \in [Slot -> Thread]
         /\ status' \in {"running", "segfault", "assert_335"}
         /\ NextSlot \in Slot \cup {NoSlot}
<1>1. CASE threads_queue = <<>>
  BY <1>1 DEF TypeOK, Create, NextSlot, pool
<1>2. CASE threads_queue # <<>>
  <2>1. Head(threads_queue) \in Slot /\ Tail(threads_queue) \in Seq(Slot)
    BY <1>2, TailFacts DEF TypeOK
  <2> QED
    BY ZenonT(60), <1>2, <2>1 DEF TypeOK, Create, NextSlot
<1> QED
  BY <1>1, <1>2

LEMMA DetachType ==
  ASSUME TypeOK, NEW s \in Slot \cup {NoSlot}, Detach(s)
  PROVE  /\ thread' \in [Slot -> Thread]
         /\ \A r \in Slot : /\ thread'[r].does = thread[r].does
                            /\ thread'[r].msg = thread[r].msg
                            /\ r # s => thread'[r] = thread[r]
<1>1. CASE thread' = thread
  BY <1>1 DEF TypeOK
<1>2. CASE s \in Slot /\ thread' = [thread EXCEPT ![s].detached = TRUE]
  <2> DEFINE t == [thread[s] EXCEPT !.detached = TRUE]
  <2>1. thread \in [Slot -> Thread] /\ thread[s] \in Thread
    BY <1>2 DEF TypeOK
  <2>2. t \in Thread /\ t.does = thread[s].does /\ t.msg = thread[s].msg
    BY ZenonT(60), <2>1 DEF Thread
  <2>3. thread' = [thread EXCEPT ![s] = t]
    BY <1>2
  <2> HIDE DEF t
  <2> QED
    BY ZenonT(60), <1>2, <2>1, <2>2, <2>3
<1> QED
  BY <1>1, <1>2 DEF Detach

LEMMA TInvInit == Init => TInv
<1> SUFFICES ASSUME Init PROVE TInv
  OBVIOUS
<1>1. threads_queue \in Seq(Slot)
  <2>1. Cardinality(Slot) \in Nat
    BY FS_CardinalityType, SlotAssumption
  <2> QED
    BY SMTT(60), <2>1, IsASeq DEF Init
<1>2. <<>> \in Seq(Slot)
  BY EmptySeq
<1> QED
  BY Zenon, <1>1, <1>2, ThreadRecords DEF Init, TInv, TypeOK, JoiningHolds

(* The thread in slot s goes on to w; all else in the pool stays. *)
LEMMA GoesOn ==
  ASSUME TypeOK, NEW s \in Slot, NEW w \in Alive \cup {"exited", "joined"},
         thread' = [thread EXCEPT ![s].does = w]
  PROVE  /\ thread' \in [Slot -> Thread]
         /\ thread'[s].does = w
         /\ thread'[s].msg = thread[s].msg /\ thread'[s].detached = thread[s].detached
         /\ \A r \in Slot : r # s => thread'[r] = thread[r]
<1> DEFINE t == [thread[s] EXCEPT !.does = w]
<1>1. thread \in [Slot -> Thread] /\ thread[s] \in Thread
  BY DEF TypeOK
<1>2. /\ t \in Thread /\ t.does = w /\ t.msg = thread[s].msg
      /\ t.detached = thread[s].detached
  BY <1>1 DEF Thread
<1>3. thread' = [thread EXCEPT ![s] = t]
  OBVIOUS
<1> HIDE DEF t
<1> QED
  BY <1>1, <1>2, <1>3

LEMMA TInvCreators ==
  ASSUME TInv, Creator
  PROVE  TInv'
<1>1. CASE MainCheck
  BY <1>1 DEF MainCheck, TInv, TypeOK, JoiningHolds, pool, server, notifier
<1>2. CASE MainCreate
  <2>1. Started("node") \in Thread
    BY ZenonT(60), ThreadRecords DEF Alive
  <2> QED
    BY SMTT(60), <1>2, <2>1, CreateType DEF MainCreate, TInv, TypeOK, JoiningHolds,
         server, notifier
<1>3. CASE MainDetach
  <2>1. main.slot \in Slot \cup {NoSlot}
    BY DEF TInv, TypeOK
  <2>2. thread' \in [Slot -> Thread]
    BY <1>3, <2>1, DetachType DEF MainDetach, TInv
  <2> QED
    BY <1>3, <2>2 DEF MainDetach, TInv, TypeOK, JoiningHolds, server, notifier
<1>4. CASE SentinelCreate
  <2>1. Started("addition") \in Thread
    BY ZenonT(60), ThreadRecords DEF Alive
  <2> QED
    BY SMTT(60), <1>4, <2>1, CreateType DEF SentinelCreate, TInv, TypeOK, JoiningHolds,
         server, notifier
<1>5. CASE SentinelDetach
  <2>1. sentinel.slot \in Slot \cup {NoSlot}
    BY DEF TInv, TypeOK
  <2>2. thread' \in [Slot -> Thread]
    BY <1>5, <2>1, DetachType DEF SentinelDetach, TInv
  <2> QED
    BY <1>5, <2>2 DEF SentinelDetach, TInv, TypeOK, JoiningHolds, server, notifier
<1> QED
  BY <1>1, <1>2, <1>3, <1>4, <1>5 DEF Creator

LEMMA TInvWork ==
  ASSUME TInv, NEW s \in Slot, Work(s)
  PROVE  TInv'
<1>1. ASSUME NEW n \in Sub, Add(s, n) PROVE TInv'
  <2>1. thread' \in [Slot -> Thread]
    BY Zenon, <1>1, GoesOn DEF Add, TInv, Alive
  <2> QED
    BY SMTT(60), <1>1, <2>1 DEF Add, TInv, TypeOK, JoiningHolds, server, notifier
<1>2. CASE Send(s)
  <2>1. thread' \in [Slot -> Thread]
    BY Zenon, <1>2, GoesOn DEF Send, TInv, Alive
  <2>2. thread[s].msg \in Nat
    BY DEF TInv, TypeOK, Thread
  <2>3. got' \in [Sub -> Nat]
    BY <1>2, <2>2 DEF Send, TInv, TypeOK
  <2> QED
    BY <1>2, <2>1, <2>3 DEF Send, TInv, TypeOK, JoiningHolds, server, notifier
<1>3. CASE Exit(s)
  <2>1. threads_queue' \in Seq(Slot)
    BY <1>3, AppendFacts DEF Exit, TInv, TypeOK
  <2>2. thread' \in [Slot -> Thread]
    BY Zenon, <1>3, GoesOn DEF Exit, TInv
  <2>3. /\ q' \in Seq(Slot)
        /\ npc' \in {"idle", "waiting", "snapshot", "spawn", "join", "joining"}
        /\ JoiningHolds'
    <3>1. CASE npc = "joining" /\ Head(q) = s
      <4>1. Tail(q) \in Seq(Slot)
        BY <3>1, TailFacts DEF TInv, TypeOK, JoiningHolds
      <4>2. npc' = "join" /\ q' = Tail(q)
        BY <1>3, <3>1 DEF Exit
      <4> QED
        BY <4>1, <4>2 DEF JoiningHolds
    <3>2. CASE ~(npc = "joining" /\ Head(q) = s)
      BY <1>3, <3>2 DEF Exit, TInv, TypeOK, JoiningHolds
    <3> QED
      BY <3>1, <3>2
  <2> QED
    BY <1>3, <2>1, <2>2, <2>3 DEF Exit, TInv, TypeOK, server
<1> QED
  BY <1>1, <1>2, <1>3 DEF Work

LEMMA TInvNotify ==
  ASSUME TInv, Notify \/ SpuriousWake
  PROVE  TInv'
<1>1. CASE WaitChange \/ Wake \/ SpuriousWake
  BY ZenonT(60), <1>1 DEF WaitChange, Wake, SpuriousWake, TInv, TypeOK, JoiningHolds,
       pool, server
<1>5. CASE Snapshot
  BY <1>5 DEF Snapshot, TInv, TypeOK, JoiningHolds, pool, server
<1>6. CASE SpawnDone \/ FreeBuffer
  BY <1>6 DEF SpawnDone, FreeBuffer, TInv, TypeOK, JoiningHolds, pool, server
<1>2. ASSUME NEW n \in Sub, Spawn(n) PROVE TInv'
  <2> DEFINE t == [Started("sender") EXCEPT !.sub = n, !.msg = buffer.queue]
  <2>1. t \in Thread
    BY Zenon, ThreadRecords DEF TInv, TypeOK, Alive
  <2>2. Create(t)
    BY <1>2 DEF Spawn
  <2> HIDE DEF t
  <2>3. /\ threads_queue' \in Seq(Slot)
        /\ thread' \in [Slot -> Thread]
        /\ status' \in {"running", "segfault", "assert_335"}
    BY <2>1, <2>2, CreateType DEF TInv
  <2>4. q' \in Seq(Slot)
    <3>1. CASE threads_queue = <<>>
      BY <1>2, <3>1 DEF Spawn, TInv, TypeOK
    <3>2. CASE threads_queue # <<>>
      <4>1. NextSlot \in Slot
        BY <3>2, TailFacts DEF NextSlot, TInv, TypeOK
      <4>2. q' = Append(q, NextSlot)
        BY <1>2, <3>2 DEF Spawn
      <4> QED
        BY <4>1, <4>2, AppendFacts DEF TInv, TypeOK
    <3> QED
      BY <3>1, <3>2
  <2> QED
    BY <1>2, <2>3, <2>4 DEF Spawn, TInv, TypeOK, JoiningHolds, server
<1>3. CASE JoinWait
  BY <1>3 DEF JoinWait, TInv, TypeOK, JoiningHolds, pool, server
<1>4. CASE JoinReturns
  <2>1. Head(q) \in Slot /\ Tail(q) \in Seq(Slot)
    BY <1>4, TailFacts DEF JoinReturns, TInv, TypeOK
  <2>2. thread' \in [Slot -> Thread] /\ status' \in {"running", "segfault", "assert_335"}
    <3>1. CASE thread' = thread
      BY <1>4, <3>1 DEF JoinReturns, TInv, TypeOK
    <3>2. CASE thread' = [thread EXCEPT ![Head(q)].does = "joined"] /\ status' = status
      BY ZenonT(60), <2>1, <3>2, GoesOn DEF TInv, TypeOK
    <3> QED
      BY <1>4, <3>1, <3>2 DEF JoinReturns
  <2> QED
    BY <1>4, <2>1, <2>2 DEF JoinReturns, TInv, TypeOK, JoiningHolds, server
<1> QED
  BY <1>1, <1>2, <1>3, <1>4, <1>5, <1>6 DEF Notify

LEMMA TInvHandler ==
  ASSUME TInv, Handler
  PROVE  TInv'
<1>1. CASE HandlerTable
  BY <1>1 DEF HandlerTable, TInv, TypeOK, JoiningHolds, pool, notifier
<1>2. CASE HandlerQueue
  <2>1. woken' \in BOOLEAN
    BY Zenon, <1>2 DEF HandlerQueue, TInv, TypeOK
  <2>2. owed' \in Nat
    BY <1>2 DEF HandlerQueue, TInv, TypeOK
  <2> QED
    BY <1>2, <2>1, <2>2 DEF HandlerQueue, TInv, TypeOK, JoiningHolds, pool, notifier
<1>3. CASE HandlerLeave
  BY <1>3 DEF HandlerLeave, TInv, TypeOK, JoiningHolds, pool, notifier
<1>4. CASE Broadcast
  <2>1. woken' \in BOOLEAN
    BY Zenon, <1>4 DEF Broadcast
  <2>2. owed' \in Nat
    BY <1>4 DEF Broadcast, TInv, TypeOK
  <2> QED
    BY <1>4, <2>1, <2>2 DEF Broadcast, TInv, TypeOK, JoiningHolds, pool, notifier
<1> QED
  BY <1>1, <1>2, <1>3, <1>4 DEF Handler

LEMMA TInvInductive == TInv /\ [Next]_vars => TInv'
<1> SUFFICES ASSUME TInv, [Next]_vars PROVE TInv'
  OBVIOUS
<1>1. CASE Next
  BY <1>1, TInvCreators, TInvHandler, TInvNotify, TInvWork DEF Next
<1>2. CASE UNCHANGED vars
  BY <1>2 DEF vars, pool, server, notifier, TInv, TypeOK, JoiningHolds
<1> QED
  BY <1>1, <1>2

(* The state of the server's threads keeps its types. *)
THEOREM TypeCorrect == Spec => []TypeOK
<1>1. TInv => TypeOK
  BY DEF TInv
<1> QED
  BY <1>1, TInvInit, TInvInductive, PTL DEF Spec

-----------------------------------------------------------------------------
(* Slots *)

LEMMA OnceInit == Init => SlotsOnce
<1> SUFFICES ASSUME Init PROVE SlotsOnce
  OBVIOUS
<1> DEFINE D == 1..Cardinality(Slot)
<1>1. Cardinality(Slot) \in Nat
  BY FS_CardinalityType, SlotAssumption
<1>2. IsFiniteSet(D) /\ Cardinality(D) = Cardinality(Slot)
  BY SMTT(60), <1>1, FS_Interval
<1>3. threads_queue \in Surjection(D, Slot)
  BY DEF Init, Surjection
<1>4. threads_queue \in Injection(D, Slot)
  <2> HIDE DEF D
  <2> QED
    BY <1>2, <1>3, FS_SurjSameCardinalityImpliesInj
<1>5. \A j, k \in DOMAIN threads_queue : threads_queue[j] = threads_queue[k] => j = k
  BY <1>4 DEF Injection, IsInjective
<1>6. \A s \in Slot : thread[s].does \notin Alive
  BY DEF Init, NoThread, Alive
<1> QED
  BY <1>4, <1>5, <1>6 DEF SlotsOnce, Injection

(* queue_front_and_pop: the slot that is taken was in the queue only once. *)
LEMMA OnceTake ==
  ASSUME TInv, SlotsOnce, NEW t \in Thread, Create(t)
  PROVE  SlotsOnce'
<1>1. CASE threads_queue = <<>>
  BY <1>1 DEF Create, pool, SlotsOnce
<1>2. CASE threads_queue # <<>>
  <2> DEFINE h == Head(threads_queue)
             n == Len(threads_queue)
  <2>1. /\ h \in Slot /\ n \in Nat \ {0} /\ DOMAIN threads_queue = 1..n
        /\ h = threads_queue[1]
        /\ DOMAIN Tail(threads_queue) = 1..(n - 1)
        /\ \A k \in 1..(n - 1) : Tail(threads_queue)[k] = threads_queue[k + 1]
    BY <1>2, TailFacts DEF TInv, TypeOK
  <2>2. threads_queue' = Tail(threads_queue) /\ thread' = [thread EXCEPT ![h] = t]
    BY <1>2 DEF Create
  <2>3. \A k \in 1..(n - 1) : threads_queue'[k] = threads_queue[k + 1] /\ k + 1 \in 1..n
    BY <2>1, <2>2
  <2>4. \A k \in 1..n : threads_queue[k] \in Slot
    BY <2>1, ElementOfSeq DEF TInv, TypeOK
  <2>5. ASSUME NEW j \in 1..(n - 1), NEW k \in 1..(n - 1),
               threads_queue'[j] = threads_queue'[k]
        PROVE  j = k
    BY <2>1, <2>3, <2>5 DEF SlotsOnce
  <2>6. ASSUME NEW k \in 1..(n - 1)
        PROVE  thread'[threads_queue'[k]].does \notin Alive
    <3>1. threads_queue[k + 1] # h
      BY <2>1, <2>3 DEF SlotsOnce
    <3>2. thread'[threads_queue[k + 1]] = thread[threads_queue[k + 1]]
      BY <2>1, <2>2, <2>3, <2>4, <3>1 DEF TInv, TypeOK
    <3> QED
      BY <2>1, <2>3, <3>2 DEF SlotsOnce
  <2>7. DOMAIN threads_queue' = 1..(n - 1)
    BY <2>1, <2>2
  <2> QED
    BY <2>5, <2>6, <2>7 DEF SlotsOnce
<1> QED
  BY <1>1, <1>2

(* queue_push at the end of a thread: its slot was not in the queue. *)
LEMMA OnceGive ==
  ASSUME TInv, SlotsOnce, NEW s \in Slot, thread[s].does \in Alive,
         threads_queue' = Append(threads_queue, s),
         thread'[s].does \notin Alive, \A r \in Slot : r # s => thread'[r] = thread[r]
  PROVE  SlotsOnce'
<1> DEFINE n == Len(threads_queue)
<1>1. /\ n \in Nat /\ DOMAIN threads_queue = 1..n
      /\ DOMAIN threads_queue' = 1..(n + 1)
      /\ \A k \in 1..n : threads_queue'[k] = threads_queue[k]
      /\ threads_queue'[n + 1] = s
  BY AppendFacts DEF TInv, TypeOK
<1>2. \A k \in 1..n : threads_queue[k] \in Slot
  BY <1>1, ElementOfSeq DEF TInv, TypeOK
<1>3. \A k \in 1..n : threads_queue[k] # s
  BY <1>1 DEF SlotsOnce
<1>4. ASSUME NEW j \in 1..(n + 1), NEW k \in 1..(n + 1),
             threads_queue'[j] = threads_queue'[k]
      PROVE  j = k
  <2>1. j \in 1..n \/ j = n + 1
    BY <1>1
  <2>2. k \in 1..n \/ k = n + 1
    BY <1>1
  <2> QED
    BY <1>1, <1>3, <1>4, <2>1, <2>2 DEF SlotsOnce
<1>5. ASSUME NEW k \in 1..(n + 1)
      PROVE  thread'[threads_queue'[k]].does \notin Alive
  <2>1. k \in 1..n \/ k = n + 1
    BY <1>1
  <2> QED
    BY <1>1, <1>2, <1>3, <2>1 DEF SlotsOnce
<1> QED
  BY <1>1, <1>4, <1>5 DEF SlotsOnce

(* Steps that leave the queue of slots alone and start no thread. *)
LEMMA OnceKeep ==
  ASSUME TInv, SlotsOnce, threads_queue' = threads_queue,
         \A r \in Slot : thread'[r].does \in Alive => thread[r].does \in Alive
  PROVE  SlotsOnce'
<1>1. \A k \in DOMAIN threads_queue : threads_queue[k] \in Slot
  BY LenProperties, ElementOfSeq DEF TInv, TypeOK
<1> QED
  BY <1>1 DEF SlotsOnce

LEMMA OnceStep ==
  ASSUME TInv, SlotsOnce, [Next]_vars
  PROVE  SlotsOnce'
<1>1. CASE MainCreate \/ SentinelCreate
  <2>1. Started("node") \in Thread /\ Started("addition") \in Thread
    BY ZenonT(60), ThreadRecords DEF Alive
  <2> QED
    BY ZenonT(60), <1>1, <2>1, OnceTake DEF MainCreate, SentinelCreate
<1>2. ASSUME NEW n \in Sub, Spawn(n) PROVE SlotsOnce'
  <2> DEFINE t == [Started("sender") EXCEPT !.sub = n, !.msg = buffer.queue]
  <2>1. t \in Thread
    BY ZenonT(60), ThreadRecords DEF TInv, TypeOK, Alive
  <2>2. Create(t)
    BY <1>2 DEF Spawn
  <2> HIDE DEF t
  <2> QED
    BY ZenonT(60), <2>1, <2>2, OnceTake
<1>3. CASE MainDetach \/ SentinelDetach
  <2>1. main.slot \in Slot \cup {NoSlot} /\ sentinel.slot \in Slot \cup {NoSlot}
    BY DEF TInv, TypeOK
  <2>2. \A r \in Slot : thread'[r].does = thread[r].does
    BY <1>3, <2>1, DetachType DEF MainDetach, SentinelDetach, TInv
  <2> QED
    BY Zenon, <1>3, <2>2, OnceKeep DEF MainDetach, SentinelDetach
<1>4. ASSUME NEW s \in Slot, Work(s) PROVE SlotsOnce'
  <2>1. CASE Exit(s)
    <3>1. PICK w \in {"exited", "joined"} : thread' = [thread EXCEPT ![s].does = w]
      BY <2>1 DEF Exit
    <3>2. /\ thread'[s].does = w
          /\ \A r \in Slot : r # s => thread'[r] = thread[r]
      BY ZenonT(60), <3>1, GoesOn DEF TInv
    <3>3. w \notin Alive /\ thread[s].does \in Alive
      BY <2>1 DEF Exit, Alive
    <3> QED
      BY Zenon, <2>1, <3>2, <3>3, OnceGive DEF Exit
  <2>2. CASE ~Exit(s)
    <3>1. PICK w \in {"added", "sent"} : thread' = [thread EXCEPT ![s].does = w]
      BY Zenon, <1>4, <2>2 DEF Work, Send, Add
    <3>2. thread[s].does \in Alive /\ threads_queue' = threads_queue
      BY ZenonT(60), <1>4, <2>2 DEF Work, Send, Add, Alive
    <3>3. \A r \in Slot : r # s => thread'[r] = thread[r]
      BY <3>1, GoesOn DEF TInv, Alive
    <3> QED
      BY Zenon, <3>2, <3>3, OnceKeep
  <2> QED
    BY <2>1, <2>2
<1>5. CASE JoinReturns
  <2>1. Head(q) \in Slot
    BY <1>5, TailFacts DEF JoinReturns, TInv, TypeOK
  <2>2. CASE thread' = thread
    BY Zenon, <1>5, <2>2, OnceKeep DEF JoinReturns
  <2>3. CASE thread' = [thread EXCEPT ![Head(q)].does = "joined"]
    <3>1. /\ thread'[Head(q)].does = "joined"
          /\ \A r \in Slot : r # Head(q) => thread'[r] = thread[r]
      BY ZenonT(60), <2>1, <2>3, GoesOn DEF TInv
    <3>2. "joined" \notin Alive
      BY DEF Alive
    <3> QED
      BY Zenon, <1>5, <3>1, <3>2, OnceKeep DEF JoinReturns
  <2> QED
    BY <1>5, <2>2, <2>3 DEF JoinReturns
<1>6. CASE UNCHANGED pool
  BY Zenon, <1>6, OnceKeep DEF pool
<1>7. CASE MainCheck \/ Handler \/ SpuriousWake \/ WaitChange \/ Wake \/ Snapshot
           \/ SpawnDone \/ JoinWait \/ FreeBuffer \/ UNCHANGED vars
  BY Zenon, <1>6, <1>7 DEF MainCheck, Handler, HandlerTable, HandlerQueue, HandlerLeave,
       Broadcast, SpuriousWake, WaitChange, Wake, Snapshot, SpawnDone, JoinWait,
       FreeBuffer, vars
<1> QED
  BY Zenon, <1>1, <1>2, <1>3, <1>4, <1>5, <1>7 DEF Next, Creator, Notify

(* However slots are reused, joined late or detached late, no slot is handed
   to a second thread while the first one runs. *)
THEOREM SlotsOnceHolds == Spec => []SlotsOnce
  BY OnceInit, OnceStep, TInvInit, TInvInductive, PTL DEF Spec

-----------------------------------------------------------------------------
(* The message *)

(* Table and queue differ only inside a handler's critical section. *)
Agree ==
  /\ sgx_table = IF handler = "table" THEN queue + 1 ELSE queue
  /\ buffer.table = buffer.queue

LEMMA AgreeStep ==
  ASSUME TInv, Agree, [Next]_vars
  PROVE  Agree'
<1>1. CASE HandlerTable
  BY <1>1 DEF HandlerTable, Agree, TInv, TypeOK, notifier
<1>2. CASE HandlerQueue
  BY <1>2 DEF HandlerQueue, Agree, TInv, TypeOK, notifier
<1>3. CASE HandlerLeave
  BY <1>3 DEF HandlerLeave, Agree, TInv, TypeOK, notifier
<1>4. CASE Snapshot
  BY <1>4 DEF Snapshot, Agree, TInv, TypeOK, server
<1>5. CASE UNCHANGED <<handler, sgx_table, queue, buffer>>
  BY <1>5 DEF Agree
<1>6. CASE \/ Creator \/ Broadcast \/ SpuriousWake \/ WaitChange \/ Wake \/ SpawnDone
           \/ JoinWait \/ JoinReturns \/ FreeBuffer \/ UNCHANGED vars
           \/ (\E n \in Sub : Spawn(n)) \/ (\E s \in Slot : Work(s))
  BY Zenon, <1>5, <1>6 DEF Creator, MainCheck, MainCreate, MainDetach, SentinelCreate,
       SentinelDetach, Broadcast, SpuriousWake, WaitChange, Wake, SpawnDone, JoinWait,
       JoinReturns, FreeBuffer, Spawn, Work, Exit, Send, Add, vars, server, notifier
<1> QED
  BY ZenonT(60), <1>1, <1>2, <1>3, <1>4, <1>6 DEF Next, Handler, Notify

(* What is sent to the subscribers has table and queue of the same change. *)
THEOREM SnapshotsConsistent == Spec => []SnapshotConsistent
<1>1. Init => Agree
  BY DEF Init, Agree
<1>2. Agree => SnapshotConsistent
  BY DEF Agree, SnapshotConsistent
<1> QED
  BY <1>1, <1>2, AgreeStep, TInvInit, TInvInductive, PTL DEF Spec

-----------------------------------------------------------------------------
(* Senders, when threads are detached in time *)

(* A thread that has the buffer in use is one that the notification thread
   has yet to join, can be joined, and is out of reach of a late detach. *)
Reachable(s) ==
  /\ npc \in {"spawn", "join", "joining"}
  /\ \E k \in 1..Len(q) : q[k] = s
  /\ thread[s].detached = FALSE
  /\ ~Undetached(s)
  /\ thread[s].msg = buffer.queue
SendersHeld == \A s \in Slot : thread[s].does = "sender" => Reachable(s)

(* Nobody has been sent more than there is. *)
NothingAhead ==
  /\ buffer.queue <= queue
  /\ \A n \in Sub : got[n] <= buffer.queue

(* A step that starts no sender and leaves what they depend on alone. *)
LEMMA HeldKeep ==
  ASSUME TInv, SendersHeld, UNCHANGED <<npc, q, buffer>>,
         \A s \in Slot : thread'[s].does = "sender" =>
                           thread'[s] = thread[s] /\ ~Undetached(s)'
  PROVE  SendersHeld'
  BY DEF SendersHeld, Reachable

LEMMA HeldCreators ==
  ASSUME TInv, SlotsOnce, SendersHeld, Creator
  PROVE  SendersHeld'
<1> DEFINE h == Head(threads_queue)
<1>1. CASE MainCheck
  <2>1. main'.slot = NoSlot
    BY <1>1 DEF MainCheck
  <2> QED
    BY <1>1, <2>1, SlotAssumption, HeldKeep DEF MainCheck, pool, notifier, Undetached,
         SendersHeld, Reachable
<1>2. ASSUME NEW w \in {"node", "addition"}, Create(Started(w)), UNCHANGED notifier,
             \/ main'.slot = NextSlot /\ sentinel' = sentinel
             \/ sentinel'.slot = NextSlot /\ main' = main
      PROVE  SendersHeld'
  <2>1. CASE threads_queue = <<>>
    <3>1. thread' = thread /\ NextSlot = NoSlot
      BY <1>2, <2>1 DEF Create, pool, NextSlot
    <3> QED
      BY <1>2, <3>1, SlotAssumption, HeldKeep DEF notifier, Undetached, SendersHeld,
           Reachable
  <2>2. CASE threads_queue # <<>>
    <3>1. h \in Slot /\ h = threads_queue[1] /\ 1 \in DOMAIN threads_queue
      BY <2>2, TailFacts DEF TInv, TypeOK
    <3>2. thread[h].does # "sender"
      BY <3>1 DEF SlotsOnce, Alive
    <3>3. thread' = [thread EXCEPT ![h] = Started(w)] /\ NextSlot = h
      BY <1>2, <2>2 DEF Create, NextSlot
    <3>4. thread'[h].does # "sender" /\ \A s \in Slot : s # h => thread'[s] = thread[s]
      BY <3>1, <3>3 DEF TInv, TypeOK, Started
    <3> HIDE DEF h
    <3> QED
      BY <1>2, <3>1, <3>3, <3>4, HeldKeep DEF notifier, Undetached, SendersHeld, Reachable
  <2> QED
    BY <2>1, <2>2
<1>3. CASE MainCreate
  BY <1>2, <1>3 DEF MainCreate
<1>4. CASE SentinelCreate
  BY <1>2, <1>4 DEF SentinelCreate
<1>5. CASE MainDetach
  <2>1. main.slot \in Slot \cup {NoSlot} /\ Detach(main.slot) /\ TypeOK
    BY <1>5 DEF MainDetach, TInv, TypeOK
  <2>2. \A r \in Slot : /\ thread'[r].does = thread[r].does
                        /\ r # main.slot => thread'[r] = thread[r]
    BY SMTT(60), <2>1, DetachType
  <2> QED
    BY <1>5, <2>2, SlotAssumption, HeldKeep DEF MainDetach, notifier, Undetached,
         SendersHeld, Reachable
<1>6. CASE SentinelDetach
  <2>1. sentinel.slot \in Slot \cup {NoSlot} /\ Detach(sentinel.slot) /\ TypeOK
    BY SMTT(60), <1>6 DEF SentinelDetach, TInv, TypeOK
  <2>2. \A r \in Slot : /\ thread'[r].does = thread[r].does
                        /\ r # sentinel.slot => thread'[r] = thread[r]
    BY <2>1, DetachType
  <2> QED
    BY <1>6, <2>2, SlotAssumption, HeldKeep DEF SentinelDetach, notifier, Undetached,
         SendersHeld, Reachable
<1> QED
  BY SMTT(60), <1>1, <1>3, <1>4, <1>5, <1>6 DEF Creator

(* A slot that is joined is not the slot of a sender, so the senders keep
   their places in the list. *)
LEMMA HeldPop ==
  ASSUME TInv, SendersHeld, q # <<>>, q' = Tail(q),
         npc' = "join", UNCHANGED <<main, sentinel, buffer>>,
         thread'[Head(q)].does # "sender",
         \A s \in Slot : s # Head(q) => thread'[s] = thread[s]
  PROVE  SendersHeld'
<1> SUFFICES ASSUME NEW s \in Slot, thread'[s].does = "sender" PROVE Reachable(s)'
  BY DEF SendersHeld
<1>1. s # Head(q) /\ thread'[s] = thread[s] /\ Reachable(s)
  BY DEF SendersHeld
<1>2. PICK k \in 1..Len(q) : q[k] = s
  BY <1>1 DEF Reachable
<1>3. /\ Len(q) \in Nat \ {0} /\ Head(q) = q[1] /\ Len(Tail(q)) = Len(q) - 1
      /\ \A i \in 1..(Len(q) - 1) : Tail(q)[i] = q[i + 1]
  BY TailFacts DEF TInv, TypeOK
<1>4. k - 1 \in 1..Len(q') /\ q'[k - 1] = s
  <2>1. k # 1
    BY <1>1, <1>2, <1>3
  <2>2. k - 1 \in 1..(Len(q) - 1)
    BY <1>2, <1>3, <2>1
  <2> QED
    BY <1>2, <1>3, <2>2
<1> QED
  BY <1>1, <1>4 DEF Reachable, Undetached

LEMMA HeldWork ==
  ASSUME TInv, SendersHeld, NEW s \in Slot, Work(s)
  PROVE  SendersHeld'
<1>1. PICK w \in {"added", "sent", "exited", "joined"} :
        thread' = [thread EXCEPT ![s].does = w]
  BY ZenonT(60) DEF Work, Exit, Send, Add
<1>2. /\ thread'[s].does = w
      /\ \A r \in Slot : r # s => thread'[r] = thread[r]
  BY ZenonT(60), <1>1, GoesOn DEF TInv, Alive
<1>3. UNCHANGED <<main, sentinel, buffer>>
  BY Zenon DEF Work, Exit, Send, Add, notifier
<1>4. CASE UNCHANGED <<npc, q>>
  BY <1>2, <1>3, <1>4, HeldKeep DEF SendersHeld, Reachable, Undetached
<1>5. CASE npc = "joining" /\ Head(q) = s /\ npc' = "join" /\ q' = Tail(q)
  BY <1>2, <1>3, <1>5, HeldPop DEF TInv, JoiningHolds
<1>6. \/ UNCHANGED <<npc, q>>
      \/ npc = "joining" /\ Head(q) = s /\ npc' = "join" /\ q' = Tail(q)
  BY Zenon DEF Work, Exit, Send, Add, notifier
<1> QED
  BY <1>4, <1>5, <1>6

(* PromptDetach keeps a slot from a new sender until its creator is done. *)
LEMMA HeldSpawn ==
  ASSUME TInv, SlotsOnce, SendersHeld, NEW n \in Sub, Spawn(n), PromptDetach
  PROVE  SendersHeld'
<1> DEFINE t == [Started("sender") EXCEPT !.sub = n, !.msg = buffer.queue]
<1>1. CASE threads_queue = <<>>
  <2>1. UNCHANGED <<thread, q, npc, buffer, main, sentinel>>
    BY <1>1 DEF Spawn, Create, pool
  <2> QED
    BY <2>1 DEF SendersHeld, Reachable, Undetached
<1>2. CASE threads_queue # <<>>
  <2>1. PICK h \in Slot : /\ h = Head(threads_queue)
                          /\ h = threads_queue[1] /\ 1 \in DOMAIN threads_queue
    BY <1>2, TailFacts DEF TInv, TypeOK
  <2>2. t.does = "sender" /\ t.detached = FALSE /\ t.msg = buffer.queue
    BY DEF Started
  <2>3. /\ thread' = [thread EXCEPT ![h] = t] /\ q' = Append(q, h)
        /\ npc = "spawn" /\ UNCHANGED <<npc, buffer, main, sentinel>>
    BY <1>2, <2>1 DEF Spawn, Create, NextSlot
  <2> HIDE DEF t
  <2>4. thread'[h] = t /\ \A s \in Slot : s # h => thread'[s] = thread[s]
    BY <2>1, <2>3 DEF TInv, TypeOK
  <2>5. ~Undetached(h)
    <3>1. thread[h].does \notin Alive
      BY <2>1 DEF SlotsOnce
    <3>2. thread'[h].does \in Alive
      BY SMTT(60), <2>2, <2>4 DEF Alive
    <3> QED
      BY SMTT(60), <2>1, <3>1, <3>2 DEF PromptDetach
  <2>6. /\ Len(q) \in Nat /\ Len(q') = Len(q) + 1
        /\ \A k \in 1..Len(q) : q'[k] = q[k]
        /\ q'[Len(q) + 1] = h
    BY SMTT(60), <2>1, <2>3, AppendFacts DEF TInv, TypeOK
  <2>7. Reachable(h)'
    BY SMTT(60), <2>2, <2>3, <2>4, <2>5, <2>6 DEF Reachable, Undetached
  <2>8. ASSUME NEW s \in Slot, s # h, thread'[s].does = "sender" PROVE Reachable(s)'
    <3>1. Reachable(s) /\ thread'[s] = thread[s]
      BY <2>4, <2>8 DEF SendersHeld
    <3>2. \E k \in 1..Len(q') : q'[k] = s
      BY <2>6, <3>1 DEF Reachable
    <3> QED
      BY <2>3, <3>1, <3>2 DEF Reachable, Undetached
  <2> QED
    BY <2>7, <2>8 DEF SendersHeld
<1> QED
  BY <1>1, <1>2

LEMMA HeldNotify ==
  ASSUME TInv, SlotsOnce, SendersHeld, Notify \/ SpuriousWake, PromptDetach
  PROVE  SendersHeld'
<1>1. CASE WaitChange \/ Wake \/ SpuriousWake \/ Snapshot
  <2>1. npc \in {"idle", "waiting", "snapshot"}
    BY <1>1 DEF WaitChange, Wake, SpuriousWake, Snapshot
  <2>2. \A s \in Slot : thread[s].does # "sender"
    BY <2>1 DEF SendersHeld, Reachable
  <2>3. thread' = thread
    BY Zenon, <1>1 DEF WaitChange, Wake, SpuriousWake, Snapshot, pool
  <2> QED
    BY <2>2, <2>3 DEF SendersHeld
<1>2. CASE SpawnDone \/ JoinWait
  BY <1>2 DEF SpawnDone, JoinWait, pool, SendersHeld, Reachable, Undetached
<1>3. CASE FreeBuffer
  <2>1. \A s \in Slot : thread[s].does # "sender"
    <3>1. 1..Len(q) = {}
      BY <1>3, EmptySeq DEF FreeBuffer
    <3> QED
      BY <3>1 DEF SendersHeld, Reachable
  <2> QED
    BY <1>3, <2>1 DEF FreeBuffer, pool, SendersHeld
<1>4. CASE JoinReturns
  <2>1. Head(q) \in Slot
    BY <1>4, TailFacts DEF JoinReturns, TInv, TypeOK
  <2>2. /\ npc = "join" /\ npc' = "join" /\ q # <<>> /\ q' = Tail(q)
        /\ UNCHANGED <<main, sentinel, buffer>>
    BY <1>4 DEF JoinReturns
  <2>3. CASE thread' = [thread EXCEPT ![Head(q)].does = "joined"]
    <3>1. /\ thread'[Head(q)].does = "joined"
          /\ \A r \in Slot : r # Head(q) => thread'[r] = thread[r]
      BY ZenonT(60), <2>1, <2>3, GoesOn DEF TInv
    <3> QED
      BY <2>2, <3>1, HeldPop
  <2>4. CASE thread' = thread /\ thread[Head(q)].does # "sender"
    BY <2>2, <2>4, HeldPop
  <2>5. CASE thread' = thread /\ thread[Head(q)].detached
    <3>1. thread[Head(q)].does # "sender"
      BY <2>1, <2>5 DEF SendersHeld, Reachable
    <3> QED
      BY <2>4, <2>5, <3>1
  <2> QED
    BY SMTT(60), <1>4, <2>3, <2>4, <2>5 DEF JoinReturns
<1> QED
  BY SMTT(60), <1>1, <1>2, <1>3, <1>4, HeldSpawn DEF Notify

LEMMA HeldStep ==
  ASSUME TInv, SlotsOnce, SendersHeld, [Next /\ PromptDetach]_vars
  PROVE  SendersHeld'
<1>1. CASE Handler \/ UNCHANGED vars
  <2>1. UNCHANGED <<thread, npc, q, buffer, main, sentinel>>
    BY Zenon, <1>1 DEF Handler, HandlerTable, HandlerQueue, HandlerLeave, Broadcast, vars,
         pool, notifier
  <2> QED
    BY <2>1 DEF SendersHeld, Reachable, Undetached
<1> QED
  BY Zenon, <1>1, HeldCreators, HeldNotify, HeldWork DEF Next

LEMMA AheadStep ==
  ASSUME TInv, SendersHeld, NothingAhead, [Next]_vars
  PROVE  /\ NothingAhead'
         /\ \A n \in Sub : got[n] <= got'[n]
<1>1. /\ queue \in Nat /\ buffer.queue \in Nat /\ got \in [Sub -> Nat]
  BY DEF TInv, TypeOK
<1>2. CASE UNCHANGED <<queue, buffer, got>>
  BY <1>1, <1>2 DEF NothingAhead
<1>3. CASE HandlerQueue
  BY <1>1, <1>3 DEF HandlerQueue, NothingAhead, notifier
<1>4. CASE Snapshot
  BY <1>1, <1>4 DEF Snapshot, NothingAhead, server
<1>5. ASSUME NEW s \in Slot, Send(s) PROVE /\ NothingAhead'
                                           /\ \A n \in Sub : got[n] <= got'[n]
  <2>1. thread[s].msg = buffer.queue /\ UNCHANGED <<queue, buffer>>
    BY <1>5 DEF Send, SendersHeld, Reachable, server, notifier
  <2> QED
    BY <1>1, <1>5, <2>1 DEF Send, NothingAhead
<1>6. CASE \/ Creator \/ HandlerTable \/ HandlerLeave \/ Broadcast \/ SpuriousWake
           \/ WaitChange \/ Wake \/ SpawnDone \/ JoinWait \/ JoinReturns \/ FreeBuffer
           \/ UNCHANGED vars \/ (\E n \in Sub : Spawn(n))
           \/ (\E s \in Slot : Exit(s) \/ \E n \in Sub : Add(s, n))
  BY ZenonT(60), <1>2, <1>6 DEF Creator, MainCheck, MainCreate, MainDetach, SentinelCreate,
       SentinelDetach, HandlerTable, HandlerLeave, Broadcast, SpuriousWake, WaitChange,
       Wake, SpawnDone, JoinWait, JoinReturns, FreeBuffer, Spawn, Exit, Add, vars, server,
       notifier
<1> QED
  BY ZenonT(60), <1>3, <1>4, <1>5, <1>6 DEF Next, Handler, Notify, Work

LEMMA PromptInvariants == SpecPrompt => [](TInv /\ SlotsOnce /\ SendersHeld /\ NothingAhead)
<1>1. Init => SendersHeld /\ NothingAhead
  BY DEF Init, SendersHeld, NoThread, NothingAhead
<1>2. [Next /\ PromptDetach]_vars => [Next]_vars
  OBVIOUS
<1> QED
  BY <1>1, <1>2, TInvInit, TInvInductive, OnceInit, OnceStep, HeldStep, AheadStep, PTL
     DEF SpecPrompt

(* The buffer is freed after the last sender is done with it, even though the
   slots of the senders are given away before they are joined. *)
THEOREM BuffersSafe == SpecPrompt => []BufferSafe
<1>1. SendersHeld => BufferSafe
  BY DEF SendersHeld, Reachable, BufferSafe
<1> QED
  BY <1>1, PromptInvariants, PTL

(* No subscriber is sent an older queue after a newer one. *)
THEOREM DeliveriesInOrder == SpecPrompt => DeliveredInOrder
<1>1. TInv /\ SendersHeld /\ NothingAhead /\ [Next /\ PromptDetach]_vars
        => [\A n \in Sub : got[n] <= got'[n]]_vars
  BY AheadStep
<1> QED
  BY <1>1, PromptInvariants, PTL DEF SpecPrompt, DeliveredInOrder
=============================================================================
