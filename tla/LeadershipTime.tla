--------------------------- MODULE LeadershipTime ---------------------------
(***************************************************************************)
(* What thread 3 of a client computes from its copy of the table and the   *)
(* queue, and then does: calc_quantum_times gives every node a quantum,    *)
(* calc_notification_times and calc_leadership_time play the queue as a    *)
(* round robin until the node's own time is used up, and                   *)
(* starting_time_calculation sleeps from one of these times to the next.   *)
(*                                                                         *)
(* The two calc functions run the same loop on the same arguments.  It is  *)
(* modelled once, with the results of both.                                *)
(***************************************************************************)
EXTENDS LeadershipReference

CONSTANTS
  Table,    \* the tables considered
  Queue,    \* the queues considered
  Current,  \* the nodes that compute
  Delay     \* node_current_time less the earliest arrival_time

Entry == [arrival_time : Nat, sgx_time : 1..SgxMax, time_left : Nat]

ASSUME TableAssumption ==
  /\ Table \subseteq [Node -> Entry]
  /\ \A t \in Table : \A n \in Node : t[n].time_left <= t[n].sgx_time
ASSUME QueueAssumption == Queue \subseteq Seq(Node)
ASSUME CurrentAssumption == Current \subseteq Node
ASSUME DelayAssumption == Delay \subseteq Nat

VARIABLES
  node_id,                                 \* the node that computes
  pc,
  i, j,                                    \* loops of calc_quantum_times
  quantum_times, tier_active_nodes,
  q, repetitions, accumulated_time, remaining_time, found_myself,
  notification_times, leadership_time,     \* the results
  curr_time                                \* slept so far

arguments == <<sgx_table, queue, node_id, comm_delay>>
quanta == <<i, j, quantum_times, tier_active_nodes>>
rounds == <<q, repetitions, accumulated_time, found_myself>>
vars == <<arguments, pc, quanta, rounds, remaining_time, notification_times,
          leadership_time, curr_time>>

(* Variant: one turn too many is taken off. *)
remaining_after(n, reps) ==
  Least(quantum_times[n], Most(sgx_table[n].sgx_time - (reps + 1) * quantum_times[n], 0))

remaining_quantum_time(n, reps) ==
  Least(quantum_times[n], Most(sgx_table[n].sgx_time - reps * quantum_times[n], 0))

Init ==
  /\ sgx_table \in Table /\ queue \in Queue /\ node_id \in Current
  /\ comm_delay \in Delay
  /\ pc = "quanta" /\ i = 0 /\ j = 0
  /\ quantum_times = [n \in Node |-> sgx_table[n].sgx_time]
  /\ tier_active_nodes = [n \in Node |-> 1]
  /\ q = queue
  /\ repetitions = [n \in Node |-> 0]
  /\ accumulated_time = 0
  /\ remaining_time = sgx_table[node_id].time_left
  /\ found_myself = FALSE
  /\ notification_times = <<>> /\ leadership_time = -1
  /\ curr_time = 0

-----------------------------------------------------------------------------
(* calc_quantum_times *)

(* Variant: the whole stay of the other node counts. *)
AccumulateStay ==
  /\ pc = "quanta" /\ i < N
  /\ IF Counts(j, i)
     THEN /\ quantum_times' = [quantum_times EXCEPT ![i] = @ + sgx_table[j].sgx_time]
          /\ tier_active_nodes' = [tier_active_nodes EXCEPT ![i] = @ + 1]
     ELSE UNCHANGED <<quantum_times, tier_active_nodes>>
  /\ j' = (j + 1) % N
  /\ i' = IF j + 1 = N THEN i + 1 ELSE i
  /\ UNCHANGED <<arguments, pc, rounds, remaining_time, notification_times,
                 leadership_time, curr_time>>

Accumulate ==
  /\ pc = "quanta" /\ i < N
  /\ IF Counts(j, i)
     THEN /\ quantum_times' = [quantum_times EXCEPT ![i] = @ + sgx_table[j].time_left]
          /\ tier_active_nodes' = [tier_active_nodes EXCEPT ![i] = @ + 1]
     ELSE UNCHANGED <<quantum_times, tier_active_nodes>>
  /\ j' = (j + 1) % N
  /\ i' = IF j + 1 = N THEN i + 1 ELSE i
  /\ UNCHANGED <<arguments, pc, rounds, remaining_time, notification_times,
                 leadership_time, curr_time>>

Divide ==
  /\ pc = "quanta" /\ i = N
  /\ quantum_times' = [n \in Node |->
       CeilDiv(quantum_times[n], tier_active_nodes[n] * tier_active_nodes[n])]
  /\ pc' = "turns"
  /\ UNCHANGED <<arguments, i, j, tier_active_nodes, rounds, remaining_time,
                 notification_times, leadership_time, curr_time>>

(* Variant: a node goes back to the front of the queue. *)
TurnAtFront ==
  /\ pc = "turns"
  /\ q # <<>> /\ remaining_time > 0
  /\ LET u == Head(q)
         slice == Least(remaining_quantum_time(u, repetitions[u]), remaining_time)
     IN  /\ repetitions' = [repetitions EXCEPT ![u] = @ + 1]
         /\ accumulated_time' = accumulated_time + slice
         /\ found_myself' = (found_myself \/ u = node_id)
         /\ remaining_time' = IF u = node_id THEN remaining_time - slice
                                             ELSE remaining_time
         /\ q' = IF remaining_quantum_time(u, repetitions[u] + 1) > 0 THEN q ELSE Tail(q)
  /\ UNCHANGED <<arguments, pc, quanta, notification_times, leadership_time, curr_time>>

(* One iteration of the loop of calc_leadership_time and of
   calc_notification_times: the node at the front has its turn, and goes to the
   back of the queue unless its stay is over. *)
Turn ==
  /\ pc = "turns"
  /\ q # <<>> /\ remaining_time > 0
  /\ LET u == Head(q)
         slice == Least(remaining_quantum_time(u, repetitions[u]), remaining_time)
     IN  /\ repetitions' = [repetitions EXCEPT ![u] = @ + 1]
         /\ accumulated_time' = accumulated_time + slice
         /\ found_myself' = (found_myself \/ u = node_id)
         /\ remaining_time' = IF u = node_id THEN remaining_time - slice
                                             ELSE remaining_time
         /\ q' = IF remaining_quantum_time(u, repetitions[u] + 1) > 0
                 THEN Append(Tail(q), u) ELSE Tail(q)
         /\ notification_times' =
              IF u = node_id /\ remaining_time' > 0
              THEN Append(notification_times, Most(accumulated_time' - comm_delay, 0))
              ELSE notification_times
  /\ UNCHANGED <<arguments, pc, quanta, leadership_time, curr_time>>

(* Variant: a node leads when no time is left. *)
FinishIfServed ==
  /\ pc = "turns"
  /\ q = <<>> \/ remaining_time <= 0
  /\ pc' = "calculated"
  /\ leadership_time' =
       IF remaining_time = 0 THEN Most(accumulated_time - comm_delay, 0) ELSE -1
  /\ UNCHANGED <<arguments, quanta, rounds, remaining_time, notification_times,
                 curr_time>>

(* The assertion after the loop, and the result. *)
Finish ==
  /\ pc = "turns"
  /\ q = <<>> \/ remaining_time <= 0
  /\ IF found_myself /\ remaining_time # 0
     THEN pc' = "assert_210" /\ leadership_time' = leadership_time
     ELSE /\ pc' = "calculated"
          /\ leadership_time' =
               IF found_myself THEN Most(accumulated_time - comm_delay, 0) ELSE -1
  /\ UNCHANGED <<arguments, quanta, rounds, remaining_time, notification_times,
                 curr_time>>

-----------------------------------------------------------------------------
(* starting_time_calculation, after the calculation *)

Rejoin ==
  /\ pc = "calculated" /\ leadership_time = -1
  /\ pc' = "rejoin"
  /\ UNCHANGED <<arguments, quanta, rounds, remaining_time, notification_times,
                 leadership_time, curr_time>>

(* The assertion on the last notification time; then the times that coincide
   with the leadership leave from the back, those that are over from the front,
   and the node looks up its time_left. *)
CheckLast ==
  /\ pc = "calculated" /\ leadership_time # -1
  /\ pc' = IF /\ notification_times # <<>>
              /\ notification_times[Len(notification_times)] > leadership_time
           THEN "assert_656" ELSE "trim_back"
  /\ UNCHANGED <<arguments, quanta, rounds, remaining_time, notification_times,
                 leadership_time, curr_time>>

TrimBack ==
  /\ pc = "trim_back"
  /\ IF /\ notification_times # <<>>
        /\ notification_times[Len(notification_times)] = leadership_time
     THEN /\ notification_times' =
               SubSeq(notification_times, 1, Len(notification_times) - 1)
          /\ pc' = pc
     ELSE /\ notification_times' = notification_times
          /\ pc' = "trim_front"
  /\ UNCHANGED <<arguments, quanta, rounds, remaining_time, leadership_time, curr_time>>

(* Variant: the time that is over is not erased. *)
TrimNothing ==
  /\ pc = "trim_front"
  /\ IF notification_times # <<>> /\ Head(notification_times) = curr_time
     THEN UNCHANGED <<pc, remaining_time>>
     ELSE pc' = "sleeping" /\ remaining_time' = sgx_table[node_id].time_left
  /\ UNCHANGED <<arguments, quanta, rounds, notification_times, leadership_time,
                 curr_time>>

TrimFront ==
  /\ pc = "trim_front"
  /\ IF notification_times # <<>> /\ Head(notification_times) = curr_time
     THEN /\ notification_times' = Tail(notification_times)
          /\ UNCHANGED <<pc, remaining_time>>
     ELSE /\ notification_times' = notification_times
          /\ pc' = "sleeping"
          /\ remaining_time' = sgx_table[node_id].time_left
  /\ UNCHANGED <<arguments, quanta, rounds, leadership_time, curr_time>>

(* Sleeps to the next notification time; the report of the unfinished node to
   the server has an assertion of its own. *)
Notify ==
  /\ pc = "sleeping" /\ notification_times # <<>>
  /\ LET t == Head(notification_times)
     IN  /\ remaining_time' = remaining_time - t
         /\ curr_time' = t
         /\ pc' = IF curr_time >= t THEN "assert_674"
                  ELSE IF remaining_time' > 0
                          /\ remaining_time' >= sgx_table[node_id].sgx_time
                  THEN "assert_563" ELSE "sleeping"
  /\ notification_times' = Tail(notification_times)
  /\ UNCHANGED <<arguments, quanta, rounds, leadership_time>>

Lead ==
  /\ pc = "sleeping" /\ notification_times = <<>>
  /\ curr_time' = leadership_time
  /\ pc' = "leader"
  /\ UNCHANGED <<arguments, quanta, rounds, remaining_time, notification_times,
                 leadership_time>>

Next ==
  \/ Accumulate
  \/ Divide
  \/ Turn
  \/ Finish
  \/ Rejoin
  \/ CheckLast
  \/ TrimBack
  \/ TrimFront
  \/ Notify
  \/ Lead

Spec == Init /\ [][Next]_vars
FairSpec == Spec /\ WF_vars(Next)

-----------------------------------------------------------------------------
(* Properties *)

TypeOK ==
  /\ sgx_table \in Table /\ queue \in Queue /\ node_id \in Current
  /\ comm_delay \in Delay
  /\ pc \in {"quanta", "turns", "assert_210", "calculated", "rejoin", "assert_656",
             "trim_back", "trim_front", "sleeping", "assert_674", "assert_563",
             "leader"}
  /\ i \in 0..N /\ j \in Node
  /\ quantum_times \in [Node -> Nat \ {0}]
  /\ tier_active_nodes \in [Node -> Nat \ {0}]
  /\ q \in Seq(Node)
  /\ repetitions \in [Node -> Nat]
  /\ accumulated_time \in Nat /\ remaining_time \in Int /\ found_myself \in BOOLEAN
  /\ notification_times \in Seq(Nat)
  /\ leadership_time \in Nat \cup {-1}
  /\ curr_time \in Nat

(* No assertion fails on the way: the node that meets itself in the queue has
   its whole time there (poet_shared_functions.cpp:210), no notification time
   is after the leadership (poet_client.cpp:656), each is after the one before
   (674), and a report to the server leaves less than the stay (563). *)
NoAssertFails == pc \notin {"assert_210", "assert_656", "assert_674", "assert_563"}

(* A client is sent to rejoin exactly when it is not in the queue, or has no
   time left there: the -1 of calc_leadership_time. *)
RejoinsIfOut ==
  pc = "calculated" =>
    (leadership_time = -1 <=>
       sgx_table[node_id].time_left = 0 \/ \A k \in DOMAIN queue : queue[k] # node_id)

(* A node that leads has had all of its time_left on the clock: the others'
   turns are never taken off its own time. *)
OwnTimeServed ==
  pc = "calculated" /\ leadership_time # -1 =>
    leadership_time + comm_delay >= sgx_table[node_id].time_left

Once == \A k, l \in DOMAIN queue : queue[k] = queue[l] => k = l

(* The round robin of calc_leadership_time: of two nodes that are still in the
   queue neither is more than a turn ahead. *)
RoundRobin ==
  pc = "turns" /\ Once =>
    \A k, l \in DOMAIN q : repetitions[q[k]] <= repetitions[q[l]] + 1

-----------------------------------------------------------------------------
(* calc_quantum_times and calc_leadership_time agree with their definitions. *)
MatchesReference ==
  pc = "calculated" =>
    /\ \A n \in Node : quantum_times[n] = QuantumOf(n)
    /\ leadership_time # -1 /\ Once =>
         \A k \in DOMAIN queue : queue[k] = node_id => leadership_time = LeadershipOf(k)

(* Thread 3 comes to leadership or to rejoin. *)
Terminates == <>(pc \in {"leader", "rejoin"})
=============================================================================
