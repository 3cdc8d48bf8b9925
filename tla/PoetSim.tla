------------------------------ MODULE PoetSim ------------------------------
(***************************************************************************)
(* The simulator POET++.cpp: nodes arrive, wait in one queue for turns of  *)
(* the quantum of their tier, and lead when their stay is used up.  If     *)
(* nodes_rejoin is set a leader comes back with a new stay.                *)
(*                                                                         *)
(* The loops that recompute the quanta are modelled an iteration at a      *)
(* time; uint arithmetic wraps at UintSpan.                                *)
(***************************************************************************)
EXTENDS Integers, Sequences, FiniteSets

CONSTANTS
  N,          \* node_count
  SgxMax,     \* sgx_max
  Tiers,      \* total_tiers
  Arrival,    \* the arrival times of the first pass
  Limit,      \* bound: no pass begins at this tick or later
  UintSpan    \* number of values of a uint

ASSUME SizeAssumption ==
  /\ N \in Nat \ {0} /\ SgxMax \in Nat \ {0} /\ Tiers \in Nat \ {0}
  /\ Arrival \subseteq Nat /\ Limit \in Nat
  /\ UintSpan \in Nat /\ UintSpan > Limit + SgxMax

VARIABLES
  sgx_table, queue, current_time, nodes_queue, wait_times, nodes_rejoin,
  sumT, tier_active_nodes, tier_quantum_time,
  pc, i, k,                \* the loops of check_node_arrive and calculate_quantum_time
  current_node, qt,        \* the node whose turn it is, and the rest of the turn
  interrupted,             \* the loop of arrange was left before all were served
  stays, finish            \* auxiliary: stays completed, end of the last one

tiers == <<sumT, tier_active_nodes, tier_quantum_time>>
turn == <<current_node, qt>>
history == <<stays, finish>>
vars == <<sgx_table, queue, current_time, nodes_queue, wait_times, nodes_rejoin,
          tiers, pc, i, k, turn, interrupted, history>>

Node == 0..(N - 1)
Tier == 0..(Tiers - 1)
Stay == 1..SgxMax
Tick == 0..(Limit + SgxMax)
NoNode == -1

CeilDiv(a, b) == (a + b - 1) \div b
Least(a, b) == IF a <= b THEN a ELSE b

calc_tier_number(node) == CeilDiv(Tiers * node.sgx_time, SgxMax) - 1

(* get_input_from_user, with stays drawn or read within sgx_max, and main up to
   arrange *)
Init ==
  /\ sgx_table \in {t \in [Node -> [arrival_time : Arrival, sgx_time : Stay,
                                     n_leadership : {0}, time_left : Stay]] :
                      \A n \in Node : t[n].time_left = t[n].sgx_time}
  /\ nodes_rejoin \in BOOLEAN
  /\ queue = <<>>
  /\ current_time = 0
  /\ nodes_queue = [t \in Tick |-> 0]
  /\ wait_times = [n \in Node |-> 0]
  /\ sumT = [t \in Tier |-> 0]
  /\ tier_active_nodes = [t \in Tier |-> 0]
  /\ tier_quantum_time = [t \in Tier |-> 0]
  /\ pc = "arrive" /\ i = 0 /\ k = 0
  /\ current_node = NoNode /\ qt = 0
  /\ interrupted = FALSE
  /\ stays = [n \in Node |-> 0]
  /\ finish = [n \in Node |-> 0]

-----------------------------------------------------------------------------
(* check_node_arrive: for each node that arrives now the quanta are computed
   anew, and it joins the queue. *)

Arrive ==
  /\ pc = "arrive" /\ i < N
  /\ IF sgx_table[i].arrival_time = current_time
     THEN /\ pc' = "sum" /\ k' = 0 /\ i' = i
          /\ sumT' = [t \in Tier |-> 0]
          /\ tier_active_nodes' = [t \in Tier |-> 0]
     ELSE /\ i' = i + 1
          /\ UNCHANGED <<pc, k, sumT, tier_active_nodes>>
  /\ UNCHANGED <<sgx_table, queue, current_time, nodes_queue, wait_times, nodes_rejoin,
                 tier_quantum_time, turn, interrupted, history>>

(* Back in arrange: at the loop, or in the turn of current_node. *)
ArriveReturn ==
  /\ pc = "arrive" /\ i = N
  /\ pc' = IF current_node = NoNode THEN "loop" ELSE "turn"
  /\ i' = 0
  /\ UNCHANGED <<sgx_table, queue, current_time, nodes_queue, wait_times, nodes_rejoin,
                 tiers, k, turn, interrupted, history>>

(* calculate_quantum_time: the time left of all that have arrived, by tier *)
Sum ==
  /\ pc = "sum" /\ k < N
  /\ k' = k + 1
  /\ IF current_time >= sgx_table[k].arrival_time
     THEN LET t == calc_tier_number(sgx_table[k])
          IN  /\ tier_active_nodes' = [tier_active_nodes EXCEPT ![t] = @ + 1]
              /\ sumT' = [sumT EXCEPT ![t] = @ + sgx_table[k].time_left]
     ELSE UNCHANGED <<sumT, tier_active_nodes>>
  /\ UNCHANGED <<sgx_table, queue, current_time, nodes_queue, wait_times, nodes_rejoin,
                 tier_quantum_time, pc, i, turn, interrupted, history>>

(* Variant: a tier without time left has no quantum. *)
DivideAll ==
  /\ pc = "sum" /\ k = N
  /\ tier_quantum_time' = [t \in Tier |->
       IF tier_active_nodes[t] = 0 THEN 0
       ELSE sumT[t] \div (tier_active_nodes[t] * tier_active_nodes[t])]
  /\ queue' = Append(queue, i)
  /\ pc' = "arrive" /\ i' = i + 1
  /\ UNCHANGED <<sgx_table, current_time, nodes_queue, wait_times, nodes_rejoin, sumT,
                 tier_active_nodes, k, turn, interrupted, history>>

(* A tier without time left keeps its quantum.  Then queue_push. *)
DivideAndPush ==
  /\ pc = "sum" /\ k = N
  /\ tier_quantum_time' = [t \in Tier |->
       IF sumT[t] > 0
       THEN CeilDiv(sumT[t], tier_active_nodes[t] * tier_active_nodes[t])
       ELSE tier_quantum_time[t]]
  /\ queue' = Append(queue, i)
  /\ pc' = "arrive" /\ i' = i + 1
  /\ UNCHANGED <<sgx_table, current_time, nodes_queue, wait_times, nodes_rejoin, sumT,
                 tier_active_nodes, k, turn, interrupted, history>>

-----------------------------------------------------------------------------
(* arrange *)

Finished == {n \in Node : sgx_table[n].time_left = 0}

(* Variant: a leader comes back at once, when arrivals have been looked for. *)
LedNow(n, stay) ==
  IF nodes_rejoin
  THEN [arrival_time |-> current_time, sgx_time |-> stay, time_left |-> stay,
        n_leadership |-> sgx_table[n].n_leadership + 1]
  ELSE [sgx_table[n] EXCEPT !.n_leadership = @ + 1]

(* is_time_left: who has no time left leads, and with nodes_rejoin comes back at
   the next tick.  The result is that of before. *)
Led(n, stay) ==
  IF nodes_rejoin
  THEN [arrival_time |-> current_time + 1, sgx_time |-> stay, time_left |-> stay,
        n_leadership |-> sgx_table[n].n_leadership + 1]
  ELSE [sgx_table[n] EXCEPT !.n_leadership = @ + 1]

(* Variant: it returns as soon as a node with time left is found. *)
is_time_left_first(stay) ==
  sgx_table' = [n \in Node |-> IF \A m \in 0..n : m \in Finished THEN Led(n, stay[n])
                                                               ELSE sgx_table[n]]

is_time_left(stay) ==
  sgx_table' = [n \in Node |-> IF n \in Finished THEN Led(n, stay[n]) ELSE sgx_table[n]]

Stays == [IF nodes_rejoin THEN Finished ELSE {} -> Stay]

(* The condition of the loop fails: nobody has time left, or max_iterations
   (seconds of the clock) or a signal ends it. *)
Leave ==
  /\ pc = "loop"
  /\ \E stay \in Stays : is_time_left(stay)
  /\ interrupted' = (Finished # Node)
  /\ pc' = "waiting_time"
  /\ UNCHANGED <<queue, current_time, nodes_queue, wait_times, nodes_rejoin, tiers, i, k,
                 turn, history>>

(* Nobody in the queue: a tick passes. *)
Idle ==
  /\ pc = "loop" /\ Finished # Node /\ current_time < Limit
  /\ \E stay \in Stays : is_time_left(stay)
  /\ queue = <<>>
  /\ current_time' = current_time + 1
  /\ pc' = "arrive"
  /\ UNCHANGED <<queue, nodes_queue, wait_times, nodes_rejoin, tiers, i, k, turn,
                 interrupted, history>>

(* Variant: the turn lasts as long as the stay. *)
PopForStay ==
  /\ pc = "loop" /\ Finished # Node /\ current_time < Limit
  /\ \E stay \in Stays : is_time_left(stay)
  /\ queue # <<>>
  /\ current_node' = Head(queue)
  /\ queue' = Tail(queue)
  /\ qt' = sgx_table'[Head(queue)].time_left
  /\ pc' = "turn"
  /\ UNCHANGED <<current_time, nodes_queue, wait_times, nodes_rejoin, tiers, i, k,
                 interrupted, history>>

(* The front of the queue has a turn. *)
Pop ==
  /\ pc = "loop" /\ Finished # Node /\ current_time < Limit
  /\ \E stay \in Stays : is_time_left(stay)
  /\ queue # <<>>
  /\ current_node' = Head(queue)
  /\ queue' = Tail(queue)
  /\ qt' = LET node == sgx_table'[Head(queue)]
           IN  Least(tier_quantum_time[calc_tier_number(node)], node.time_left)
  /\ pc' = "turn"
  /\ UNCHANGED <<current_time, nodes_queue, wait_times, nodes_rejoin, tiers, i, k,
                 interrupted, history>>

(* A tick of the turn, and those who arrive during it. *)
TurnTick ==
  /\ pc = "turn" /\ qt > 0
  /\ nodes_queue' = [nodes_queue EXCEPT ![current_time] = current_node]
  /\ sgx_table' = [sgx_table EXCEPT ![current_node].time_left = @ - 1]
  /\ current_time' = current_time + 1
  /\ qt' = qt - 1
  /\ pc' = "arrive"
  /\ IF sgx_table'[current_node].time_left = 0
     THEN /\ stays' = [stays EXCEPT ![current_node] = @ + 1]
          /\ finish' = [finish EXCEPT ![current_node] = current_time']
     ELSE UNCHANGED history
  /\ UNCHANGED <<queue, wait_times, nodes_rejoin, tiers, i, k, current_node, interrupted>>

TurnEnd ==
  /\ pc = "turn" /\ qt = 0
  /\ queue' = IF sgx_table[current_node].time_left > 0 THEN Append(queue, current_node)
                                                       ELSE queue
  /\ current_node' = NoNode
  /\ pc' = "loop"
  /\ UNCHANGED <<sgx_table, current_time, nodes_queue, wait_times, nodes_rejoin, tiers,
                 i, k, qt, interrupted, history>>

(* Variant: the first tick of a node. *)
first_time(n) ==
  CHOOSE r \in 0..current_time :
    /\ r < current_time => nodes_queue[r] = n
    /\ \A t \in 0..(r - 1) : nodes_queue[t] # n

(* The time after the last tick of a node: the loop of waiting_time runs down
   to -1 for one that has none. *)
release_time(n) ==
  CHOOSE r \in 0..current_time :
    /\ r > 0 => nodes_queue[r - 1] = n
    /\ \A t \in r..(current_time - 1) : nodes_queue[t] # n

waiting_time ==
  /\ pc = "waiting_time"
  /\ wait_times' = [n \in Node |->
       (release_time(n) - sgx_table[n].arrival_time - sgx_table[n].sgx_time) % UintSpan]
  /\ pc' = "done"
  /\ UNCHANGED <<sgx_table, queue, current_time, nodes_queue, nodes_rejoin, tiers, i, k,
                 turn, interrupted, history>>

Next ==
  \/ Arrive
  \/ ArriveReturn
  \/ Sum
  \/ DivideAndPush
  \/ Leave
  \/ Idle
  \/ Pop
  \/ TurnTick
  \/ TurnEnd
  \/ waiting_time

Spec == Init /\ [][Next]_vars
(* The simulator is a single thread.  A pass that may go on does: the user need
   not interrupt it. *)
Working == Next /\ (Leave => Finished = Node \/ current_time >= Limit)
FairSpec == Spec /\ WF_vars(Working)

-----------------------------------------------------------------------------
(* Properties *)

SgxNode ==
  [arrival_time : Nat, sgx_time : Stay, n_leadership : Nat, time_left : 0..SgxMax]

TypeOK ==
  /\ sgx_table \in [Node -> SgxNode]
  /\ queue \in Seq(Node)
  /\ current_time \in Tick
  /\ nodes_queue \in [Tick -> Node]
  /\ wait_times \in [Node -> 0..(UintSpan - 1)]
  /\ nodes_rejoin \in BOOLEAN /\ interrupted \in BOOLEAN
  /\ sumT \in [Tier -> Nat] /\ tier_active_nodes \in [Tier -> Nat]
  /\ tier_quantum_time \in [Tier -> Nat]
  /\ pc \in {"arrive", "sum", "loop", "turn", "waiting_time", "done"}
  /\ i \in 0..N /\ k \in 0..N
  /\ current_node \in Node \cup {NoNode} /\ qt \in 0..SgxMax
  /\ stays \in [Node -> Nat] /\ finish \in [Node -> Tick]

Waiting(n) == sgx_table[n].arrival_time <= current_time /\ sgx_table[n].time_left > 0

(* Between two passes the queue holds every node that has arrived and has time
   left, once, and no other: no arrival is missed, none is taken in twice, and
   a leader is out. *)
QueuedOnce ==
  pc = "loop" =>
    /\ \A n \in Node : Waiting(n) <=> \E x \in DOMAIN queue : queue[x] = n
    /\ \A x, y \in DOMAIN queue : queue[x] = queue[y] => x = y

(* The clock advances in every pass: a node in the queue has a quantum, though
   the quanta are only computed when somebody arrives. *)
QuantumPositive ==
  pc = "loop" =>
    \A x \in DOMAIN queue : tier_quantum_time[calc_tier_number(sgx_table[queue[x]])] > 0

(* With nodes_rejoin a node leads once for each stay it completes, and nobody
   leads in the same pass. *)
LeadsOncePerStay ==
  nodes_rejoin =>
    /\ \A n \in Node : stays[n] = sgx_table[n].n_leadership +
                                    (IF n \in Finished THEN 1 ELSE 0)
    /\ \A m, n \in Finished : m = n

(* If all are served, wait_times is what the log of turns says: the ticks from
   the arrival of a node to the end of its stay that went to others.  Node 0 is
   the exception, because an idle tick is in the log as node 0. *)
WaitsForOthers ==
  pc = "done" /\ ~interrupted /\ ~nodes_rejoin =>
    \A n \in Node \ {0} :
      wait_times[n] = Cardinality({t \in sgx_table[n].arrival_time..(finish[n] - 1) :
                                     nodes_queue[t] # n})

(* Without nodes_rejoin the simulation ends. *)
Terminates == ~nodes_rejoin => <>(pc = "done")
=============================================================================
