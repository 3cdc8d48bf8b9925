---------------------------- MODULE SimVsClient ----------------------------
(***************************************************************************)
(* The simulator next to the clients.  Both play the same round robin: the *)
(* simulator lets the turns happen, a client computes beforehand when it   *)
(* will lead (calc_leadership_time; LeadershipTime and its reference).     *)
(***************************************************************************)
EXTENDS PoetSim

(* The table a client sees when all have just arrived at the same time *)
Fresh ==
  [n \in Node |-> [arrival_time |-> sgx_table[n].arrival_time,
                   sgx_time |-> sgx_table[n].sgx_time,
                   time_left |-> sgx_table[n].sgx_time]]

(* What the clients are to compute from it, with the queue in the order of the ids *)
Client == INSTANCE LeadershipReference WITH
  sgx_table <- Fresh, queue <- [x \in 1..N |-> x - 1], comm_delay <- 0

(* If all arrive at the same time, with the queue in the order of their ids, no
   client sets its leadership later than the end of its stay in the simulator. *)
ClientNotLate ==
  pc = "done" /\ ~interrupted /\ ~nodes_rejoin
  /\ (\A m, n \in Node : sgx_table[m].arrival_time = sgx_table[n].arrival_time) =>
    \A n \in Node :
      Client!LeadershipOf(n + 1) <= finish[n] - sgx_table[n].arrival_time
=============================================================================
