------------------------ MODULE LeadershipReference ------------------------
(***************************************************************************)
(* The copy of table and queue from which a client computes when it will   *)
(* lead, and what it is to compute: the quantum of every node and, if the  *)
(* queue has no repetitions, the leadership time of each node of it.       *)
(* LeadershipTime has the loops that compute them.                         *)
(***************************************************************************)
EXTENDS Integers, Sequences, FiniteSets, Functions

CONSTANTS
  N,        \* nodes in the table
  SgxMax,   \* sgx_max, the longest stay
  Tiers     \* ntiers

Node == 0..(N - 1)

ASSUME SizeAssumption == N \in Nat \ {0} /\ SgxMax \in Nat \ {0} /\ Tiers \in Nat \ {0}

VARIABLES
  sgx_table, queue,
  comm_delay          \* what has passed since the earliest arrival

Least(a, b) == IF a <= b THEN a ELSE b
Most(a, b) == IF a <= b THEN b ELSE a
(* Variant: rounded down. *)
FloorDiv(a, b) == a \div b

CeilDiv(a, b) == (a + b - 1) \div b

calc_tier_number(e) == CeilDiv(Tiers * e.sgx_time, SgxMax) - 1

(* calc_quantum_times: node j counts for node i if it is in the same tier and
   did not arrive later. *)
Counts(m, n) ==
  /\ m # n
  /\ calc_tier_number(sgx_table[m]) = calc_tier_number(sgx_table[n])
  /\ sgx_table[m].arrival_time <= sgx_table[n].arrival_time

QuantumOf(n) ==
  LET peers == {m \in Node : Counts(m, n)}
      time == [m \in Node |-> sgx_table[m].time_left]
      count == Cardinality(peers) + 1
  IN  CeilDiv(sgx_table[n].sgx_time + SumFunctionOnSet(time, peers), count * count)

(* The leadership time of the node at position k of a queue without
   repetitions.  In round r a node has what is left of its quantum, but no more
   than the leader-to-be has left itself. *)
LeadershipOf(k) ==
  LET n == queue[k]
      left(r) == Most(sgx_table[n].time_left - r * QuantumOf(n), 0)
      stay(m, r) == Least(QuantumOf(m), Most(sgx_table[m].sgx_time - r * QuantumOf(m), 0))
      slice == [x \in (1..Len(queue)) \X (0..SgxMax) |->
                  Least(stay(queue[x[1]], x[2]), left(IF x[1] <= k THEN x[2] ELSE x[2] + 1))]
  IN  Most(SumFunction(slice) - comm_delay, 0)
=============================================================================
