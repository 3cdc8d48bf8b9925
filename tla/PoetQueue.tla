----------------------------- MODULE PoetQueue -----------------------------
(***************************************************************************)
(* The operations the server performs on its queue of node ids             *)
(* (queue_t.c and the queue helpers of poet_server_functions.cpp), as      *)
(* operators on sequences.  The head of the queue is the first element.    *)
(***************************************************************************)
EXTENDS Integers, Sequences, FiniteSets

(* The values that occur in q. *)
Ids(q) == {q[i] : i \in DOMAIN q}

(* The elements of the finite set of integers S in increasing order. *)
Rank(S, i) == Cardinality({j \in S : j <= i})
Ascending(S) ==
  [k \in 1..Cardinality(S) |-> CHOOSE i \in S : Rank(S, i) = k]

(* queue_pop_custom: nothing happens on an empty queue. *)
PopHead(q) == IF q = <<>> THEN q ELSE Tail(q)

(* Positions of q that survive the two passes of queue_selective_remove in
   queue_cleanup.  The first pass drops an element equal to its predecessor
   and counts the others; the second drops an element while the count of its
   value is above one.  What is left of each value is its last occurrence.
   Module QueueList checks this against the loops. *)
LastPositions(q) ==
  {i \in DOMAIN q : \A j \in DOMAIN q : j > i => q[j] # q[i]}

KeepLast(q) ==
  LET keep == LastPositions(q)
  IN  [k \in 1..Cardinality(keep) |-> q[Ascending(keep)[k]]]

(* queue_cleanup, for a table that is not empty. *)
Cleanup(q) == KeepLast(PopHead(q))

(* queue_cleanup removes at least one element besides the head. *)
CleanupDeletes(q) == LastPositions(PopHead(q)) # DOMAIN PopHead(q)

(* Variant: an index that is in the queue counts as missing too. *)
AllArrived(q, table) ==
  {i \in 0..(Len(table) - 1) : table[i + 1].arrival_time # 0}

(* The tail of insert_node_into_sgx_table_and_queue: a queue shorter than the
   table gets every missing index whose node has a non-zero arrival time. *)
Missing(q, table) ==
  {i \in 0..(Len(table) - 1) : i \notin Ids(q) /\ table[i + 1].arrival_time # 0}

(* Variant: nothing is put back. *)
NoRefill(q, table) == q

Refill(q, table) ==
  IF Len(q) < Len(table) THEN q \o Ascending(Missing(q, table)) ELSE q

(* get_queue_str, what clients are sent: an id beyond the table is left out and
   any other is replaced by the node id of the table entry it selects. *)
QueueStr(q, table) ==
  LET shown == {i \in DOMAIN q : q[i] < Len(table)}
  IN  [k \in 1..Cardinality(shown) |-> table[q[Ascending(shown)[k]] + 1].node_id]

(* No value occurs at two positions. *)
Distinct(q) == \A i, j \in DOMAIN q : q[i] = q[j] => i = j
=============================================================================
