----------------------------- MODULE QueueSpec -----------------------------
(***************************************************************************)
(* What queue_t and queue_cleanup promise the server: a FIFO sequence of   *)
(* values, and a cleanup that drops the head and then all but the last     *)
(* occurrence of every value.                                              *)
(***************************************************************************)
EXTENDS PoetQueue

CONSTANT Value

VARIABLE q

Init == q = <<>>

Push(d) == q' = Append(q, d)
Pop == q' = PopHead(q)
CleanUp == q' = Cleanup(q)

Next == Pop \/ CleanUp \/ \E d \in Value : Push(d)

Spec == Init /\ [][Next]_q
=============================================================================
