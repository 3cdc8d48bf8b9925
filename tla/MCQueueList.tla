---------------------------- MODULE MCQueueList ----------------------------
(* Instance of QueueList for TLC. *)
EXTENDS QueueList

CONSTANTS x1, x2, x3, x4, null

MCItem == {x1, x2, x3, x4}
MCNull == null
=============================================================================
