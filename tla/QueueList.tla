----------------------------- MODULE QueueList -----------------------------
(***************************************************************************)
(* queue_t (queue_t.c) as the linked list it is, and the server's          *)
(* queue_cleanup (poet_server_functions.cpp) as the two passes of          *)
(* queue_selective_remove it makes over that list.                         *)
(*                                                                         *)
(* The operations run under the write lock of the queue, so none of them   *)
(* starts before a cleanup is over.  Each item visited by a pass is a      *)
(* step.                                                                   *)
(***************************************************************************)
EXTENDS Integers, Sequences, FiniteSets

CONSTANTS
  Item,   \* bound: the addresses malloc has for items
  Null,   \* the null pointer
  Value   \* what is queued

ASSUME NullAssumption == Null \notin Item
ASSUME ItemAssumption == IsFiniteSet(Item)

VARIABLES
  head, tail, size,  \* the fields of queue_t
  next, data,        \* the fields of item_t
  live,              \* items that are allocated
  pass,              \* the should_delete of the pass under way, or "none"
  i,                 \* the item the pass visits next
  first_execution,   \* no item has been visited in this pass
  to_preserve,       \* items the pass keeps
  deletions,         \* how many it has freed
  repetitions,       \* the map the two predicates share
  previous,          \* the value visited before, in the first pass
  status,            \* "running", or what ended the process
  before             \* history: the contents when the cleanup began

list == <<head, tail, size, next, data, live>>
loop == <<i, first_execution, to_preserve, deletions, repetitions, previous>>
vars == <<list, pass, loop, status, before>>

TypeOK ==
  /\ head \in Item \cup {Null} /\ tail \in Item \cup {Null}
  /\ size \in 0..Cardinality(Item)
  /\ next \in [Item -> Item \cup {Null}]
  /\ data \in [Item -> Value \cup {Null}]
  /\ live \subseteq Item
  /\ pass \in {"none", "continuous", "repeated"}
  /\ i \in Item \cup {Null}
  /\ first_execution \in BOOLEAN
  /\ to_preserve \in Seq(Item)
  /\ deletions \in Nat
  /\ repetitions \in [Value -> Nat]
  /\ previous \in Value \cup {Null}
  /\ status \in {"running", "segfault", "assert_131", "assert_137", "assert_194",
                 "assert_211", "assert_339"}

NoRepetitions == [d \in Value |-> 0]

Init ==
  /\ head = Null /\ tail = Null /\ size = 0
  /\ next = [x \in Item |-> Null] /\ data = [x \in Item |-> Null]
  /\ live = {}
  /\ pass = "none" /\ i = Null /\ first_execution = TRUE
  /\ to_preserve = <<>> /\ deletions = 0
  /\ repetitions = NoRepetitions /\ previous = Null
  /\ status = "running" /\ before = <<>>

(* The item n links after the head, and the queue as a sequence. *)
Linked[n \in Nat] ==
  IF n = 0 THEN head
  ELSE IF Linked[n - 1] = Null THEN Null ELSE next[Linked[n - 1]]
Contents == [k \in 1..size |-> data[Linked[k - 1]]]

-----------------------------------------------------------------------------
(* queue_push *)
Push(d) ==
  /\ pass = "none"
  /\ \E x \in Item \ live :
       /\ live' = live \cup {x}
       /\ data' = [data EXCEPT ![x] = d]
       /\ IF tail = Null
          THEN /\ head' = x
               /\ next' = [next EXCEPT ![x] = Null]
               /\ status' = IF head = Null THEN status ELSE "assert_194"
          ELSE /\ head' = head
               /\ next' = [next EXCEPT ![x] = Null, ![tail] = x]
               /\ status' = status
       /\ tail' = x
  /\ size' = size + 1
  /\ UNCHANGED <<pass, loop, before>>

(* Variants: the size of an empty queue goes down; the tail is not reset. *)
RemoveAlways ==
  IF head # Null
  THEN /\ head' = next[head]
       /\ tail' = IF head = tail THEN Null ELSE tail
       /\ live' = live \ {head}
       /\ next' = [next EXCEPT ![head] = Null]
       /\ data' = [data EXCEPT ![head] = Null]
       /\ size' = size - 1 /\ status' = status
  ELSE size' = size - 1 /\ UNCHANGED <<head, tail, next, data, live, status>>

RemoveKeepsTail ==
  IF head # Null
  THEN /\ head' = next[head]
       /\ live' = live \ {head}
       /\ next' = [next EXCEPT ![head] = Null]
       /\ data' = [data EXCEPT ![head] = Null]
       /\ size' = size - 1 /\ UNCHANGED <<tail, status>>
  ELSE /\ status' = IF tail = Null THEN status ELSE "assert_137"
       /\ UNCHANGED list

(* The body of queue_pop and of queue_front_and_pop.  What is left in a freed
   item is forgotten. *)
RemoveHead ==
  IF head # Null
  THEN /\ head' = next[head]
       /\ tail' = IF head = tail THEN Null ELSE tail
       /\ status' = IF head = tail /\ next[head] # Null THEN "assert_131" ELSE status
       /\ live' = live \ {head}
       /\ next' = [next EXCEPT ![head] = Null]
       /\ data' = [data EXCEPT ![head] = Null]
       /\ size' = size - 1
  ELSE /\ status' = IF tail = Null THEN status ELSE "assert_137"
       /\ UNCHANGED list

Pop ==
  /\ pass = "none"
  /\ RemoveHead
  /\ UNCHANGED <<pass, loop, before>>

-----------------------------------------------------------------------------
(* queue_cleanup *)

(* queue_pop, then the first pass starts at the new head. *)
CleanupBegin ==
  /\ pass = "none"
  /\ before' = Contents
  /\ RemoveHead
  /\ pass' = "continuous"
  /\ i' = head'
  /\ first_execution' = TRUE /\ to_preserve' = <<>> /\ deletions' = 0
  /\ UNCHANGED <<repetitions, previous>>

(* The loop of queue_selective_remove for an item that is kept, and for one
   that is freed: i->next is read after free(i), so the walk goes on only if
   the link has survived. *)
KeepItem ==
  /\ to_preserve' = Append(to_preserve, i)
  /\ i' = next[i]
  /\ first_execution' = FALSE
  /\ UNCHANGED <<list, deletions, status>>

FreeItem ==
  /\ live' = live \ {i}
  /\ deletions' = deletions + 1
  /\ first_execution' = FALSE
  /\ \/ /\ i' = next[i]
        /\ next' = [next EXCEPT ![i] = Null]
        /\ data' = [data EXCEPT ![i] = Null]
        /\ status' = status
     \/ /\ status' = "segfault"
        /\ UNCHANGED <<i, next, data>>
  /\ UNCHANGED <<head, tail, size, to_preserve>>

(* queue_delete_continuous_nodes *)
VisitFirst ==
  /\ pass = "continuous" /\ i # Null /\ first_execution
  /\ previous' = data[i]
  /\ repetitions' = [NoRepetitions EXCEPT ![data[i]] = 1]
  /\ KeepItem
  /\ UNCHANGED <<pass, before>>

VisitContinuous ==
  /\ pass = "continuous" /\ i # Null /\ ~first_execution
  /\ previous = data[i]
  /\ IF repetitions[data[i]] + 1 > 1
     THEN FreeItem
     ELSE /\ status' = "assert_211"
          /\ UNCHANGED <<list, i, first_execution, to_preserve, deletions>>
  /\ UNCHANGED <<pass, repetitions, previous, before>>

VisitOther ==
  /\ pass = "continuous" /\ i # Null /\ ~first_execution
  /\ previous # data[i]
  /\ repetitions' = [repetitions EXCEPT ![data[i]] = @ + 1]
  /\ previous' = data[i]
  /\ KeepItem
  /\ UNCHANGED <<pass, before>>

(* Variant: the count is not brought down. *)
VisitRepeatedAll ==
  /\ pass = "repeated" /\ i # Null
  /\ IF repetitions[data[i]] > 1 THEN FreeItem ELSE KeepItem
  /\ UNCHANGED <<pass, repetitions, previous, before>>

(* queue_delete_repeated_nodes *)
VisitRepeated ==
  /\ pass = "repeated" /\ i # Null
  /\ IF repetitions[data[i]] > 1
     THEN FreeItem /\ repetitions' = [repetitions EXCEPT ![data[i]] = @ - 1]
     ELSE KeepItem /\ repetitions' = repetitions
  /\ UNCHANGED <<pass, previous, before>>

(* Variant: the tail is left as it was. *)
RelinkHead ==
  /\ pass # "none" /\ i = Null
  /\ LET n == Len(to_preserve)
     IN  /\ head' = IF n = 0 THEN Null ELSE to_preserve[1]
         /\ next' = [x \in Item |->
                       IF \E k \in 1..n : to_preserve[k] = x
                       THEN LET k == CHOOSE k \in 1..n : to_preserve[k] = x
                            IN  IF k < n THEN to_preserve[k + 1] ELSE Null
                       ELSE next[x]]
         /\ size' = n
  /\ UNCHANGED <<tail, data, live, first_execution, repetitions, previous, status>>
  /\ to_preserve' = <<>> /\ deletions' = 0

(* The end of queue_selective_remove: the items kept become the list.  With none
   kept, to_preserve[0] is read from what calloc has set to zero. *)
Relink ==
  /\ pass # "none" /\ i = Null
  /\ LET n == Len(to_preserve)
     IN  /\ head' = IF n = 0 THEN Null ELSE to_preserve[1]
         /\ tail' = IF n = 0 THEN Null ELSE to_preserve[n]
         /\ next' = [x \in Item |->
                       IF \E k \in 1..n : to_preserve[k] = x
                       THEN LET k == CHOOSE k \in 1..n : to_preserve[k] = x
                            IN  IF k < n THEN to_preserve[k + 1] ELSE Null
                       ELSE next[x]]
         /\ status' = IF n + deletions = size THEN status ELSE "assert_339"
         /\ size' = n
  /\ UNCHANGED <<data, live, first_execution, repetitions, previous>>
  /\ to_preserve' = <<>> /\ deletions' = 0

(* The second pass follows the first. *)
SecondPass ==
  /\ pass = "continuous"
  /\ Relink
  /\ pass' = "repeated" /\ i' = head'
  /\ UNCHANGED before

(* Variant: the second pass is made again until it deletes something. *)
CleanupInsists ==
  /\ pass = "repeated"
  /\ Relink
  /\ IF deletions > 0 THEN pass' = "none" /\ before' = <<>> /\ i' = i
                      ELSE UNCHANGED <<pass, before>> /\ i' = head'

CleanupEnd ==
  /\ pass = "repeated"
  /\ Relink
  /\ pass' = "none" /\ before' = <<>>
  /\ UNCHANGED i

Visit == VisitFirst \/ VisitContinuous \/ VisitOther \/ VisitRepeated

Step == SecondPass \/ CleanupEnd \/ Visit

Next ==
  /\ status = "running"
  /\ \/ Pop
     \/ CleanupBegin
     \/ Step
     \/ \E d \in Value : Push(d)

Spec == Init /\ [][Next]_vars

(* The thread inside a cleanup holds all the locks it needs and keeps going. *)
FairSpec == Spec /\ WF_vars(status = "running" /\ Step)
-----------------------------------------------------------------------------
(* The list behind head, tail and size is what queue_t.c takes it for: size
   different items, all those that are allocated, from head to tail. *)
WellFormed ==
  pass = "none" /\ status = "running" =>
    /\ {Linked[k] : k \in 0..(size - 1)} = live
    /\ Cardinality(live) = size
    /\ Linked[size] = Null
    /\ tail = IF size = 0 THEN Null ELSE Linked[size - 1]

(* The assertions of queue_pop, queue_push, queue_selective_remove and
   queue_delete_continuous_nodes hold. *)
NoAssertFails == status \in {"running", "segfault"}

(* The list implements the abstract queue; in particular the two passes leave
   the last occurrence of every value, in the order of these. *)
Abstract == INSTANCE QueueSpec WITH q <- IF pass = "none" THEN Contents ELSE before
Implements == Abstract!Spec

(* A cleanup comes to its end: no pass walks in a circle. *)
CleanupEnds == pass # "none" ~> pass = "none" \/ status # "running"
=============================================================================
