----------------------------- MODULE MCNotifier -----------------------------
(* Instances of Notifier for TLC. *)
EXTENDS Notifier

CONSTANTS s1, s2, none

MCSlot == {s1, s2}
MCNoSlot == none
=============================================================================
