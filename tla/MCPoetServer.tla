---------------------------- MODULE MCPoetServer ----------------------------
(* Instances of PoetServer for TLC. *)
EXTENDS PoetServer, TLC

CONSTANTS c1, c2, k1, none

MCConn == {c1, c2}
MCKey == {k1}
MCNoKey == none

(* Connections are interchangeable. *)
Interchangeable == Permutations(MCConn)
=============================================================================
