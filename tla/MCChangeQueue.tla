---------------------------- MODULE MCChangeQueue ----------------------------
(* Instances of ChangeQueue for TLC. *)
EXTENDS ChangeQueue

CONSTANTS t1, t2
=============================================================================
