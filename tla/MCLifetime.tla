----------------------------- MODULE MCLifetime -----------------------------
(* Instances of Lifetime for TLC. *)
EXTENDS Lifetime

CONSTANTS c1, c2, r1, r2
=============================================================================
