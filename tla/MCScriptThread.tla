--------------------------- MODULE MCScriptThread ---------------------------
(* Instances of ScriptThread for TLC. *)
EXTENDS ScriptThread

CONSTANTS s1, s2
=============================================================================
