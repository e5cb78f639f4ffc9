------------------------------- MODULE MCWebUI -------------------------------
(* An instance of WebUI for TLC. *)
EXTENDS WebUI
=============================================================================
