----------------------------- MODULE MCReceiver -----------------------------
(* An instance of Receiver for TLC: lengths with every number of digits to the base 2. *)
EXTENDS Receiver

PacketLengths == <<2, 0, 1, 4, 8>>
=============================================================================
