------------------------------ MODULE MCSendPath ------------------------------
(* An instance of SendPath for TLC: the smallest packet of each shape. *)
EXTENDS SendPath

\* PINGRESP; an acknowledgement; PUBLISH with QoS 0; PUBLISH with QoS 1 or 2
Sizes == [PINGRESP |-> <<2, 0, 0, 0>>, PUBACK |-> <<1, 1, 0, 0>>,
          PUBLISH0 |-> <<1, 1, 0, 1>>, PUBLISH |-> <<1, 1, 2, 1>>]
=============================================================================
