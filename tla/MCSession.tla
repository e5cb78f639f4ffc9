------------------------------ MODULE MCSession ------------------------------
(* Instances of Session for TLC: which packets the peers may send. *)
EXTENDS Session, TLC

CONSTANTS c1, c2, c3

\* Only what changes who owns the session
LifecyclePackets == {Packet("SUBSCRIBE", 1, 0, 1, FALSE), Control("DISCONNECT", 0)}

\* Every packet a connected client may send
AllPackets ==
    {Control(t, i) : t \in {"PUBACK", "PUBREC", "PUBREL", "PUBCOMP"}, i \in {2}}
    \cup {Packet("PUBLISH", 2, 0, q, FALSE) : q \in 1..2}
    \cup {Packet("SUBSCRIBE", 2, 0, 2, FALSE)}
    \cup {Control(t, 0) : t \in {"UNSUBSCRIBE", "PINGREQ", "DISCONNECT"}}

Symmetry == Permutations(Conns)
=============================================================================
