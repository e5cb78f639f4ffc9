------------------------------ MODULE Delivery ------------------------------
(***************************************************************************)
(* End-to-end delivery: the session layer of module Session talking to a   *)
(* correct MQTT 3.1.1 client with a persistent session over connections    *)
(* that may fail.  The client subscribes with QoS 2, acknowledges what it  *)
(* receives, publishes messages of its own with QoS 2, and reconnects when *)
(* its connection is lost; the broker may learn of the loss later than the *)
(* client does, so that the new connection takes over from the old one.    *)
(*                                                                         *)
(* The client and the network are the environment: their definitions state *)
(* what MQTT asks of a client, the broker's steps are Session's.           *)
(***************************************************************************)
EXTENDS Session

CONSTANTS
    MaxSend,        \* bound on the messages the client publishes
    ClientIds,      \* number of packet ids the client cycles through
    MaxOut,         \* bound on the messages published to the client's session
    MaxFailures     \* bound on the failures of a connection in use

ASSUME DeliveryAssumption ==
    /\ MaxSend \in Nat /\ MaxSend <= MaxPublish
    /\ ClientIds \in Nat \ {0} /\ ClientIds <= MaxPacketId
    /\ MaxOut \in Nat /\ MaxFailures \in Nat

VARIABLES
    used,           \* connections the client has opened
    conn,           \* the client's connection, or Null
    ready,          \* it has seen CONNACK on that connection
    toServer,       \* what the client sent and the broker has not read yet
    subscribed,     \* it has seen SUBACK
    received,       \* the messages (with QoS) handed to the client's application
    cIds,           \* ids of QoS 2 messages received and not yet released
    sendCount,      \* messages the client has published
    sendState,      \* "idle", "published" or "released": the handshake of the last one
    forwarded,      \* the client's messages that app.publish was called with
    promised,       \* messages published while the session was subscribed
    failures,       \* failures so far
    remarked        \* a receiver has marked an id after its connection was detached

clientVars == <<used, conn, ready, subscribed, received, cIds, sendCount, sendState>>
envVars == <<clientVars, toServer, forwarded, promised, failures>>
allVars == <<vars, envVars, remarked>>

DInit ==
    /\ Init
    /\ used = {} /\ conn = Null /\ ready = FALSE /\ subscribed = FALSE
    /\ toServer = [c \in Conns |-> <<>>]
    /\ received = <<>> /\ cIds = {}
    /\ sendCount = 0 /\ sendState = "idle"
    /\ forwarded = <<>> /\ promised = {} /\ failures = 0
    /\ remarked = FALSE

Prefixes(s) == {SubSeq(s, 1, k) : k \in 0..Len(s)}
Elements(s) == {s[i] : i \in DOMAIN s}
ReceivedMsgs == {r.msg : r \in Elements(received)}
ToServer(c, packets) == toServer' = [toServer EXCEPT ![c] = @ \o packets]

-----------------------------------------------------------------------------
(* The client *)

SendId == 1 + (sendCount % ClientIds)
PublishPacket(dup) == Packet("PUBLISH", SendId, sendCount, 2, dup)
Subscription == Packet("SUBSCRIBE", 1, 0, 2, FALSE)

ClientConnect(c) ==
    /\ conn = Null /\ c \notin used
    /\ used' = used \cup {c} /\ conn' = c /\ ready' = FALSE
    /\ reading' = reading \cup {c}
    /\ ToServer(c, <<Control("CONNECT", 0)>>)
    /\ UNCHANGED <<subscribed, received, cIds, sendCount, sendState, forwarded, promised, failures,
                   remarked, connVars, mSendTasks, linkVars, flightVars, mQueue, appVars, recv,
                   fault>>

\* After CONNACK the client resends what it has in flight; it drops its own half of
\* the session when the broker has none
OnConnack(c, p) ==
    /\ ready' = TRUE
    /\ cIds' = IF p.flag THEN cIds ELSE {}
    /\ ToServer(c, (IF subscribed THEN <<>> ELSE <<Subscription>>)
                   \o CASE sendState = "idle" -> <<>>
                        [] sendState = "published" -> <<PublishPacket(TRUE)>>
                        [] sendState = "released" -> <<Control("PUBREL", SendId)>>)
    /\ UNCHANGED <<subscribed, received, sendState>>

OnPublish(c, p) ==
    /\ p.qos > 0
    /\ IF p.qos = 2 /\ p.id \in cIds
       THEN UNCHANGED <<received, cIds>>
       ELSE /\ received' = Append(received, [msg |-> p.msg, qos |-> p.qos])
            /\ cIds' = IF p.qos = 2 THEN cIds \cup {p.id} ELSE cIds
    /\ ToServer(c, <<Control(IF p.qos = 1 THEN "PUBACK" ELSE "PUBREC", p.id)>>)
    /\ UNCHANGED <<ready, subscribed, sendState>>

OnPubrel(c, p) ==
    /\ cIds' = cIds \ {p.id}
    /\ ToServer(c, <<Control("PUBCOMP", p.id)>>)
    /\ UNCHANGED <<ready, subscribed, received, sendState>>

OnPubrec(c, p) ==
    /\ IF sendState # "idle" /\ p.id = SendId
       THEN sendState' = "released" /\ ToServer(c, <<Control("PUBREL", p.id)>>)
       ELSE UNCHANGED <<sendState, toServer>>
    /\ UNCHANGED <<ready, subscribed, received, cIds>>

OnPubcomp(p) ==
    /\ sendState' = IF sendState = "released" /\ p.id = SendId THEN "idle" ELSE sendState
    /\ UNCHANGED <<ready, subscribed, received, cIds, toServer>>

OnSuback ==
    /\ subscribed' = TRUE
    /\ UNCHANGED <<ready, received, cIds, sendState, toServer>>

\* The client reads the next packet of its connection
ClientRead(c) ==
    /\ conn = c /\ mSendTasks[c] # <<>>
    /\ mSendTasks' = [mSendTasks EXCEPT ![c] = Tail(@)]
    /\ LET p == Head(mSendTasks[c]) IN
       \/ p.type = "CONNACK" /\ OnConnack(c, p)
       \/ p.type = "PUBLISH" /\ OnPublish(c, p)
       \/ p.type = "PUBREL" /\ OnPubrel(c, p)
       \/ p.type = "PUBREC" /\ OnPubrec(c, p)
       \/ p.type = "PUBCOMP" /\ OnPubcomp(p)
       \/ p.type = "SUBACK" /\ OnSuback
    /\ UNCHANGED <<used, conn, sendCount, forwarded, promised, failures, remarked, reading,
                   connVars, linkVars, flightVars, mQueue, appVars, recv, fault>>

\* The client publishes its next message
ClientPublish ==
    /\ conn # Null /\ ready /\ sendState = "idle" /\ sendCount < MaxSend
    /\ sendCount' = sendCount + 1 /\ sendState' = "published"
    /\ ToServer(conn, <<PublishPacket(FALSE)'>>)
    /\ UNCHANGED <<used, conn, ready, subscribed, received, cIds, forwarded, promised, failures,
                   remarked, vars>>

\* The connection breaks.  The broker may still read a prefix of what was sent.
BreakConnection(c) ==
    /\ conn' = Null /\ ready' = FALSE
    /\ reading' = reading \ {c}
    /\ mSendTasks' = [mSendTasks EXCEPT ![c] = <<>>]
    /\ \E s \in Prefixes(toServer[c]) : toServer' = [toServer EXCEPT ![c] = s]
    /\ UNCHANGED <<used, subscribed, received, cIds, sendCount, sendState, forwarded, promised,
                   remarked, connVars, linkVars, flightVars, mQueue, appVars, recv, fault>>

ConnectionFails(c) ==
    /\ conn = c /\ failures < MaxFailures
    /\ failures' = failures + 1
    /\ BreakConnection(c)

\* cleanup destroys a connection that was logged out, which closes its socket
ServerCloses(c) ==
    /\ conn = c /\ mLoggedOut[c]
    /\ BreakConnection(c)
    /\ UNCHANGED failures

-----------------------------------------------------------------------------
(* The broker's steps *)

Accept(c) == c \in used /\ AcceptConnection(c) /\ UNCHANGED <<envVars, remarked>>

\* A receiver takes the next packet that arrived
ServerRead(c) ==
    /\ toServer[c] # <<>>
    /\ toServer' = [toServer EXCEPT ![c] = Tail(@)]
    /\ LET p == Head(toServer[c]) IN
       \/ p.type = "CONNECT" /\ RecvConnect(c, FALSE, FALSE)
       \/ LoadSession(c, p)
    /\ UNCHANGED <<clientVars, forwarded, promised, failures, remarked>>

\* The receiver sees the end of the stream
ServerReadsEof(c) ==
    /\ c \in used \ reading /\ toServer[c] = <<>> /\ ~mLoggedOut[c]
    /\ RecvError(c)
    /\ UNCHANGED <<envVars, remarked>>

\* The handler of a PUBLISH is going to mark the id in a session that its connection has
\* lost since the handler loaded the pointer
MarksDetached(c) ==
    /\ recv[c].pc = "apply" /\ recv[c].packet.type = "PUBLISH"
    /\ mPersistentClientState[c] # recv[c].state
    /\ recv[c].packet.id \notin mQoS2receivingPacketIds[recv[c].state]

ServerHandle(c) ==
    /\ \E o \in Conns : Handle(c, o)
    /\ remarked' = (remarked \/ MarksDetached(c))
    /\ UNCHANGED envVars

ServerForward(c) ==
    /\ Forward(c)
    /\ forwarded' = Append(forwarded, recv[c].packet.msg)
    /\ UNCHANGED <<clientVars, toServer, promised, failures, remarked>>

ServerExecute == Execute /\ UNCHANGED <<envVars, remarked>>

\* A time-out of a connection in use is a failure of that connection
ServerTimeout(c) ==
    /\ TimeoutLogout(c)
    /\ IF c \in reading
       THEN failures < MaxFailures /\ failures' = failures + 1
       ELSE UNCHANGED failures
    /\ UNCHANGED <<clientVars, toServer, forwarded, promised, remarked>>

ServerSendError(c) ==
    /\ c \notin reading
    /\ SendErrorLogout(c)
    /\ UNCHANGED <<envVars, remarked>>

ServerPublish(qos) ==
    /\ mGlobalOrderCount < MaxOut
    /\ Publish(qos)
    /\ promised' = IF Subscribers = {} THEN promised ELSE promised \cup {mGlobalOrderCount'}
    /\ UNCHANGED <<clientVars, toServer, forwarded, failures, remarked>>

DNext ==
    \/ \E c \in Conns :
         \/ ClientConnect(c) \/ ClientRead(c) \/ ConnectionFails(c) \/ ServerCloses(c)
         \/ Accept(c) \/ ServerRead(c) \/ ServerReadsEof(c) \/ ServerHandle(c)
         \/ ServerForward(c) \/ ServerTimeout(c) \/ ServerSendError(c)
    \/ ClientPublish
    \/ ServerExecute
    \/ \E qos \in PublishQoS : ServerPublish(qos)

\* TCP delivers as long as a connection is up, the receiver threads and the worker
\* keep running, and a client that lost its connection opens another one.  Nothing
\* obliges the broker to read on a connection that is logged out.
Fairness ==
    /\ WF_allVars(\E c \in Conns : ClientConnect(c))
    /\ WF_allVars(ServerExecute)
    /\ WF_allVars(ClientPublish)
    /\ \A c \in Conns :
         /\ WF_allVars(ClientRead(c)) /\ WF_allVars(ServerCloses(c))
         /\ WF_allVars(Accept(c))
         /\ WF_allVars(~mLoggedOut[c] /\ ServerRead(c)) /\ WF_allVars(ServerReadsEof(c))
         /\ WF_allVars(ServerHandle(c)) /\ WF_allVars(ServerForward(c))

DSpec == DInit /\ [][DNext]_allVars /\ Fairness

-----------------------------------------------------------------------------
(* Properties *)

(* No message published with QoS 1 or 2 to the subscribed session is lost: until  *)
(* the client has it, it stays in mHighQoSSendingPackets, across lost             *)
(* connections, takeovers and late acknowledgements.                              *)
NoLoss ==
    \A m \in promised :
        \/ m \in ReceivedMsgs
        \/ \E o \in Conns, i \in Ids : mHighQoSSendingPackets[o][i].msg = m

(* A message published with QoS 2 reaches the application once, although PUBLISH  *)
(* is resent after every login that finds it in flight.                           *)
ExactlyOnceOut ==
    \A i, j \in DOMAIN received :
        received[i].msg = received[j].msg /\ received[i].qos = 2 => i = j

(* Messages are first received in the order they were published: the resend after *)
(* a login sorts by global order, and nothing overtakes it.                       *)
OrderedFirstDelivery ==
    \A j \in DOMAIN received : \A m \in promised :
        m < received[j].msg => \E i \in 1..j : received[i].msg = m

(* Every message published to the subscribed session is eventually received.      *)
Delivered == \A m \in 1..MaxOut : m \in promised ~> m \in ReceivedMsgs

(* A message whose PUBREC the client has seen was passed to app.publish, or a     *)
(* receiver is about to do so: what MQTT 3.1.1 promises for QoS 2.  It does not   *)
(* hold for a client that uses a packet id again: a receiver that goes on with a  *)
(* session which another connection has taken over may mark the id after it was   *)
(* released, and the next message under the id is answered and dropped.           *)
InboundNoLoss ==
    \A m \in 1..sendCount :
        m < sendCount \/ sendState \in {"released", "idle"} =>
            m \in Elements(forwarded)
            \/ \E c \in Conns : recv[c].pc = "forward" /\ recv[c].packet.msg = m

(* That is the only way to lose a message of the client: unless a receiver has    *)
(* set a mark for a connection that no longer has the session, every message      *)
(* whose PUBREC the client has seen is forwarded, with packet ids used again and  *)
(* again, through lost connections, takeovers and resent packets.                 *)
LostOnlyByMark == InboundNoLoss \/ remarked

(* Every message the client publishes is eventually forwarded, with the same      *)
(* exception: the handshake never comes to rest half-way, and marks of earlier    *)
(* messages are gone when their id is used again.                                 *)
ForwardedUnlessMarked ==
    \A m \in 1..MaxSend : sendCount = m ~> m \in Elements(forwarded) \/ remarked

(* A message the client publishes with QoS 2 is forwarded at most once.  This     *)
(* does not hold: a receiver may still work on a session that was taken over.     *)
ExactlyOnceIn == \A i, j \in DOMAIN forwarded : forwarded[i] = forwarded[j] => i = j

(* A QoS 2 message the client has stored is eventually released by PUBREL.  This  *)
(* does not hold: a PUBREL that is lost with its connection is not sent again.    *)
HandshakeCompletes == \A i \in Ids : i \in cIds ~> i \notin cIds
=============================================================================
