---------------------------- MODULE DeliveryProofs ----------------------------
(***************************************************************************)
(* Proofs about Delivery, for any connections, messages, failures and      *)
(* capacities: what QoS 1 and 2 are worth between the broker's session and *)
(* a correct client, however connections fail and sessions are taken over. *)
(***************************************************************************)
EXTENDS Delivery, SessionProofs

(* The setting of the theorems about messages to the client: they are published    *)
(* with QoS 1 or 2, none is retained, and no id is given out a second time.        *)
Setting ==
    /\ PublishQoS \subseteq {1, 2} /\ RetainedQoS = NoSub
    /\ MaxPublish < MaxPacketId

-----------------------------------------------------------------------------
(* The invariant *)

\* The client's session
Sess == mPersistentClientStates

(* Ids are given out in ascending order from 2 on, one for each message published  *)
(* since the session was subscribed, so that an id determines its message.         *)
LastId == IF Sess = Null THEN 1 ELSE mPacketIdCounter[Sess]
Given == 2..LastId
Offset == mGlobalOrderCount - LastId

\* The ids whose message is in flight; those whose message the client has
Flying == IF Sess = Null THEN {} ELSE InFlight(Sess)
Had == {i \in Given : i + Offset \in ReceivedMsgs}

\* A receiver is between reading and writing mQos2pubrecReceived
Storing(c) == recv[c].pc \in {"store", "storeLocked"}

\* The id under which the client publishes its message m
Sid(m) == 1 + (m % ClientIds)

(* The types of the client's variables. *)
ClientTypes ==
    /\ used \subseteq Conns /\ conn \in Conns \cup {Null} /\ ready \in BOOLEAN
    /\ toServer \in [Conns -> Seq(Packets)] /\ subscribed \in BOOLEAN
    /\ received \in Seq([msg: 0..MaxPublish, qos: QoS])
    /\ cIds \subseteq BitIds
    /\ sendCount \in 0..MaxSend /\ sendState \in {"idle", "published", "released"}

(* The client reads from one connection at a time, and a connection carries        *)
(* nothing but its CONNECT before it is logged in.                                 *)
PeerInv ==
    /\ reading = {conn} \ {Null}
    /\ conn # Null => conn \in used
    /\ \A c \in Conns \ used : mState[c] = "NONE" /\ toServer[c] = <<>>
    /\ \A c \in Conns : c # conn => mSendTasks[c] = <<>>
    /\ \A c \in Conns : mState[c] # "CONNECTED" =>
          /\ mSendTasks[c] = <<>> /\ recv[c] = Idle
          /\ \A n \in DOMAIN toServer[c] : toServer[c][n].type = "CONNECT"
          /\ conn = c => ~ready

\* What the client sends, apart from its acknowledgements
Usual(p) == (p.type = "SUBSCRIBE" => p.qos = 2) /\ p.type # "UNSUBSCRIBE"

(* There is one session, it is persistent, and all requests are about it. *)
OneSession ==
    /\ \A c \in Conns : recv[c].state \in {Null, Sess}
    /\ \A c \in Conns : Usual(recv[c].packet) /\ \A n \in DOMAIN toServer[c] : Usual(toServer[c][n])
    /\ \A n \in DOMAIN mQueue :
          /\ mQueue[n].type = "Login" => ~mQueue[n].clean
          /\ mQueue[n].type = "Subscribe" => mQueue[n].state = Sess /\ mQueue[n].qos = 2
          /\ mQueue[n].type # "Unsubscribe"
    /\ Sess # Null => ~mCleanSession[Sess]
    /\ \A o \in Conns : mSubscriptions[o] # NoSub => o = Sess /\ mSubscriptions[o] = 2

BaseInv == Inv /\ ClientTypes /\ PeerInv /\ OneSession

-----------------------------------------------------------------------------
(* The session underneath *)

(* The steps of the client and of the network leave the broker's variables alone,  *)
(* except for the packets that are on their way.                                   *)
ClientStep ==
    /\ UNCHANGED <<connVars, linkVars, flightVars, mQueue, appVars, recv, fault>>
    /\ mSendTasks' \in [Conns -> Seq(Packets)]
    /\ reading' \subseteq Conns

(* Such a step keeps the invariant of the session layer. *)
LEMMA ClientInv == ASSUME Inv, ClientStep PROVE Inv'
<1>. USE DEF connVars, linkVars, flightVars, appVars, mapVars
<1>1. TypeOK'
  BY Zenon DEF Inv, ClientStep, TypeOK
<1>2. LoginInv'
  BY Zenon DEF Inv, ClientStep, LoginInv, LoginOnce
<1>3. Calm
  BY DEF Inv, ClientStep, Calm
<1>4. OwnerInv'
  BY <1>3, CalmOwner DEF Inv
<1>. QED
  BY <1>1, <1>2, <1>4 DEF Inv

(* A packet on its way is a packet. *)
LEMMA SeqFacts ==
    ASSUME NEW T, NEW s \in Seq(T)
    PROVE  /\ s # <<>> => Head(s) \in T /\ Tail(s) \in Seq(T) /\ Head(s) = s[1] /\ 1 \in DOMAIN s
           /\ s # <<>> => \A n \in DOMAIN Tail(s) : n + 1 \in DOMAIN s /\ Tail(s)[n] = s[n + 1]
           /\ s # <<>> => \A n \in DOMAIN s : n = 1 \/ (n - 1 \in DOMAIN Tail(s) /\ Tail(s)[n - 1] = s[n])
           /\ \A n \in DOMAIN s : n \in Nat \ {0} /\ s[n] \in T
           /\ \A e \in T : Append(s, e) \in Seq(T)
OBVIOUS

(* Every step is one of the session layer, or of the client and the network. *)
LEMMA DSteps ==
    ASSUME Inv, ClientTypes, [DNext]_allVars
    PROVE  [AnyNext]_vars \/ ClientStep
<1>. USE DeliveryAssumption, ConstantsAssumption
<1>. DEFINE Kind == [AnyNext]_vars \/ ClientStep
<1>s. mSendTasks \in [Conns -> Seq(Packets)] /\ reading \subseteq Conns
  BY Zenon DEF Inv, TypeOK
<1>1. ASSUME NEW c \in Conns, ClientConnect(c) PROVE ClientStep
  BY <1>1, <1>s DEF ClientConnect, ClientStep
<1>2. ASSUME NEW c \in Conns, ClientRead(c) PROVE ClientStep
  <2>1. Tail(mSendTasks[c]) \in Seq(Packets)
    BY <1>2, <1>s DEF ClientRead
  <2>. QED
    BY <1>2, <1>s, <2>1 DEF ClientRead, ClientStep
<1>3. ASSUME NEW c \in Conns, BreakConnection(c) PROVE ClientStep
  <2>1. <<>> \in Seq(Packets)
    OBVIOUS
  <2>. QED
    BY <1>3, <1>s, <2>1 DEF BreakConnection, ClientStep
<1>4. ASSUME ClientPublish PROVE UNCHANGED vars
  BY <1>4 DEF ClientPublish
<1>5. ASSUME NEW c \in Conns, Accept(c) PROVE AnyNext
  BY <1>5, Zenon DEF Accept, AnyNext
<1>6. ASSUME NEW c \in Conns, ServerRead(c) PROVE AnyNext
  <2>1. Head(toServer[c]) \in Packets
    BY <1>6 DEF ServerRead, ClientTypes
  <2>2. RecvConnect(c, FALSE, FALSE) \/ LoadSession(c, Head(toServer[c]))
    BY Zenon, <1>6 DEF ServerRead
  <2>. QED
    BY <2>1, <2>2, Zenon DEF AnyNext, Receive
<1>7. ASSUME NEW c \in Conns, ServerReadsEof(c) PROVE AnyNext
  BY <1>7, Zenon DEF ServerReadsEof, AnyNext
<1>8. ASSUME NEW c \in Conns, ServerHandle(c) PROVE AnyNext
  BY <1>8, Zenon DEF ServerHandle, AnyNext
<1>9. ASSUME NEW c \in Conns, ServerForward(c) PROVE AnyNext
  BY <1>9, Zenon DEF ServerForward, AnyNext
<1>10. ASSUME NEW c \in Conns, ServerTimeout(c) PROVE AnyNext
  BY <1>10, Zenon DEF ServerTimeout, AnyNext
<1>11. ASSUME NEW c \in Conns, ServerSendError(c) PROVE AnyNext
  BY <1>11, Zenon DEF ServerSendError, AnyNext
<1>12. ASSUME ServerExecute PROVE AnyNext
  BY <1>12, Zenon DEF ServerExecute, AnyNext
<1>13. ASSUME NEW qos \in PublishQoS, ServerPublish(qos) PROVE AnyNext
  BY <1>13, Zenon DEF ServerPublish, AnyNext
<1>14. ASSUME UNCHANGED allVars PROVE UNCHANGED vars
  BY <1>14 DEF allVars
<1>. QED
  BY ZenonT(60), <1>1, <1>2, <1>3, <1>4, <1>5, <1>6, <1>7, <1>8, <1>9, <1>10, <1>11, <1>12, <1>13, <1>14
  DEF DNext, ConnectionFails, ServerCloses

(* The session's invariant holds here too. *)
LEMMA SessionStep ==
    ASSUME Inv, ClientTypes, [DNext]_allVars PROVE Inv'
BY DSteps, StepInv, ClientInv

(* The client's ids are ids. *)
LEMMA SidFacts ==
    /\ \A m \in 0..MaxSend : Sid(m) \in BitIds /\ m \in 0..MaxPublish
    /\ \A m \in 0..MaxSend, dup \in BOOLEAN : Packet("PUBLISH", Sid(m), m, 2, dup) \in Packets
    /\ SendId = Sid(sendCount) /\ SendId' = Sid(sendCount')
<1>1. ASSUME NEW m \in 0..MaxSend PROVE Sid(m) \in BitIds /\ m \in 0..MaxPublish
  <2>1. m % ClientIds \in 0..(ClientIds - 1)
    BY DeliveryAssumption, ConstantsAssumption
  <2>. QED
    BY <2>1, DeliveryAssumption, ConstantsAssumption DEF Sid, BitIds
<1>2. ASSUME NEW m \in 0..MaxSend, NEW dup \in BOOLEAN
      PROVE  Packet("PUBLISH", Sid(m), m, 2, dup) \in Packets
  <2>1. Sid(m) \in BitIds /\ m \in 0..MaxPublish /\ 2 \in QoS
    BY <1>1 DEF QoS
  <2>. QED
    BY <2>1, PacketTypesOK, Zenon
<1>3. SendId = Sid(sendCount) /\ SendId' = Sid(sendCount')
  BY DEF Sid, SendId
<1>. QED
  BY <1>1, <1>2, <1>3

(* What the client sends are packets, and it never unsubscribes. *)
LEMMA ClientPackets ==
    ASSUME ClientTypes
    PROVE  /\ \A dup \in BOOLEAN : PublishPacket(dup) \in Packets /\ Usual(PublishPacket(dup))
           /\ Subscription \in Packets /\ Usual(Subscription)
           /\ Control("CONNECT", 0) \in Packets /\ Usual(Control("CONNECT", 0))
           /\ \A type \in {"PUBACK", "PUBREC", "PUBREL", "PUBCOMP"}, id \in BitIds :
                 Control(type, id) \in Packets /\ Usual(Control(type, id))
           /\ SendId \in BitIds
<1>. USE DeliveryAssumption, ConstantsAssumption
<1>1. sendCount \in 0..MaxSend
  BY DEF ClientTypes
<1>3. SendId \in BitIds /\ sendCount \in 0..MaxPublish
  BY <1>1, SidFacts
<1>4. Subscription \in Packets
  BY DEF Subscription, Packet, Packets, PacketTypes, QoS
<1>5. \A dup \in BOOLEAN : PublishPacket(dup) \in Packets
  BY <1>3, PacketTypesOK DEF PublishPacket, QoS
<1>6. 0 \in BitIds /\ {"PUBACK", "PUBREC", "PUBREL", "PUBCOMP", "CONNECT"} \subseteq PacketTypes
  BY DEF BitIds, PacketTypes
<1>7. /\ \A dup \in BOOLEAN : Usual(PublishPacket(dup))
      /\ Usual(Subscription) /\ Usual(Control("CONNECT", 0))
      /\ \A type \in {"PUBACK", "PUBREC", "PUBREL", "PUBCOMP"}, id \in BitIds : Usual(Control(type, id))
  BY DEF Usual, PublishPacket, Subscription, Control, Packet
<1>. QED
  BY <1>3, <1>4, <1>5, <1>6, <1>7, PacketTypesOK

\* What the client adds to the stream to the broker when it reads packet p
Answers(p) ==
    {<<>>}
    \cup {<<Control(type, p.id)>> : type \in IF p.type = "PUBLISH" THEN {"PUBACK", "PUBREC"}
                                                               ELSE {"PUBREL", "PUBCOMP"}}
    \cup (IF p.type = "CONNACK"
          THEN {<<Subscription>>, <<Control("PUBREL", SendId)>>, <<Subscription, Control("PUBREL", SendId)>>}
          ELSE {})
    \cup (IF p.type = "CONNACK" /\ sendState = "published"
          THEN {<<PublishPacket(TRUE)>>, <<Subscription, PublishPacket(TRUE)>>}
          ELSE {})

(* How the client answers. *)
LEMMA ReadAnswers ==
    ASSUME ClientTypes, NEW c \in Conns, ClientRead(c)
    PROVE  \E a \in Answers(Head(mSendTasks[c])) : ToServer(c, a)
<1>. DEFINE p == Head(mSendTasks[c])
            t == toServer[c]
<1>0. toServer \in [Conns -> Seq(Packets)] /\ t \in Seq(Packets)
  BY DEF ClientTypes
<1>1. ASSUME toServer' = toServer PROVE ToServer(c, <<>>)
  <2>1. t \o <<>> = t
    BY <1>0
  <2>. QED
    BY <1>0, <1>1, <2>1 DEF ToServer
<1>. SUFFICES \E a \in Answers(p) : ToServer(c, a)
  OBVIOUS
<1>. HIDE DEF p
<1>a. /\ <<>> \in Answers(p)
      /\ p.type = "PUBLISH" => \A type \in {"PUBACK", "PUBREC"} : <<Control(type, p.id)>> \in Answers(p)
      /\ p.type # "PUBLISH" => \A type \in {"PUBREL", "PUBCOMP"} : <<Control(type, p.id)>> \in Answers(p)
  BY Zenon DEF Answers
<1>2. CASE p.type = "CONNACK" /\ OnConnack(c, p)
  <2>1. ToServer(c, (IF subscribed THEN <<>> ELSE <<Subscription>>)
                   \o CASE sendState = "idle" -> <<>>
                        [] sendState = "published" -> <<PublishPacket(TRUE)>>
                        [] sendState = "released" -> <<Control("PUBREL", SendId)>>)
    BY Zenon, <1>2 DEF OnConnack
  <2>2. sendState \in {"idle", "published", "released"} /\ subscribed \in BOOLEAN
    BY DEF ClientTypes
  <2>. DEFINE a == (IF subscribed THEN <<>> ELSE <<Subscription>>)
                   \o CASE sendState = "idle" -> <<>>
                        [] sendState = "published" -> <<PublishPacket(TRUE)>>
                        [] sendState = "released" -> <<Control("PUBREL", SendId)>>
  <2>a. \A x, y \in Packets : /\ <<>> \o <<>> = <<>> /\ <<>> \o <<x>> = <<x>> /\ <<x>> \o <<>> = <<x>>
                                /\ <<x>> \o <<y>> = <<x, y>>
    <3>. TAKE x \in Packets, y \in Packets
    <3>1. <<>> \in Seq(Packets) /\ <<x>> \in Seq(Packets) /\ <<y>> \in Seq(Packets)
      OBVIOUS
    <3>2. <<x>> \o <<y>> = <<x, y>>
      <4>1. /\ <<x>> \o <<y>> \in Seq(Packets) /\ <<x, y>> \in Seq(Packets)
            /\ Len(<<x>> \o <<y>>) = 2 /\ Len(<<x, y>>) = 2
            /\ (<<x>> \o <<y>>)[1] = x /\ (<<x>> \o <<y>>)[2] = y
        BY <3>1
      <4>2. \A i \in 1..2 : (<<x>> \o <<y>>)[i] = <<x, y>>[i]
        BY <4>1
      <4>. QED
        BY Zenon, <4>1, <4>2, SeqEqual
    <3>. QED
      BY <3>1, <3>2, ConcatEmptySeq
  <2>c. /\ PublishPacket(TRUE) \in Packets /\ Subscription \in Packets
        /\ Control("PUBREL", SendId) \in Packets
    BY Zenon, ClientPackets
  <2>b. \/ subscribed /\ sendState = "idle" /\ a = <<>> \o <<>>
        \/ subscribed /\ sendState = "published" /\ a = <<>> \o <<PublishPacket(TRUE)>>
        \/ subscribed /\ sendState = "released" /\ a = <<>> \o <<Control("PUBREL", SendId)>>
        \/ ~subscribed /\ sendState = "idle" /\ a = <<Subscription>> \o <<>>
        \/ ~subscribed /\ sendState = "published" /\ a = <<Subscription>> \o <<PublishPacket(TRUE)>>
        \/ ~subscribed /\ sendState = "released" /\ a = <<Subscription>> \o <<Control("PUBREL", SendId)>>
    BY <2>2, Zenon
  <2>3. a \in Answers(p)
    <3>. HIDE DEF a
    <3>. QED
      BY <1>2, <2>a, <2>b, <2>c, Zenon DEF Answers
  <2>4. ToServer(c, a)
    BY Zenon, <2>1
  <2>. HIDE DEF a
  <2>. QED
    BY <2>3, <2>4
<1>3. CASE p.type = "PUBLISH" /\ OnPublish(c, p)
  <2>1. ToServer(c, <<Control(IF p.qos = 1 THEN "PUBACK" ELSE "PUBREC", p.id)>>)
    BY <1>3 DEF OnPublish
  <2>2. (IF p.qos = 1 THEN "PUBACK" ELSE "PUBREC") \in {"PUBACK", "PUBREC"}
    OBVIOUS
  <2>. QED
    BY <1>3, <1>a, <2>1, <2>2, Zenon
<1>4. CASE p.type = "PUBREL" /\ OnPubrel(c, p)
  BY <1>a, <1>4 DEF OnPubrel
<1>5. CASE p.type = "PUBREC" /\ OnPubrec(c, p)
  BY <1>1, <1>a, <1>5 DEF OnPubrec
<1>6. CASE p.type = "PUBCOMP" /\ OnPubcomp(p)
  BY <1>1, <1>a, <1>6 DEF OnPubcomp
<1>7. CASE p.type = "SUBACK" /\ OnSuback
  BY <1>1, <1>a, <1>7 DEF OnSuback
<1>. QED
  BY <1>2, <1>3, <1>4, <1>5, <1>6, <1>7 DEF ClientRead, p

(* Everything in an answer is a packet, and no UNSUBSCRIBE. *)
LEMMA AnswerPackets ==
    ASSUME ClientTypes, NEW p \in Packets, NEW a \in Answers(p)
    PROVE  a \in Seq(Packets) /\ \A n \in DOMAIN a : Usual(a[n])
<1>1. p.id \in BitIds
  BY DEF Packets, BitIds
<1>2. \A x \in Packets, y \in Packets : Usual(x) /\ Usual(y) =>
         /\ <<x>> \in Seq(Packets) /\ \A n \in DOMAIN <<x>> : Usual(<<x>>[n])
         /\ <<x, y>> \in Seq(Packets) /\ \A n \in DOMAIN <<x, y>> : Usual(<<x, y>>[n])
  OBVIOUS
<1>3. <<>> \in Seq(Packets) /\ DOMAIN <<>> = {}
  OBVIOUS
<1>. HIDE DEF Usual
<1>a. (IF p.type = "PUBLISH" THEN {"PUBACK", "PUBREC"} ELSE {"PUBREL", "PUBCOMP"})
        \subseteq {"PUBACK", "PUBREC", "PUBREL", "PUBCOMP"}
  OBVIOUS
<1>4. \/ a = <<>>
      \/ \E x \in Packets : Usual(x) /\ a = <<x>>
      \/ \E x, y \in Packets : Usual(x) /\ Usual(y) /\ a = <<x, y>>
  BY <1>1, <1>a, ClientPackets, Zenon DEF Answers
<1>. QED
  BY <1>2, <1>3, <1>4, Zenon

(* A prefix of a stream. *)
LEMMA PrefixFacts ==
    ASSUME NEW s \in Seq(Packets), NEW t \in Prefixes(s)
    PROVE  t \in Seq(Packets) /\ \A n \in DOMAIN t : n \in DOMAIN s /\ t[n] = s[n]
<1>1. PICK k \in 0..Len(s) : t = SubSeq(s, 1, k)
  BY DEF Prefixes
<1>. QED
  BY <1>1

(* The client's variables keep their types. *)
LEMMA ClientTypeStep == ASSUME Inv, ClientTypes, [DNext]_allVars PROVE ClientTypes'
<1>. USE DeliveryAssumption, ConstantsAssumption
<1>s. mSendTasks \in [Conns -> Seq(Packets)]
  BY Zenon DEF Inv, TypeOK
<1>t. toServer \in [Conns -> Seq(Packets)]
  BY DEF ClientTypes
<1>u. ASSUME UNCHANGED <<clientVars, toServer>> PROVE ClientTypes'
  BY <1>u DEF ClientTypes, clientVars
<1>1. ASSUME NEW c \in Conns, ClientConnect(c) PROVE ClientTypes'
  <2>1. toServer' \in [Conns -> Seq(Packets)]
    BY <1>1, <1>t, ClientPackets DEF ClientConnect, ToServer
  <2>. QED
    BY Zenon, <1>1, <2>1 DEF ClientConnect, ClientTypes
<1>2. ASSUME NEW c \in Conns, ClientRead(c) PROVE ClientTypes'
  <2>. DEFINE p == Head(mSendTasks[c])
  <2>1. p \in Packets /\ p.id \in BitIds /\ p.msg \in 0..MaxPublish /\ p.qos \in QoS
    <3>1. p \in Packets
      BY <1>2, <1>s, SeqFacts DEF ClientRead
    <3>. QED
      BY <3>1 DEF Packets, BitIds
  <2>2. toServer' \in [Conns -> Seq(Packets)]
    <3>1. PICK a \in Answers(p) : ToServer(c, a)
      BY <1>2, ReadAnswers
    <3>2. a \in Seq(Packets)
      BY <2>1, AnswerPackets
    <3>3. toServer[c] \o a \in Seq(Packets)
      BY <1>t, <3>2
    <3>. QED
      BY <1>t, <3>1, <3>3 DEF ToServer
  <2>3. /\ used' = used /\ conn' = conn /\ sendCount' = sendCount
    BY <1>2 DEF ClientRead
  <2>4. ready' \in BOOLEAN /\ subscribed' \in BOOLEAN
        /\ sendState' \in {"idle", "published", "released"}
    BY Zenon, <1>2 DEF ClientRead, ClientTypes, OnConnack, OnPublish, OnPubrel, OnPubrec, OnPubcomp, OnSuback
  <2>5. received' \in Seq([msg: 0..MaxPublish, qos: QoS]) /\ cIds' \subseteq BitIds
    <3>1. received \in Seq([msg: 0..MaxPublish, qos: QoS]) /\ cIds \subseteq BitIds
      BY DEF ClientTypes
    <3>2. [msg |-> p.msg, qos |-> p.qos] \in [msg: 0..MaxPublish, qos: QoS]
      BY <2>1
    <3>3. Append(received, [msg |-> p.msg, qos |-> p.qos]) \in Seq([msg: 0..MaxPublish, qos: QoS])
      BY <3>1, <3>2
    <3>4. /\ received' = received \/ received' = Append(received, [msg |-> p.msg, qos |-> p.qos])
          /\ cIds' \in {cIds, {}, cIds \cup {p.id}, cIds \ {p.id}}
      BY <1>2 DEF ClientRead, OnConnack, OnPublish, OnPubrel, OnPubrec, OnPubcomp, OnSuback
    <3>. HIDE DEF p
    <3>. QED
      BY Zenon, <2>1, <3>1, <3>3, <3>4
  <2>. QED
    BY <2>2, <2>3, <2>4, <2>5 DEF ClientTypes
<1>3. ASSUME NEW c \in Conns, BreakConnection(c) PROVE ClientTypes'
  <2>1. PICK s \in Prefixes(toServer[c]) : toServer' = [toServer EXCEPT ![c] = s]
    BY Zenon, <1>3 DEF BreakConnection
  <2>2. s \in Seq(Packets)
    BY <1>t, PrefixFacts
  <2>3. toServer' \in [Conns -> Seq(Packets)]
    BY <1>t, <2>1, <2>2
  <2>. QED
    BY Zenon, <1>3, <2>3 DEF BreakConnection, ClientTypes
<1>4. ASSUME ClientPublish PROVE ClientTypes'
  <2>1. sendCount' \in 0..MaxSend /\ conn \in Conns
    BY <1>4 DEF ClientPublish, ClientTypes
  <2>3. SendId' \in BitIds /\ sendCount' \in 0..MaxPublish
    BY <2>1, SidFacts
  <2>4. PICK p \in Packets : p = PublishPacket(FALSE)' /\ p = Packet("PUBLISH", Sid(sendCount'), sendCount', 2, FALSE)
    BY <2>1, SidFacts, Zenon DEF PublishPacket
  <2>5. toServer' \in [Conns -> Seq(Packets)]
    <3>1. toServer' = [toServer EXCEPT ![conn] = @ \o <<p>>]
      BY <1>4, <2>4 DEF ClientPublish, ToServer
    <3>2. toServer[conn] \o <<p>> \in Seq(Packets)
      BY <1>t, <2>1, ConcatProperties
    <3>. QED
      BY Zenon, <1>t, <3>1, <3>2
  <2>. QED
    BY <1>4, <2>1, <2>5 DEF ClientPublish, ClientTypes
<1>6. ASSUME NEW c \in Conns, ServerRead(c) PROVE ClientTypes'
  <2>1. toServer' \in [Conns -> Seq(Packets)]
    BY <1>6, <1>t, SeqFacts DEF ServerRead
  <2>. QED
    BY <1>6, <2>1 DEF ServerRead, ClientTypes, clientVars
<1>7. ASSUME UNCHANGED envVars PROVE ClientTypes'
  BY <1>7, <1>u DEF envVars
<1>8. ASSUME NEW c \in Conns, ServerForward(c) PROVE ClientTypes'
  BY <1>8, <1>u DEF ServerForward
<1>9. ASSUME NEW c \in Conns, ServerTimeout(c) PROVE ClientTypes'
  BY <1>9, <1>u DEF ServerTimeout
<1>10. ASSUME NEW qos \in PublishQoS, ServerPublish(qos) PROVE ClientTypes'
  BY <1>10, <1>u DEF ServerPublish
<1>11. ASSUME UNCHANGED allVars PROVE UNCHANGED envVars
  BY <1>11 DEF allVars
<1>. QED
  BY ZenonT(60), <1>1, <1>2, <1>3, <1>4, <1>6, <1>7, <1>8, <1>9, <1>10, <1>11
  DEF DNext, ConnectionFails, ServerCloses, Accept, ServerReadsEof, ServerHandle, ServerSendError,
      ServerExecute

-----------------------------------------------------------------------------
(* Connections and requests *)

(* What the broker does to the connections: it sends only on those that are        *)
(* logged in, and only for these a receiver leaves its idle state.                 *)
BrokerStep ==
    /\ UNCHANGED <<reading, conn, used, ready>>
    /\ \A c \in Conns : mState[c] = "CONNECTED" => mState'[c] = "CONNECTED"
    /\ \A c \in Conns \ used : mState'[c] = mState[c]
    /\ \A c \in Conns : \/ toServer'[c] = toServer[c]
                        \/ toServer[c] # <<>> /\ toServer'[c] = Tail(toServer[c])
    /\ \A c \in Conns : mSendTasks'[c] # mSendTasks[c] => c \in reading /\ mState'[c] = "CONNECTED"
    /\ \A c \in Conns : recv'[c] # recv[c] => mState'[c] = "CONNECTED"

(* Such a step keeps the order of connection, login and traffic. *)
LEMMA BrokerPeer == ASSUME ClientTypes, PeerInv, BrokerStep PROVE PeerInv'
<1>t. \A c \in Conns : toServer[c] \in Seq(Packets)
  BY DEF ClientTypes
<1>1. \A c \in Conns : \A n \in DOMAIN toServer'[c] :
         \E m \in DOMAIN toServer[c] : toServer'[c][n] = toServer[c][m]
  <2>. TAKE c \in Conns
  <2>1. CASE toServer'[c] = toServer[c]
    BY <2>1
  <2>2. CASE toServer[c] # <<>> /\ toServer'[c] = Tail(toServer[c])
    <3>1. \A n \in DOMAIN Tail(toServer[c]) :
             n + 1 \in DOMAIN toServer[c] /\ Tail(toServer[c])[n] = toServer[c][n + 1]
      BY <1>t, <2>2, SeqFacts
    <3>. QED
      BY <2>2, <3>1
  <2>. QED
    BY <2>1, <2>2 DEF BrokerStep
<1>2. reading' = {conn'} \ {Null} /\ (conn' # Null => conn' \in used')
  BY DEF PeerInv, BrokerStep
<1>3. \A c \in Conns \ used' : mState'[c] = "NONE" /\ toServer'[c] = <<>>
  BY DEF PeerInv, BrokerStep
<1>4. \A c \in Conns : c # conn' => mSendTasks'[c] = <<>>
  BY DEF PeerInv, BrokerStep
<1>5. \A c \in Conns : mState'[c] # "CONNECTED" =>
          /\ mSendTasks'[c] = <<>> /\ recv'[c] = Idle
          /\ \A n \in DOMAIN toServer'[c] : toServer'[c][n].type = "CONNECT"
          /\ conn' = c => ~ready'
  BY <1>1 DEF PeerInv, BrokerStep
<1>. QED
  BY Zenon, <1>2, <1>3, <1>4, <1>5 DEF PeerInv, Idle, NoPkt, Control, Packet

(* Who sends, when sendData is called for connection c. *)
LEMMA SendsOn ==
    ASSUME TypeOK, NEW c \in Conns, NEW s, Send(c, s)
    PROVE  /\ \A d \in Conns : mSendTasks'[d] # mSendTasks[d] => d = c /\ d \in reading
           /\ c \in reading => mSendTasks'[c] = mSendTasks[c] \o s
           /\ c \notin reading => mSendTasks' = mSendTasks
BY ZenonT(60) DEF Send, TypeOK

(* The handlers of a connection's packets. *)
LEMMA HandleBroker ==
    ASSUME BaseInv, NEW c \in Conns, NEW o \in Conns, Handle(c, o),
           UNCHANGED <<reading, conn, used, ready, toServer>>
    PROVE  BrokerStep
<1>. USE DEF connVars
<1>1. TypeOK /\ recv \in [Conns -> [pc: {"idle", "apply", "store", "storeLocked", "forward"},
                           packet: Packets, state: Conns \cup {Null}, word: SUBSET BitIds]]
  BY ZenonT(60) DEF BaseInv, Inv, TypeOK
<1>2. recv[c].pc # "idle" /\ UNCHANGED mState
  BY DEF Handle, HandlePuback, HandlePubrec, HandlePubcomp, StorePubrecBit, HandlePublishQoS2,
         HandlePubrel, HandleSubscribe, HandleUnsubscribe, Applies
<1>3. mState[c] = "CONNECTED"
  BY <1>2 DEF BaseInv, PeerInv, Idle
<1>4. \A d \in Conns : d # c => recv'[d] = recv[d]
  BY <1>1 DEF Handle, HandlePuback, HandlePubrec, HandlePubcomp, StorePubrecBit, HandlePublishQoS2,
         HandlePubrel, HandleSubscribe, HandleUnsubscribe
<1>5. mSendTasks' = mSendTasks \/ \E s : Send(c, s)
  BY DEF Handle, HandlePuback, HandlePubrec, HandlePubcomp, StorePubrecBit, HandlePublishQoS2,
         HandlePubrel, HandleSubscribe, HandleUnsubscribe
<1>6. \A d \in Conns : mSendTasks'[d] # mSendTasks[d] => d = c /\ d \in reading
  BY <1>1, <1>5, SendsOn
<1>. QED
  BY <1>2, <1>3, <1>4, <1>6 DEF BrokerStep

(* The request at the head of the queue. *)
LEMMA HeadRequest ==
    ASSUME BaseInv, mQueue # <<>>
    PROVE  /\ Head(mQueue) \in Requests /\ Tail(mQueue) \in Seq(Requests)
           /\ Head(mQueue).type = "Login" =>
                 /\ Head(mQueue).client \in Conns /\ Head(mQueue).clean = FALSE
                 /\ mState[Head(mQueue).client] = "CONNECTING"
           /\ Head(mQueue).type = "Logout" => Head(mQueue).client \in Conns
           /\ Head(mQueue).type = "Subscribe" =>
                 Sess \in Conns /\ Head(mQueue).state = Sess /\ Head(mQueue).qos = 2
           /\ Head(mQueue).type # "Unsubscribe"
<1>1. mQueue \in Seq(Requests)
  BY Zenon DEF BaseInv, Inv, TypeOK
<1>2. Head(mQueue) \in Requests /\ Tail(mQueue) \in Seq(Requests) /\ Head(mQueue) = mQueue[1] /\ 1 \in DOMAIN mQueue
  BY <1>1, SeqFacts
<1>3. /\ Head(mQueue).type = "Login" => Head(mQueue).client \in Conns /\ Head(mQueue).clean \in BOOLEAN
      /\ Head(mQueue).type = "Logout" => Head(mQueue).client \in Conns
      /\ Head(mQueue).type = "Subscribe" => Head(mQueue).state \in Conns
  BY <1>2 DEF Requests
<1>. QED
  BY <1>2, <1>3 DEF BaseInv, OneSession, Inv, LoginInv

(* Which of its ways the execution of a login takes. *)
LEMMA LoginWays ==
    ASSUME BaseInv, ExecuteLogin
    PROVE  /\ mQueue # <<>> /\ mQueue' = Tail(mQueue) /\ Head(mQueue).type = "Login"
           /\ UNCHANGED <<mWill, mSubscriptions, mGlobalOrderCount, recv, reading>>
           /\ \/ /\ mLoggedOut[Head(mQueue).client]
                 /\ UNCHANGED <<mState, mLoggedOut, mPersistentClientState, mProperClientIdSet,
                                mSendTasks, linkVars, flightVars, mapVars, fault>>
              \/ /\ ~mLoggedOut[Head(mQueue).client] /\ ~Locked(Sess)
                 /\ mState' = [mState EXCEPT ![Head(mQueue).client] = "CONNECTED"]
                 /\ \/ Sess = Null /\ LoginNewSession(Head(mQueue).client, FALSE)
                    \/ Sess \in Conns /\ LoginResumeSession(Head(mQueue).client, Sess)
<1>1. mQueue # <<>> /\ Head(mQueue).type = "Login"
  BY DEF ExecuteLogin
<1>2. Head(mQueue).client \in Conns /\ Head(mQueue).clean = FALSE
  BY Zenon, <1>1, HeadRequest
<1>3. Sess \in Conns \cup {Null} /\ (Sess # Null => ~mCleanSession[Sess])
  BY Zenon DEF BaseInv, OneSession, Inv, TypeOK, Sess
<1>. QED
  BY <1>1, <1>2, <1>3, ZenonT(60) DEF ExecuteLogin, Sess

(* The session stays what it is; only the first login makes one. *)
LEMMA SessKept ==
    ASSUME BaseInv, [AnyNext]_vars
    PROVE  \/ Sess' = Sess /\ (Sess # Null => mCleanSession'[Sess] = FALSE)
           \/ ExecuteLogin /\ Sess = Null /\ LoginNewSession(Head(mQueue).client, FALSE)
<1>. USE ConstantsAssumption
<1>1. TypeOK /\ SessionLink /\ (Sess # Null => ~mCleanSession[Sess])
      /\ mPersistentClientState \in [Conns -> Conns \cup {Null}]
      /\ mCurrentClient \in [Conns -> Conns \cup {Null}]
      /\ mCleanSession \in [Conns -> BOOLEAN] /\ Sess \in Conns \cup {Null}
  BY Zenon DEF BaseInv, Inv, OwnerInv, OneSession, TypeOK, Sess
<1>2. CASE Calm
  BY Zenon, <1>1, <1>2 DEF Calm, Sess, mapVars, linkVars
<1>3. CASE ExecuteLogin
  <2>1. CASE UNCHANGED <<mapVars, linkVars>>
    BY Zenon, <1>1, <2>1 DEF mapVars, linkVars, Sess
  <2>2. CASE Sess \in Conns /\ LoginResumeSession(Head(mQueue).client, Sess)
    BY Zenon, <1>1, <2>2 DEF LoginResumeSession, ReplaceCurrentClient, mapVars, Sess
  <2>. QED
    BY Zenon, <1>3, <2>1, <2>2, LoginWays
<1>4. ASSUME NEW c \in Conns, LogoutClient(c) PROVE Sess' = Sess /\ mCleanSession' = mCleanSession
  <2>1. CASE mPersistentClientState[c] = Null
    BY <1>4, <2>1 DEF LogoutClient, Sess, mapVars
  <2>2. CASE mPersistentClientState[c] # Null
    <3>1. mPersistentClientState[c] = Sess /\ Sess \in Conns
      BY <1>1, <2>2 DEF SessionLink, Sess
    <3>. QED
      BY <1>1, <1>4, <2>2, <3>1 DEF LogoutClient, EraseIfClean, Sess, mapVars
  <2>. QED
    BY <2>1, <2>2
<1>. QED
  BY Zenon, <1>1, <1>2, <1>3, <1>4, StepKinds

(* A logout changes nothing but the links. *)
LEMMA LogoutEffect ==
    ASSUME BaseInv, NEW c \in Conns, LogoutClient(c)
    PROVE  /\ UNCHANGED <<mState, mProperClientIdSet, mSendTasks, mCleanSession, flightVars,
                          mGlobalOrderCount, recv, reading, mSubscriptions, mapVars>>
           /\ \A o \in Conns : mCurrentClient'[o] \in {Null, mCurrentClient[o]}
<1>1. SessionLink /\ (Sess # Null => ~mCleanSession[Sess])
      /\ mPersistentClientState \in [Conns -> Conns \cup {Null}]
      /\ mCurrentClient \in [Conns -> Conns \cup {Null}]
  BY Zenon DEF BaseInv, Inv, OwnerInv, OneSession, TypeOK, Sess
<1>2. UNCHANGED <<mState, mProperClientIdSet, mSendTasks, mCleanSession, flightVars,
                  mGlobalOrderCount, recv, reading>>
  BY DEF LogoutClient
<1>3. CASE mPersistentClientState[c] = Null
  BY <1>1, <1>2, <1>3 DEF LogoutClient
<1>4. CASE mPersistentClientState[c] # Null
  <2>1. mPersistentClientState[c] = Sess /\ Sess \in Conns
    BY <1>1, <1>4, ConstantsAssumption DEF SessionLink, Sess
  <2>2. UNCHANGED <<mSubscriptions, mapVars>>
    BY <1>1, <1>4, <2>1 DEF LogoutClient, EraseIfClean, Sess
  <2>3. \A o \in Conns : mCurrentClient'[o] \in {Null, mCurrentClient[o]}
    BY Zenon, <1>1, <1>4, <2>1 DEF LogoutClient, DropCurrentClient
  <2>. QED
    BY <1>2, <2>2, <2>3
<1>. QED
  BY <1>3, <1>4

(* The steps of the broker, as seen from the connections. *)
LEMMA PeerStep == ASSUME BaseInv, [DNext]_allVars PROVE PeerInv'
<1>. USE DeliveryAssumption, ConstantsAssumption DEF connVars
<1>b. ClientTypes /\ PeerInv /\ TypeOK /\ Inv
  BY DEF BaseInv, Inv
<1>s. mSendTasks \in [Conns -> Seq(Packets)] /\ mState \in [Conns -> {"NONE", "INITIAL", "CONNECTING", "CONNECTED",
                            "INVALID_PROTOCOL_VERSION"}]
  BY Zenon DEF BaseInv, Inv, TypeOK
<1>t. toServer \in [Conns -> Seq(Packets)] /\ conn \in Conns \cup {Null}
  BY DEF BaseInv, ClientTypes
<1>l. ASSUME NEW c \in Conns, mPersistentClientState[c] # Null PROVE mState[c] = "CONNECTED"
  BY <1>l DEF BaseInv, Inv, OwnerInv, MadeInv
<1>1. ASSUME NEW c \in Conns, ClientConnect(c) PROVE PeerInv'
  <2>1. mState[c] = "NONE" /\ toServer[c] = <<>> /\ conn = Null
    BY <1>1, <1>b DEF ClientConnect, PeerInv
  <2>2. toServer' = [toServer EXCEPT ![c] = <<Control("CONNECT", 0)>>]
    <3>1. <<>> \o <<Control("CONNECT", 0)>> = <<Control("CONNECT", 0)>>
      BY <1>b, ClientPackets, ConcatEmptySeq
    <3>. QED
      BY <1>1, <2>1, <3>1 DEF ClientConnect, ToServer
  <2>3. \A n \in DOMAIN <<Control("CONNECT", 0)>> : <<Control("CONNECT", 0)>>[n].type = "CONNECT"
    BY DEF Control, Packet
  <2>. HIDE DEF Control
  <2>. QED
    BY <1>1, <1>b, <1>t, <2>1, <2>2, <2>3 DEF ClientConnect, PeerInv
<1>2. ASSUME NEW c \in Conns, ClientRead(c) PROVE PeerInv'
  <2>1. conn = c /\ mState[c] = "CONNECTED" /\ c \in used
    BY <1>2, <1>b DEF ClientRead, PeerInv
  <2>2. \A d \in Conns : d # c => toServer'[d] = toServer[d] /\ mSendTasks'[d] = mSendTasks[d]
    <3>1. PICK a : ToServer(c, a)
      BY <1>2, <1>b, ReadAnswers
    <3>. QED
      BY <1>2, <1>s, <1>t, <3>1 DEF ClientRead, ToServer
  <2>. QED
    BY <1>2, <1>b, <2>1, <2>2 DEF ClientRead, PeerInv
<1>3. ASSUME NEW c \in Conns, conn = c, BreakConnection(c) PROVE PeerInv'
  <2>1. PICK s \in Prefixes(toServer[c]) : toServer' = [toServer EXCEPT ![c] = s]
    BY Zenon, <1>3 DEF BreakConnection
  <2>2. \A n \in DOMAIN s : n \in DOMAIN toServer[c] /\ s[n] = toServer[c][n]
    BY <1>t, PrefixFacts
  <2>3. c \in used
    BY <1>3, <1>b DEF PeerInv
  <2>. QED
    BY SMTT(60), <1>3, <1>b, <1>s, <1>t, <2>1, <2>2, <2>3 DEF BreakConnection, PeerInv
<1>4. ASSUME ClientPublish PROVE PeerInv'
  <2>1. conn \in Conns /\ mState[conn] = "CONNECTED" /\ conn \in used
    BY <1>4, <1>b, <1>t DEF ClientPublish, PeerInv
  <2>2. \A d \in Conns : d # conn => toServer'[d] = toServer[d]
    BY <1>4, <1>t DEF ClientPublish, ToServer
  <2>. QED
    BY <1>4, <1>b, <2>1, <2>2 DEF ClientPublish, PeerInv, vars
<1>5. ASSUME NEW c \in Conns, Accept(c) PROVE BrokerStep
  BY <1>5, <1>s DEF Accept, AcceptConnection, BrokerStep, envVars, clientVars
<1>6. ASSUME NEW c \in Conns, ServerRead(c) PROVE BrokerStep
  <2>1. c \in used
    BY <1>6, <1>b DEF ServerRead, PeerInv
  <2>2. UNCHANGED <<reading, conn, used, ready, mSendTasks>> /\ toServer[c] # <<>>
        /\ toServer' = [toServer EXCEPT ![c] = Tail(@)]
    BY Zenon, <1>6 DEF ServerRead, RecvConnect, LoadSession, clientVars
  <2>3. CASE RecvConnect(c, FALSE, FALSE)
    BY <1>s, <1>t, <2>1, <2>2, <2>3 DEF RecvConnect, BrokerStep
  <2>4. CASE LoadSession(c, Head(toServer[c]))
    <3>1. \A d \in Conns : recv'[d] # recv[d] => mState[d] = "CONNECTED"
      <4>1. recv \in [Conns -> [pc: {"idle", "apply", "store", "storeLocked", "forward"},
                                packet: Packets, state: Conns \cup {Null}, word: SUBSET BitIds]]
        BY Zenon, <1>b DEF TypeOK
      <4>2. CASE mPersistentClientState[c] = Null
        BY <2>4, <4>2 DEF LoadSession
      <4>3. CASE mPersistentClientState[c] # Null
        BY <1>l, <2>4, <4>1, <4>3 DEF LoadSession
      <4>. QED
        BY <4>2, <4>3
    <3>. QED
      BY <1>s, <1>t, <2>1, <2>2, <2>4, <3>1 DEF LoadSession, BrokerStep
  <2>. QED
    BY Zenon, <1>6, <2>3, <2>4 DEF ServerRead
<1>7. ASSUME NEW c \in Conns, ServerReadsEof(c) PROVE BrokerStep
  BY <1>7 DEF ServerReadsEof, RecvError, BrokerStep, envVars, clientVars
<1>8. ASSUME NEW c \in Conns, ServerHandle(c) PROVE BrokerStep
  <2>1. PICK o \in Conns : Handle(c, o)
    BY SMTT(60), <1>8 DEF ServerHandle
  <2>2. UNCHANGED reading
    BY <2>1 DEF Handle, HandlePuback, HandlePubrec, HandlePubcomp, StorePubrecBit, HandlePublishQoS2,
         HandlePubrel, HandleSubscribe, HandleUnsubscribe
  <2>. QED
    BY <1>8, <2>1, <2>2, HandleBroker DEF ServerHandle, envVars, clientVars
<1>9. ASSUME NEW c \in Conns, ServerForward(c) PROVE BrokerStep
  <2>1. mState[c] = "CONNECTED"
    BY <1>9, <1>b DEF ServerForward, Forward, PeerInv, Idle
  <2>2. \A d \in Conns : d # c => recv'[d] = recv[d]
    BY Zenon, <1>9, <1>b DEF ServerForward, Forward, TypeOK
  <2>. QED
    BY <1>9, <2>1, <2>2 DEF ServerForward, Forward, BrokerStep, clientVars
<1>10. ASSUME NEW c \in Conns, LogoutClient(c), UNCHANGED <<clientVars, toServer>> PROVE BrokerStep
  BY <1>10, LogoutEffect DEF BrokerStep, clientVars
<1>11. ASSUME ExecuteLogin, UNCHANGED envVars PROVE BrokerStep
  <2>. DEFINE c == Head(mQueue).client
  <2>1. mQueue # <<>> /\ Head(mQueue).type = "Login"
    BY <1>11 DEF ExecuteLogin
  <2>2. c \in Conns /\ mState[c] = "CONNECTING"
    BY Zenon, <2>1, HeadRequest
  <2>3. c \in used
    BY <1>b, <2>2 DEF PeerInv
  <2>4. UNCHANGED <<recv, reading, conn, used, ready, toServer>>
    BY <1>11 DEF ExecuteLogin, envVars, clientVars
  <2>5. CASE UNCHANGED <<mState, mSendTasks>>
    BY <2>4, <2>5 DEF BrokerStep
  <2>6. CASE mState' = [mState EXCEPT ![c] = "CONNECTED"] /\ \E s : Send(c, s)
    <3>. HIDE DEF c
    <3>1. \A d \in Conns : mSendTasks'[d] # mSendTasks[d] => d = c /\ d \in reading
      BY <1>b, <2>2, <2>6, SendsOn
    <3>. QED
      BY <1>s, <2>2, <2>3, <2>4, <2>6, <3>1 DEF BrokerStep
  <2>. QED
    BY Zenon, <1>11, <2>5, <2>6, LoginWays DEF LoginNewSession, LoginResumeSession
<1>12. ASSUME NEW subs \in SUBSET Conns, NEW q, NEW m, Deliver(subs, q, m),
              UNCHANGED <<connVars, recv, reading, clientVars, toServer>>
       PROVE  BrokerStep
  <2>1. \A c \in Conns : mSendTasks'[c] # mSendTasks[c] => c \in reading /\ \E o \in subs : mCurrentClient[o] = c
    BY Zenon, <1>12, <1>s DEF Deliver
  <2>2. \A o, c \in Conns : mCurrentClient[o] = c => mPersistentClientState[c] # Null
    BY DEF BaseInv, Inv, OwnerInv, SessionLink
  <2>. QED
    BY <1>12, <1>l, <2>1, <2>2 DEF BrokerStep, clientVars
<1>13. ASSUME ServerExecute PROVE BrokerStep
  <2>1. CASE ExecuteLogin
    BY <1>13, <1>11, <2>1 DEF ServerExecute
  <2>2. CASE ExecuteLogout
    <3>1. mQueue # <<>> /\ Head(mQueue).type = "Logout"
      BY <2>2 DEF ExecuteLogout
    <3>2. Head(mQueue).client \in Conns
      BY <3>1, HeadRequest
    <3>3. CASE LogoutClient(Head(mQueue).client)
      BY <1>13, <1>10, <3>2, <3>3 DEF ServerExecute, envVars
    <3>. QED
      BY <1>13, <2>2, <3>3 DEF ServerExecute, ExecuteLogout, BrokerStep, envVars, clientVars
  <2>3. CASE ExecuteSubscribe
    <3>1. mQueue # <<>> /\ Head(mQueue).type = "Subscribe"
      BY <2>3 DEF ExecuteSubscribe
    <3>2. {Head(mQueue).state} \in SUBSET Conns
      BY <3>1, HeadRequest
    <3>3. CASE UNCHANGED mSendTasks
      BY <1>13, <2>3, <3>3 DEF ServerExecute, ExecuteSubscribe, BrokerStep, envVars, clientVars
    <3>4. UNCHANGED <<connVars, recv, reading, clientVars, toServer>>
      BY <1>13, <2>3 DEF ServerExecute, ExecuteSubscribe, envVars
    <3>5. UNCHANGED mSendTasks \/ \E q, m : Deliver({Head(mQueue).state}, q, m)
      BY <2>3, Zenon DEF ExecuteSubscribe
    <3>. QED
      BY <1>12, <3>2, <3>3, <3>4, <3>5, Zenon
  <2>4. CASE ExecuteUnsubscribe
    BY <1>13, <2>4 DEF ServerExecute, ExecuteUnsubscribe, BrokerStep, envVars, clientVars
  <2>. QED
    BY <1>13, <2>1, <2>2, <2>3, <2>4 DEF ServerExecute, Execute
<1>14. ASSUME NEW qos \in PublishQoS, ServerPublish(qos) PROVE BrokerStep
  <2>1. \E q, m : Deliver(Subscribers, q, m)
    BY <1>14, Zenon DEF ServerPublish, Publish
  <2>2. UNCHANGED <<connVars, recv, reading, clientVars, toServer>>
    BY <1>14 DEF ServerPublish, Publish
  <2>3. Subscribers \in SUBSET Conns
    BY DEF Subscribers
  <2>. QED
    BY <1>12, <2>1, <2>2, <2>3, Zenon
<1>15. ASSUME NEW c \in Conns, ServerTimeout(c) PROVE BrokerStep
  BY <1>10, <1>15, Zenon DEF ServerTimeout, TimeoutLogout
<1>16. ASSUME NEW c \in Conns, ServerSendError(c) PROVE BrokerStep
  BY <1>10, <1>16 DEF ServerSendError, SendErrorLogout, envVars
<1>17. ASSUME UNCHANGED allVars PROVE BrokerStep
  BY <1>17 DEF allVars, vars, envVars, clientVars, BrokerStep
<1>18. BrokerStep => PeerInv'
  BY <1>b, BrokerPeer
<1>. QED
  BY ZenonT(60), <1>1, <1>2, <1>3, <1>4, <1>5, <1>6, <1>7, <1>8, <1>9, <1>13, <1>14, <1>15, <1>16, <1>17, <1>18
  DEF DNext, ConnectionFails, ServerCloses


\* A request that fits the one session
Fits(r) ==
    /\ r.type = "Login" => ~r.clean
    /\ r.type = "Subscribe" => r.state = Sess /\ r.qos = 2
    /\ r.type # "Unsubscribe"

(* What a step does to the packets, the requests and the subscription. *)
OnTrack ==
    /\ \A c \in Conns : Usual(recv'[c].packet) /\ \A n \in DOMAIN toServer'[c] : Usual(toServer'[c][n])
    /\ \/ mQueue' = mQueue
       \/ mQueue # <<>> /\ mQueue' = Tail(mQueue)
       \/ \E r \in Requests : Fits(r) /\ mQueue' = Append(mQueue, r)
    /\ mSubscriptions' = mSubscriptions \/ (Sess \in Conns /\ mSubscriptions' = [mSubscriptions EXCEPT ![Sess] = 2])

(* The handlers keep to the one session. *)
LEMMA HandleTrack ==
    ASSUME BaseInv, NEW c \in Conns, NEW o \in Conns, Handle(c, o), UNCHANGED toServer
    PROVE  OnTrack /\ o = Sess
<1>1. recv \in [Conns -> [pc: {"idle", "apply", "store", "storeLocked", "forward"},
                           packet: Packets, state: Conns \cup {Null}, word: SUBSET BitIds]]
  BY Zenon DEF BaseInv, Inv, TypeOK
<1>2. recv[c].state = o
  BY DEF Handle, HandlePuback, HandlePubrec, HandlePubcomp, StorePubrecBit, HandlePublishQoS2,
         HandlePubrel, HandleSubscribe, HandleUnsubscribe, Applies
<1>3. o = Sess
  BY <1>2, ConstantsAssumption DEF BaseInv, OneSession
<1>4. \A d \in Conns : Usual(recv[d].packet) /\ \A n \in DOMAIN toServer[d] : Usual(toServer[d][n])
  BY DEF BaseInv, OneSession
<1>5. Usual(NoPkt)
  BY DEF Usual, NoPkt, Control, Packet
<1>6. \A d \in Conns : recv'[d].packet = NoPkt \/ recv'[d].packet = recv[d].packet
  <2>1. CASE recv' = [recv EXCEPT ![c] = Idle]
    BY <1>1, <2>1 DEF Idle
  <2>2. CASE HandlePubrec(c, o)
    <3>1. PICK pc : recv' = [recv EXCEPT ![c].word = mQos2pubrecReceived[o], ![c].pc = pc]
      BY <2>2 DEF HandlePubrec
    <3>. QED
      BY <3>1, <1>1
  <2>3. CASE HandlePubcomp(c, o)
    BY <1>1, <2>3 DEF HandlePubcomp
  <2>4. CASE HandlePublishQoS2(c, o)
    BY <1>1, <2>4 DEF HandlePublishQoS2, Idle
  <2>. QED
    BY <2>1, <2>2, <2>3, <2>4 DEF Handle, HandlePuback, StorePubrecBit, HandlePubrel, HandleSubscribe,
       HandleUnsubscribe
<1>7. \/ mQueue' = mQueue
      \/ \E r \in Requests : Fits(r) /\ mQueue' = Append(mQueue, r)
  <2>1. CASE HandleSubscribe(c, o)
    <3>. DEFINE r == SubscribeRequest(o, recv[c].packet.qos)
    <3>1. recv[c].packet.type = "SUBSCRIBE" /\ mQueue' = Append(mQueue, r)
      BY <2>1 DEF HandleSubscribe, Applies, RequestChange
    <3>2. recv[c].packet.qos = 2
      BY <1>4, <3>1 DEF Usual
    <3>3. r \in Requests /\ Fits(r)
      BY <1>3, <3>2 DEF Requests, SubscribeRequest, Fits, QoS
    <3>. QED
      BY <3>1, <3>3
  <2>2. CASE HandleUnsubscribe(c, o)
    BY <1>4, <2>2 DEF HandleUnsubscribe, Applies, Usual
  <2>. QED
    BY <2>1, <2>2 DEF Handle, HandlePuback, HandlePubrec, HandlePubcomp, StorePubrecBit,
         HandlePublishQoS2, HandlePubrel
<1>8. mSubscriptions' = mSubscriptions
  BY DEF Handle, HandlePuback, HandlePubrec, HandlePubcomp, StorePubrecBit, HandlePublishQoS2,
         HandlePubrel, HandleSubscribe, HandleUnsubscribe, appVars
<1>9. \A d \in Conns : Usual(recv'[d].packet)
  BY <1>4, <1>5, <1>6
<1>. QED
  BY <1>3, <1>4, <1>7, <1>8, <1>9 DEF OnTrack

(* Every step is on track. *)
LEMMA TrackStep == ASSUME BaseInv, [DNext]_allVars PROVE OnTrack
<1>. USE DeliveryAssumption, ConstantsAssumption DEF appVars
<1>b. ClientTypes /\ TypeOK /\ OneSession
  BY DEF BaseInv, Inv
<1>t. toServer \in [Conns -> Seq(Packets)]
  BY <1>b DEF ClientTypes
<1>r. recv \in [Conns -> [pc: {"idle", "apply", "store", "storeLocked", "forward"},
                           packet: Packets, state: Conns \cup {Null}, word: SUBSET BitIds]]
  BY Zenon, <1>b DEF TypeOK
<1>o. /\ \A c \in Conns : Usual(recv[c].packet)
      /\ \A c \in Conns : \A n \in DOMAIN toServer[c] : Usual(toServer[c][n])
  BY <1>b DEF OneSession
<1>u. ASSUME UNCHANGED <<toServer, recv, mQueue, mSubscriptions>> PROVE OnTrack
  BY <1>u, <1>o DEF OnTrack
<1>l. \A c \in Conns : LogoutRequest(c) \in Requests /\ Fits(LogoutRequest(c))
  BY DEF LogoutRequest, Requests, Fits
<1>a. ASSUME NEW c \in Conns, NEW a \in Seq(Packets), \A n \in DOMAIN a : Usual(a[n]),
             toServer' = [toServer EXCEPT ![c] = @ \o a]
      PROVE  \A d \in Conns : \A n \in DOMAIN toServer'[d] : Usual(toServer'[d][n])
  <2>. HIDE DEF Usual
  <2>1. \A n \in DOMAIN (toServer[c] \o a) : Usual((toServer[c] \o a)[n])
    <3>. DEFINE s == toServer[c]
    <3>1. s \in Seq(Packets) /\ \A n \in DOMAIN s : Usual(s[n])
      BY <1>t, <1>o
    <3>. HIDE DEF s
    <3>2. \A n \in DOMAIN (s \o a) : Usual((s \o a)[n])
      <4>. TAKE n \in DOMAIN (s \o a)
      <4>1. n \in 1..(Len(s) + Len(a))
        BY <3>1, <1>a
      <4>2. CASE n \in 1..Len(s)
        BY <3>1, <1>a, <4>2
      <4>3. CASE n - Len(s) \in 1..Len(a)
        BY <3>1, <1>a, <4>3
      <4>. QED
        BY <3>1, <1>a, <4>1, <4>2, <4>3
    <3>. QED
      BY <3>2 DEF s
  <2>. QED
    BY <1>a, <1>t, <1>o, <2>1
<1>1. ASSUME NEW c \in Conns, ClientConnect(c) PROVE OnTrack
  <2>1. Control("CONNECT", 0) \in Packets /\ Usual(Control("CONNECT", 0))
    BY <1>b, ClientPackets
  <2>2. <<Control("CONNECT", 0)>> \in Seq(Packets)
        /\ \A n \in DOMAIN <<Control("CONNECT", 0)>> : Usual(<<Control("CONNECT", 0)>>[n])
    BY <2>1
  <2>3. \A d \in Conns : \A n \in DOMAIN toServer'[d] : Usual(toServer'[d][n])
    BY Zenon, <1>1, <1>a, <2>2 DEF ClientConnect, ToServer
  <2>. QED
    BY <1>1, <1>o, <2>3 DEF ClientConnect, OnTrack
<1>2. ASSUME NEW c \in Conns, ClientRead(c) PROVE OnTrack
  <2>1. Head(mSendTasks[c]) \in Packets
    <3>1. mSendTasks[c] \in Seq(Packets) /\ mSendTasks[c] # <<>>
      BY Zenon, <1>2, <1>b DEF ClientRead, TypeOK
    <3>. QED
      BY <3>1, SeqFacts
  <2>2. PICK a \in Answers(Head(mSendTasks[c])) : ToServer(c, a)
    BY <1>2, <1>b, ReadAnswers
  <2>3. a \in Seq(Packets) /\ \A n \in DOMAIN a : Usual(a[n])
    BY <1>b, <2>1, AnswerPackets
  <2>4. \A d \in Conns : \A n \in DOMAIN toServer'[d] : Usual(toServer'[d][n])
    BY Zenon, <1>a, <2>2, <2>3 DEF ToServer
  <2>. QED
    BY <1>2, <1>o, <2>4 DEF ClientRead, OnTrack
<1>3. ASSUME NEW c \in Conns, BreakConnection(c) PROVE OnTrack
  <2>1. PICK s \in Prefixes(toServer[c]) : toServer' = [toServer EXCEPT ![c] = s]
    BY Zenon, <1>3 DEF BreakConnection
  <2>2. \A n \in DOMAIN s : n \in DOMAIN toServer[c] /\ s[n] = toServer[c][n]
    BY <1>t, PrefixFacts
  <2>. QED
    BY <1>3, <1>o, <1>t, <2>1, <2>2 DEF BreakConnection, OnTrack
<1>4. ASSUME ClientPublish PROVE OnTrack
  <2>1. sendCount' \in 0..MaxSend /\ conn \in Conns
    BY <1>4, <1>b DEF ClientPublish, ClientTypes
  <2>2. PICK p \in Packets : p = PublishPacket(FALSE)' /\ p = Packet("PUBLISH", Sid(sendCount'), sendCount', 2, FALSE)
    BY <2>1, SidFacts, Zenon DEF PublishPacket
  <2>3. Usual(p)
    <3>1. p = Packet("PUBLISH", Sid(sendCount'), sendCount', 2, FALSE)
      BY Zenon, <2>2
    <3>2. p.type = "PUBLISH"
      BY <3>1 DEF Packet
    <3>. QED
      BY <3>2 DEF Usual
  <2>4. <<p>> \in Seq(Packets) /\ \A n \in DOMAIN <<p>> : Usual(<<p>>[n])
    BY <2>3
  <2>5. toServer' = [toServer EXCEPT ![conn] = @ \o <<p>>]
    BY <1>4, <2>2 DEF ClientPublish, ToServer
  <2>6. \A d \in Conns : \A n \in DOMAIN toServer'[d] : Usual(toServer'[d][n])
    BY Zenon, <1>a, <2>1, <2>4, <2>5
  <2>. QED
    BY <1>4, <1>o, <2>6 DEF ClientPublish, OnTrack, vars
<1>5. ASSUME NEW c \in Conns, Accept(c) PROVE OnTrack
  BY <1>5, <1>u DEF Accept, AcceptConnection, envVars
<1>6. ASSUME NEW c \in Conns, ServerRead(c) PROVE OnTrack
  <2>1. /\ toServer[c] # <<>> /\ toServer' = [toServer EXCEPT ![c] = Tail(@)]
        /\ mSubscriptions' = mSubscriptions
    BY Zenon, <1>6 DEF ServerRead, RecvConnect, LoadSession
  <2>2. \A n \in DOMAIN Tail(toServer[c]) : n + 1 \in DOMAIN toServer[c] /\ Tail(toServer[c])[n] = toServer[c][n + 1]
    BY <1>t, <2>1, SeqFacts
  <2>3. \A d \in Conns : \A n \in DOMAIN toServer'[d] : Usual(toServer'[d][n])
    <3>. HIDE DEF Usual
    <3>. QED
      BY <1>o, <1>t, <2>1, <2>2
  <2>4. Usual(Head(toServer[c]))
    BY <1>o, <1>t, <2>1, SeqFacts
  <2>5. CASE RecvConnect(c, FALSE, FALSE)
    <3>1. LoginRequest(c, FALSE) \in Requests /\ Fits(LoginRequest(c, FALSE))
      BY DEF LoginRequest, Requests, Fits
    <3>. QED
      BY Zenon, <1>o, <2>1, <2>3, <2>5, <3>1 DEF RecvConnect, RequestChange, OnTrack
  <2>6. CASE LoadSession(c, Head(toServer[c]))
    <3>1. CASE mPersistentClientState[c] = Null
      BY <1>l, <1>o, <2>1, <2>3, <2>6, <3>1 DEF LoadSession, RequestChange, OnTrack
    <3>2. CASE mPersistentClientState[c] # Null
      <4>. DEFINE p == Head(toServer[c])
      <4>1. /\ recv' = [recv EXCEPT ![c] = [pc |-> "apply", packet |-> p,
                                              state |-> mPersistentClientState[c], word |-> {}]]
            /\ mQueue' = mQueue
        BY <2>6, <3>2 DEF LoadSession
      <4>. HIDE DEF p
      <4>2. \A d \in Conns : recv'[d].packet = p \/ recv'[d].packet = recv[d].packet
        BY <4>1, <1>r
      <4>3. \A d \in Conns : Usual(recv'[d].packet)
        BY <1>o, <2>4, <4>2 DEF p
      <4>. QED
        BY <2>1, <2>3, <4>1, <4>3 DEF OnTrack
    <3>. QED
      BY <3>1, <3>2
  <2>. QED
    BY Zenon, <1>6, <2>5, <2>6 DEF ServerRead
<1>7. ASSUME NEW c \in Conns, ServerReadsEof(c) PROVE OnTrack
  BY <1>7, <1>l, <1>o DEF ServerReadsEof, RecvError, RequestChange, OnTrack, envVars
<1>8. ASSUME NEW c \in Conns, ServerHandle(c) PROVE OnTrack
  BY <1>8, HandleTrack DEF ServerHandle, envVars
<1>9. ASSUME NEW c \in Conns, ServerForward(c) PROVE OnTrack
  <2>1. \A d \in Conns : recv'[d].packet = NoPkt \/ recv'[d].packet = recv[d].packet
    BY <1>9, <1>r DEF ServerForward, Forward, Idle
  <2>2. Usual(NoPkt)
    BY DEF Usual, NoPkt, Control, Packet
  <2>. QED
    BY <1>9, <1>o, <2>1, <2>2 DEF ServerForward, Forward, OnTrack
<1>10. ASSUME NEW c \in Conns, LogoutClient(c), UNCHANGED toServer,
              mQueue' = mQueue \/ (mQueue # <<>> /\ mQueue' = Tail(mQueue))
       PROVE OnTrack
  BY <1>10, <1>o, LogoutEffect DEF OnTrack
<1>11. ASSUME ServerExecute PROVE OnTrack
  <2>e. toServer' = toServer
    BY <1>11 DEF ServerExecute, envVars
  <2>1. CASE ExecuteLogin
    BY <1>o, <2>e, <2>1, LoginWays DEF OnTrack
  <2>2. CASE ExecuteLogout
    <3>1. mQueue # <<>> /\ Head(mQueue).type = "Logout" /\ mQueue' = Tail(mQueue)
      BY <2>2 DEF ExecuteLogout
    <3>2. Head(mQueue).client \in Conns
      BY <3>1, HeadRequest
    <3>3. CASE LogoutClient(Head(mQueue).client)
      BY <1>10, <2>e, <3>1, <3>2, <3>3
    <3>. QED
      BY <1>o, <2>2, <2>e, <3>1, <3>3 DEF ExecuteLogout, OnTrack
  <2>3. CASE ExecuteSubscribe
    <3>1. mQueue # <<>> /\ Head(mQueue).type = "Subscribe" /\ mQueue' = Tail(mQueue)
          /\ recv' = recv
      BY <2>3 DEF ExecuteSubscribe
    <3>2. Sess \in Conns /\ Head(mQueue).state = Sess /\ Head(mQueue).qos = 2
      BY <3>1, HeadRequest
    <3>3. AddSubscription(Sess, 2)
      BY <2>3, <3>2 DEF ExecuteSubscribe
    <3>4. mSubscriptions[Sess] \in {NoSub, 2}
      BY <1>b, <3>2 DEF OneSession
    <3>5. mSubscriptions' = [mSubscriptions EXCEPT ![Sess] = 2]
      BY Zenon, <3>3, <3>4 DEF AddSubscription
    <3>. QED
      BY <1>o, <2>e, <3>1, <3>2, <3>5 DEF OnTrack
  <2>4. CASE ExecuteUnsubscribe
    BY <2>4, HeadRequest DEF ExecuteUnsubscribe
  <2>. QED
    BY <1>11, <2>1, <2>2, <2>3, <2>4 DEF ServerExecute, Execute
<1>12. ASSUME NEW qos \in PublishQoS, ServerPublish(qos) PROVE OnTrack
  BY <1>12, <1>u DEF ServerPublish, Publish
<1>13. ASSUME NEW c \in Conns, ServerTimeout(c) PROVE OnTrack
  <2>1. LogoutClient(c) /\ UNCHANGED toServer /\ mQueue' = mQueue
    BY <1>13 DEF ServerTimeout, TimeoutLogout
  <2>. QED
    BY <1>10, <2>1
<1>14. ASSUME NEW c \in Conns, ServerSendError(c) PROVE OnTrack
  <2>1. LogoutClient(c) /\ UNCHANGED toServer /\ mQueue' = mQueue
    BY <1>14 DEF ServerSendError, SendErrorLogout, envVars
  <2>. QED
    BY <1>10, <2>1
<1>15. ASSUME UNCHANGED allVars PROVE OnTrack
  BY <1>15, <1>u DEF allVars, vars, envVars
<1>. QED
  BY ZenonT(60), <1>1, <1>2, <1>3, <1>4, <1>5, <1>6, <1>7, <1>8, <1>9, <1>11, <1>12, <1>13, <1>14, <1>15
  DEF DNext, ConnectionFails, ServerCloses

(* There stays one session. *)
LEMMA OneSessionStep == ASSUME BaseInv, [DNext]_allVars PROVE OneSession'
<1>. USE ConstantsAssumption
<1>b. Inv /\ ClientTypes /\ TypeOK /\ OneSession /\ SessionLink
  BY DEF BaseInv, Inv, OwnerInv
<1>t. /\ Sess \in Conns \cup {Null} /\ mQueue \in Seq(Requests)
      /\ mSubscriptions \in [Conns -> QoS \cup {NoSub}]
  BY Zenon, <1>b DEF TypeOK, Sess
<1>1. OnTrack
  BY TrackStep
<1>2. \/ Sess' = Sess /\ (Sess # Null => mCleanSession'[Sess] = FALSE)
      \/ Sess = Null /\ ExecuteLogin /\ LoginNewSession(Head(mQueue).client, FALSE)
  <2>1. CASE ClientStep
    <3>1. mCleanSession \in [Conns -> BOOLEAN]
      BY Zenon, <1>b DEF TypeOK
    <3>. QED
      BY Zenon, <1>b, <1>t, <2>1, <3>1 DEF ClientStep, OneSession, Sess, linkVars, appVars, mapVars
  <2>. QED
    BY Zenon, <1>b, <2>1, DSteps, SessKept
<1>3. CASE Sess = Null /\ ExecuteLogin /\ LoginNewSession(Head(mQueue).client, FALSE)
  <2>1. Head(mQueue).client \in Conns
    BY Zenon, <1>3, HeadRequest DEF ExecuteLogin
  <2>2. UNCHANGED <<mSubscriptions, recv>> /\ mQueue # <<>> /\ mQueue' = Tail(mQueue)
    BY <1>3, LoginWays
  <2>3. Sess' = Head(mQueue).client /\ mCleanSession'[Head(mQueue).client] = FALSE
    <3>1. mCleanSession \in [Conns -> BOOLEAN]
      BY Zenon, <1>b DEF TypeOK
    <3>. QED
      BY Zenon, <1>3, <2>1, <3>1 DEF LoginNewSession, ReplaceCurrentClient, Sess
  <2>4. \A n \in DOMAIN Tail(mQueue) : n + 1 \in DOMAIN mQueue /\ Tail(mQueue)[n] = mQueue[n + 1]
    BY <1>t, <2>2, SeqFacts
  <2>5. \A n \in DOMAIN mQueue : mQueue[n].type # "Subscribe"
    <3>. TAKE n \in DOMAIN mQueue
    <3>1. mQueue[n] \in Requests
      BY <1>t
    <3>2. mQueue[n].type = "Subscribe" => mQueue[n].state \in Conns
      BY <3>1 DEF Requests
    <3>. QED
      BY <1>3, <1>b, <3>2 DEF OneSession
  <2>6. \A c \in Conns : recv[c].state = Null
    BY <1>3, <1>b DEF OneSession
  <2>7. \A o \in Conns : mSubscriptions[o] = NoSub
    BY <1>3, <1>b DEF OneSession
  <2>. QED
    BY <1>1, <1>b, <2>2, <2>3, <2>4, <2>5, <2>6, <2>7 DEF OneSession, OnTrack
<1>4. CASE Sess' = Sess /\ (Sess # Null => mCleanSession'[Sess] = FALSE)
  <2>1. \A c \in Conns : recv'[c].state \in {Null, Sess}
    <3>1. \A c \in Conns : recv'[c].state \in {Null, recv[c].state, mPersistentClientState[c]}
      <4>1. CASE recv' = recv
        BY <4>1
      <4>2. CASE Calm
        BY Zenon, <4>2 DEF Calm
      <4>3. CASE \E c \in Conns : LogoutClient(c)
        BY <4>1, <4>3, LogoutEffect
      <4>4. CASE ExecuteLogin
        BY <4>1, <4>4, LoginWays
      <4>. QED
        BY <1>b, <4>1, <4>2, <4>3, <4>4, DSteps, StepKinds DEF ClientStep
    <3>2. \A c \in Conns : mPersistentClientState[c] \in {Null, Sess}
      <4>1. mPersistentClientState \in [Conns -> Conns \cup {Null}]
        BY Zenon, <1>b DEF TypeOK
      <4>. QED
        BY <1>b, <4>1 DEF SessionLink, Sess
    <3>. QED
      BY <1>b, <3>1, <3>2 DEF OneSession
  <2>2. \A n \in DOMAIN mQueue' : Fits(mQueue'[n])
    <3>1. \A n \in DOMAIN mQueue : Fits(mQueue[n])
      BY <1>b DEF OneSession, Fits
    <3>2. CASE mQueue # <<>> /\ mQueue' = Tail(mQueue)
      <4>1. \A n \in DOMAIN Tail(mQueue) : n + 1 \in DOMAIN mQueue /\ Tail(mQueue)[n] = mQueue[n + 1]
        BY <1>t, <3>2, SeqFacts
      <4>. QED
        BY <3>1, <3>2, <4>1
    <3>3. ASSUME NEW r \in Requests, Fits(r), mQueue' = Append(mQueue, r)
          PROVE \A n \in DOMAIN mQueue' : Fits(mQueue'[n])
      <4>. HIDE DEF Fits
      <4>. QED
        BY <1>t, <3>1, <3>3
    <3>. QED
      BY <1>1, <3>1, <3>2, <3>3 DEF OnTrack
  <2>3. \A o \in Conns : mSubscriptions'[o] # NoSub => o = Sess /\ mSubscriptions'[o] = 2
    BY <1>1, <1>b, <1>t DEF OnTrack, OneSession
  <2>. QED
    BY <1>1, <1>4, <2>1, <2>2, <2>3 DEF OneSession, OnTrack, Fits
<1>. QED
  BY Zenon, <1>2, <1>3, <1>4

(* The invariant so far holds initially. *)
LEMMA BaseInit == DInit => BaseInv
<1>. SUFFICES ASSUME DInit PROVE BaseInv
  OBVIOUS
<1>. USE DeliveryAssumption, ConstantsAssumption
<1>1. Inv
  BY InitInv DEF DInit
<1>2. ClientTypes
  <2>1. <<>> \in Seq(Packets) /\ <<>> \in Seq([msg: 0..MaxPublish, qos: QoS])
    OBVIOUS
  <2>2. 0 \in 0..MaxSend
    OBVIOUS
  <2>. QED
    BY Zenon, <2>1, <2>2 DEF DInit, ClientTypes
<1>3. PeerInv
  BY DEF DInit, Init, PeerInv, Idle
<1>4. OneSession
  BY DEF DInit, Init, OneSession, Sess, Idle, NoPkt, Control, Packet, Usual
<1>. QED
  BY <1>1, <1>2, <1>3, <1>4 DEF BaseInv

(* Every step keeps it. *)
LEMMA BaseStep == ASSUME BaseInv, [DNext]_allVars PROVE BaseInv'
<1>1. Inv' /\ ClientTypes'
  BY SessionStep, ClientTypeStep DEF BaseInv
<1>. QED
  BY <1>1, PeerStep, OneSessionStep DEF BaseInv

-----------------------------------------------------------------------------
(* The steps that matter for delivery, and all others *)

\* Packets to the client, and to the broker, that have no part in delivery
Plain(p) == p.type \notin {"PUBLISH", "PUBREL", "CONNACK"}
Mild(p) == p.type \notin {"PUBACK", "PUBREC"}

\* The stream to connection c loses nothing but plain packets, unless it breaks
KeepsStream(c) ==
    \/ mSendTasks'[c] = mSendTasks[c]
    \/ mSendTasks'[c] = <<>> /\ conn' # c
    \/ \E p \in Packets : Plain(p) /\ mSendTasks'[c] = Append(mSendTasks[c], p)
    \/ mSendTasks[c] # <<>> /\ Plain(Head(mSendTasks[c])) /\ mSendTasks'[c] = Tail(mSendTasks[c])

\* A packet from connection c is an old one, or does not acknowledge anything
Passed(c, p) ==
    Mild(p) \/ p = recv[c].packet \/ \E n \in DOMAIN toServer[c] : p = toServer[c][n]
OldAnswers ==
    \A c \in Conns : Passed(c, recv'[c].packet) /\ \A n \in DOMAIN toServer'[c] : Passed(c, toServer'[c][n])

\* Where a bit of mQos2pubrecReceived may come from: from the bitset, or from a
\* receiver that is about to write it
MayBeBit(i) ==
    \/ Sess # Null /\ i \in mQos2pubrecReceived[Sess]
    \/ \E c \in Conns : /\ Storing(c)
                        /\ i \in recv[c].word \/ (recv[c].packet.type = "PUBREC" /\ i = recv[c].packet.id)
OldBits ==
    /\ Sess' # Null => \A i \in mQos2pubrecReceived'[Sess'] : MayBeBit(i)
    /\ \A c \in Conns : Storing(c)' => \A i \in recv'[c].word : MayBeBit(i)
OldStores ==
    \A c \in Conns : Storing(c)' /\ recv'[c].packet.type = "PUBREC" =>
        Storing(c) /\ recv[c].packet = recv'[c].packet

\* The client's connection is the session's
Attached(c) == Sess # Null /\ conn = c /\ mCurrentClient[Sess] = c

coreVars == <<mPersistentClientStates, mPacketIdCounter, mGlobalOrderCount, mHighQoSSendingPackets,
              promised>>

Routine ==
    /\ UNCHANGED <<coreVars, received, cIds>>
    /\ Subscribers # {} => Subscribers' # {}
    /\ \A c \in Conns : KeepsStream(c)
    /\ \A c \in Conns : Attached(c)' => Attached(c)
    /\ OldAnswers /\ OldBits /\ OldStores

\* The steps that are not routine, apart from the client's and the publishers'
Acknowledges(c) ==
    /\ UNCHANGED envVars /\ Sess \in Conns
    /\ \/ HandlePuback(c, Sess) \/ HandlePubrec(c, Sess)
       \/ StorePubrecBit(c, Sess) /\ recv[c].packet.type = "PUBREC"
LogsIn(c) ==
    /\ UNCHANGED <<envVars, mSubscriptions, mGlobalOrderCount, recv, reading>>
    /\ mState[c] = "CONNECTING"
    /\ \/ Sess = Null /\ LoginNewSession(c, FALSE)
       \/ Sess \in Conns /\ LoginResumeSession(c, Sess)

(* A step of the broker that touches neither streams nor flight. *)
LEMMA SilentRoutine ==
    ASSUME BaseInv, UNCHANGED <<coreVars, received, cIds, mSendTasks, mQos2pubrecReceived, conn>>,
           OldAnswers, Subscribers # {} => Subscribers' # {},
           Sess # Null => mCurrentClient'[Sess] \in {Null, mCurrentClient[Sess]},
           \A c \in Conns : Storing(c)' => Storing(c) /\ recv'[c] = recv[c]
    PROVE  Routine
<1>1. \A c \in Conns : KeepsStream(c)
  BY DEF KeepsStream
<1>2. \A c \in Conns : Attached(c)' => Attached(c)
  BY ConstantsAssumption DEF Attached, coreVars, Sess
<1>3. OldStores
  BY DEF OldStores
<1>4. OldBits
  BY DEF OldBits, MayBeBit, coreVars, Sess
<1>. QED
  BY <1>1, <1>2, <1>3, <1>4 DEF Routine

(* Packets the client adds to its stream. *)
LEMMA AddsTo ==
    ASSUME ClientTypes, NEW c \in Conns, NEW a \in Seq(Packets), ToServer(c, a)
    PROVE  \A d \in Conns : \A n \in DOMAIN toServer'[d] :
              \/ \E m \in DOMAIN toServer[d] : toServer'[d][n] = toServer[d][m]
              \/ d = c /\ \E m \in DOMAIN a : toServer'[d][n] = a[m]
<1>t. toServer \in [Conns -> Seq(Packets)] /\ toServer' = [toServer EXCEPT ![c] = @ \o a]
  BY DEF ClientTypes, ToServer
<1>1. ASSUME NEW d \in Conns, NEW n \in DOMAIN toServer'[d]
      PROVE  \/ \E m \in DOMAIN toServer[d] : toServer'[d][n] = toServer[d][m]
             \/ d = c /\ \E m \in DOMAIN a : toServer'[d][n] = a[m]
  <2>1. CASE d # c
    BY <1>1, <1>t, <2>1
  <2>2. CASE d = c
    <3>. DEFINE s == toServer[c]
    <3>1. s \in Seq(Packets) /\ toServer'[c] = s \o a
      BY <1>t
    <3>2. n \in 1..(Len(s) + Len(a))
      BY <1>1, <2>2, <3>1
    <3>3. CASE n \in 1..Len(s)
      BY SMTT(60), <2>2, <3>1, <3>3
    <3>4. CASE n - Len(s) \in 1..Len(a)
      <4>1. (s \o a)[n] = a[n - Len(s)] /\ n - Len(s) \in DOMAIN a
        BY <3>1, <3>2, <3>4
      <4>. QED
        BY <2>2, <3>1, <4>1
    <3>. QED
      BY <3>1, <3>2, <3>3, <3>4
  <2>. QED
    BY <2>1, <2>2
<1>. QED
  BY <1>1

(* Packets the client adds to its stream that acknowledge nothing. *)
LEMMA AddsMild ==
    ASSUME ClientTypes, NEW c \in Conns, NEW a \in Seq(Packets), \A n \in DOMAIN a : Mild(a[n]),
           toServer' = [toServer EXCEPT ![c] = @ \o a], recv' = recv
    PROVE  OldAnswers
<1>1. \A d \in Conns : \A n \in DOMAIN toServer'[d] : Passed(d, toServer'[d][n])
  <2>1. ToServer(c, a)
    BY DEF ToServer
  <2>. QED
    BY <2>1, AddsTo DEF Passed
<1>2. \A d \in Conns : Passed(d, recv'[d].packet)
  BY DEF Passed
<1>. QED
  BY <1>1, <1>2 DEF OldAnswers

(* What a read of a plain packet does. *)
LEMMA PlainRead ==
    ASSUME BaseInv, NEW c \in Conns, ClientRead(c), Plain(Head(mSendTasks[c]))
    PROVE  Routine
<1>. USE DEF flightVars, linkVars, appVars, mapVars
<1>b. ClientTypes /\ mSendTasks \in [Conns -> Seq(Packets)]
  BY Zenon DEF BaseInv, Inv, TypeOK
<1>. DEFINE p == Head(mSendTasks[c])
<1>1. /\ UNCHANGED <<coreVars, mQos2pubrecReceived, conn, recv, mCurrentClient, mSubscriptions>>
      /\ mSendTasks[c] # <<>> /\ mSendTasks' = [mSendTasks EXCEPT ![c] = Tail(@)]
  BY DEF ClientRead, coreVars
<1>2. UNCHANGED <<received, cIds>> /\ (toServer' = toServer \/ ToServer(c, <<Control("PUBREL", p.id)>>))
  BY DEF ClientRead, Plain, OnPubrec, OnPubcomp, OnSuback
<1>3. OldAnswers
  <2>1. CASE toServer' = toServer
    BY <1>1, <2>1 DEF OldAnswers, Passed
  <2>2. CASE ToServer(c, <<Control("PUBREL", p.id)>>)
    <3>1. p \in Packets /\ p.id \in BitIds
      <4>1. p \in Packets
        BY <1>1, <1>b, SeqFacts
      <4>. QED
        BY <4>1 DEF Packets, BitIds
    <3>2. Control("PUBREL", p.id) \in Packets /\ Mild(Control("PUBREL", p.id))
      <4>. HIDE DEF p
      <4>1. Control("PUBREL", p.id) \in Packets
        BY <1>b, <3>1, ClientPackets
      <4>2. Mild(Control("PUBREL", p.id))
        BY DEF Mild, Control, Packet
      <4>. QED
        BY <4>1, <4>2
    <3>. DEFINE a == <<Control("PUBREL", p.id)>>
    <3>3. a \in Seq(Packets) /\ \A n \in DOMAIN a : Mild(a[n])
      <4>. HIDE DEF p, Control
      <4>. QED
        BY <3>2
    <3>4. toServer' = [toServer EXCEPT ![c] = @ \o a] /\ recv' = recv
      BY <2>2, <1>1 DEF ToServer
    <3>. HIDE DEF a
    <3>. QED
      BY Zenon, <1>b, <3>3, <3>4, AddsMild
  <2>. QED
    BY <1>2, <2>1, <2>2
<1>4. \A d \in Conns : KeepsStream(d)
  BY <1>1, <1>b DEF KeepsStream
<1>5. Subscribers # {} => Subscribers' # {}
  BY <1>1 DEF Subscribers
<1>6. \A d \in Conns : Attached(d)' => Attached(d)
  BY <1>1 DEF Attached, coreVars, Sess
<1>7. OldBits /\ OldStores
  BY <1>1 DEF OldBits, OldStores, MayBeBit, Storing, coreVars, Sess
<1>. QED
  BY <1>1, <1>2, <1>3, <1>4, <1>5, <1>6, <1>7 DEF Routine

(* The other handlers. *)
LEMMA HandleKinds ==
    ASSUME BaseInv, NEW c \in Conns, ServerHandle(c)
    PROVE  Routine \/ Acknowledges(c)
<1>. USE DEF flightVars, linkVars, appVars, mapVars
<1>1. PICK o \in Conns : Handle(c, o)
  BY DEF ServerHandle
<1>2. o = Sess /\ UNCHANGED envVars
  BY <1>1, HandleTrack DEF ServerHandle, envVars
<1>3. UNCHANGED <<toServer, received, cIds, conn, promised>>
  BY <1>2 DEF envVars, clientVars
<1>t. /\ recv \in [Conns -> [pc: {"idle", "apply", "store", "storeLocked", "forward"},
                           packet: Packets, state: Conns \cup {Null}, word: SUBSET BitIds]]
      /\ mSendTasks \in [Conns -> Seq(Packets)] /\ TypeOK
      /\ mQos2pubrecReceived \in [Conns -> SUBSET BitIds]
  BY Zenon DEF BaseInv, Inv, TypeOK
<1>n. Mild(NoPkt)
  BY DEF Mild, NoPkt, Control, Packet
<1>k. ASSUME NEW t \in {"PUBREC", "PUBCOMP", "SUBACK"}, Send(c, <<Control(t, recv[c].packet.id)>>)
      PROVE  \A d \in Conns : KeepsStream(d)
  <2>. DEFINE p == Control(t, recv[c].packet.id)
  <2>1. p \in Packets /\ Plain(p)
    <3>1. recv[c].packet.id \in BitIds
      BY <1>t DEF Packets, BitIds
    <3>2. p \in Packets
      BY <3>1, PacketTypesOK DEF PacketTypes
    <3>. QED
      BY <3>2 DEF Plain, Control, Packet
  <2>. HIDE DEF p
  <2>2. mSendTasks[c] \o <<p>> = Append(mSendTasks[c], p)
    BY <1>t, <2>1
  <2>3. c \in reading => mSendTasks'[c] = Append(mSendTasks[c], p)
    BY Zenon, <1>t, <1>k, <2>2, SendsOn DEF p
  <2>4. \A d \in Conns : mSendTasks'[d] # mSendTasks[d] => d = c /\ d \in reading
    BY <1>t, <1>k, SendsOn
  <2>. QED
    BY <2>1, <2>3, <2>4 DEF KeepsStream
<1>4. CASE HandlePubcomp(c, o)
  <2>1. UNCHANGED <<coreVars, mSendTasks, mQos2pubrecReceived, mCurrentClient, mSubscriptions>>
    BY <1>3, <1>4 DEF HandlePubcomp, coreVars
  <2>2. /\ recv'[c].packet = recv[c].packet /\ recv'[c].word = mQos2pubrecReceived[Sess]
        /\ \A d \in Conns : d # c => recv'[d] = recv[d]
        /\ recv[c].packet.type = "PUBCOMP"
    BY <1>2, <1>4, <1>t DEF HandlePubcomp, Applies
  <2>3. OldAnswers
    BY <1>3, <2>2 DEF OldAnswers, Passed
  <2>4. OldStores
    BY <2>2 DEF OldStores, Storing
  <2>5. OldBits
    BY <1>2, <2>1, <2>2, ConstantsAssumption DEF OldBits, MayBeBit, Storing, coreVars, Sess
  <2>. QED
    BY <1>3, <2>1, <2>3, <2>4, <2>5 DEF Routine, KeepsStream, Attached, Subscribers, coreVars, Sess
<1>5. CASE StorePubrecBit(c, o) /\ recv[c].packet.type # "PUBREC"
  <2>1. UNCHANGED <<coreVars, mSendTasks, mCurrentClient, mSubscriptions>>
    BY <1>3, <1>5 DEF StorePubrecBit, coreVars
  <2>2. /\ recv'[c] = Idle /\ \A d \in Conns : d # c => recv'[d] = recv[d]
        /\ Storing(c)
    BY <1>5, <1>t DEF StorePubrecBit, Storing
  <2>3. mQos2pubrecReceived'[Sess] \subseteq recv[c].word
    BY <1>2, <1>5, <1>t DEF StorePubrecBit
  <2>4. OldAnswers
    BY <1>3, <1>n, <2>2 DEF OldAnswers, Passed, Idle
  <2>5. OldStores
    BY <2>2 DEF OldStores, Storing, Idle
  <2>6. OldBits
    BY <1>2, <2>1, <2>2, <2>3 DEF OldBits, MayBeBit, Storing, coreVars, Sess, Idle
  <2>. QED
    BY <1>3, <2>1, <2>4, <2>5, <2>6 DEF Routine, KeepsStream, Attached, Subscribers, coreVars, Sess
<1>6. CASE HandlePublishQoS2(c, o) \/ HandlePubrel(c, o) \/ HandleSubscribe(c, o)
  <2>1. UNCHANGED <<coreVars, mQos2pubrecReceived, mCurrentClient, mSubscriptions>>
    BY <1>3, <1>6 DEF HandlePublishQoS2, HandlePubrel, HandleSubscribe, coreVars
  <2>2. /\ recv'[c].packet \in {NoPkt, recv[c].packet} /\ ~Storing(c)'
        /\ \A d \in Conns : d # c => recv'[d] = recv[d]
    <3>1. CASE recv' = [recv EXCEPT ![c] = Idle]
      BY <1>t, <3>1 DEF Storing, Idle
    <3>2. CASE recv' = [recv EXCEPT ![c] = [Idle EXCEPT !.pc = "forward", !.packet = recv[c].packet]]
      BY <1>t, <3>2 DEF Storing, Idle
    <3>. QED
      BY <1>6, <3>1, <3>2 DEF HandlePublishQoS2, HandlePubrel, HandleSubscribe
  <2>3. \E t \in {"PUBREC", "PUBCOMP", "SUBACK"} : Send(c, <<Control(t, recv[c].packet.id)>>)
    BY <1>6 DEF HandlePublishQoS2, HandlePubrel, HandleSubscribe
  <2>4. OldAnswers
    BY <1>3, <1>n, <2>2 DEF OldAnswers, Passed
  <2>5. OldStores
    BY <2>2 DEF OldStores, Storing
  <2>6. OldBits
    BY <2>1, <2>2 DEF OldBits, MayBeBit, Storing, coreVars, Sess
  <2>. QED
    BY <1>3, <1>k, <2>1, <2>3, <2>4, <2>5, <2>6 DEF Routine, Attached, Subscribers, coreVars, Sess
<1>7. CASE HandleUnsubscribe(c, o)
  BY <1>7 DEF HandleUnsubscribe, Applies, BaseInv, OneSession, Usual
<1>. QED
  BY <1>1, <1>2, <1>4, <1>5, <1>6, <1>7 DEF Handle, Acknowledges

(* The execution of a login request either drops it or is a login. *)
LEMMA LoginKind ==
    ASSUME BaseInv, ExecuteLogin, UNCHANGED envVars
    PROVE  \/ UNCHANGED <<mSendTasks, linkVars, flightVars, appVars, recv>>
           \/ \E c \in Conns : LogsIn(c)
<1>1. UNCHANGED <<mSubscriptions, mGlobalOrderCount, recv, reading>>
  BY LoginWays
<1>2. CASE UNCHANGED <<mSendTasks, linkVars, flightVars, mapVars>>
  BY <1>1, <1>2 DEF appVars
<1>3. CASE \/ Sess = Null /\ LoginNewSession(Head(mQueue).client, FALSE)
           \/ Sess \in Conns /\ LoginResumeSession(Head(mQueue).client, Sess)
  <2>1. Head(mQueue).client \in Conns /\ mState[Head(mQueue).client] = "CONNECTING"
    BY Zenon, HeadRequest DEF ExecuteLogin
  <2>2. LogsIn(Head(mQueue).client)
    BY Zenon, <1>1, <1>3, <2>1 DEF LogsIn
  <2>. QED
    BY <2>1, <2>2
<1>. QED
  BY Zenon, <1>2, <1>3, LoginWays

(* What the steps are. *)
LEMMA Kinds ==
    ASSUME BaseInv, Setting, [DNext]_allVars
    PROVE  \/ Routine
           \/ \E c \in Conns : ClientRead(c) /\ ~Plain(Head(mSendTasks[c]))
           \/ \E c \in Conns : Acknowledges(c) \/ LogsIn(c)
           \/ \E qos \in PublishQoS : ServerPublish(qos)
<1>. USE DeliveryAssumption, ConstantsAssumption DEF flightVars, linkVars, appVars, mapVars
<1>b. ClientTypes /\ TypeOK /\ OneSession
  BY DEF BaseInv, Inv
<1>t. toServer \in [Conns -> Seq(Packets)]
  BY <1>b DEF ClientTypes
<1>r. recv \in [Conns -> [pc: {"idle", "apply", "store", "storeLocked", "forward"},
                           packet: Packets, state: Conns \cup {Null}, word: SUBSET BitIds]]
  BY Zenon, <1>b DEF TypeOK
<1>n. Mild(NoPkt)
  BY DEF Mild, NoPkt, Control, Packet
<1>o. ASSUME UNCHANGED <<toServer, recv>> PROVE OldAnswers
  BY <1>o DEF OldAnswers, Passed
<1>u. ASSUME UNCHANGED <<coreVars, received, cIds, mSendTasks, mQos2pubrecReceived, conn, mCurrentClient,
                         mSubscriptions, recv>>, OldAnswers
      PROVE  Routine
  <2>1. Subscribers' = Subscribers
    BY <1>u DEF Subscribers
  <2>. QED
    BY <1>u, <2>1, SilentRoutine DEF Storing
<1>1. ASSUME NEW c \in Conns, ClientConnect(c) PROVE Routine
  <2>1. Control("CONNECT", 0) \in Packets /\ Mild(Control("CONNECT", 0))
    BY <1>b, ClientPackets DEF Mild, Control, Packet
  <2>2. <<Control("CONNECT", 0)>> \in Seq(Packets)
        /\ \A n \in DOMAIN <<Control("CONNECT", 0)>> : Mild(<<Control("CONNECT", 0)>>[n])
    BY <2>1
  <2>3. OldAnswers
    BY Zenon, <1>1, <1>b, <2>2, AddsMild DEF ClientConnect, ToServer
  <2>4. /\ UNCHANGED <<coreVars, received, cIds, mSendTasks, mQos2pubrecReceived, mCurrentClient,
                       mSubscriptions, recv>>
        /\ conn' = c /\ c \notin used
    BY <1>1 DEF ClientConnect, coreVars
  <2>5. \A d \in Conns : ~Attached(d)'
    <3>1. mState[c] = "NONE"
      BY <2>4 DEF BaseInv, PeerInv
    <3>2. Sess # Null => mCurrentClient[Sess] # c
      BY ZenonT(60), <1>b, <3>1 DEF BaseInv, Inv, OwnerInv, MadeInv, SessionLink, TypeOK, Sess
    <3>. QED
      BY <2>4, <3>2 DEF Attached, coreVars, Sess
  <2>6. OldBits /\ OldStores
    BY <2>4 DEF OldBits, OldStores, MayBeBit, Storing, coreVars, Sess
  <2>. QED
    BY <2>3, <2>4, <2>5, <2>6 DEF Routine, KeepsStream, Subscribers
<1>2. ASSUME NEW c \in Conns, conn = c, BreakConnection(c) PROVE Routine
  <2>1. PICK s \in Prefixes(toServer[c]) : toServer' = [toServer EXCEPT ![c] = s]
    BY Zenon, <1>2 DEF BreakConnection
  <2>2. \A n \in DOMAIN s : n \in DOMAIN toServer[c] /\ s[n] = toServer[c][n]
    BY <1>t, PrefixFacts
  <2>3. /\ UNCHANGED <<coreVars, received, cIds, mQos2pubrecReceived, mCurrentClient, mSubscriptions, recv>>
        /\ conn' = Null /\ mSendTasks' = [mSendTasks EXCEPT ![c] = <<>>]
    BY <1>2 DEF BreakConnection, coreVars
  <2>4. OldAnswers
    BY <1>t, <2>1, <2>2, <2>3 DEF OldAnswers, Passed
  <2>5. \A d \in Conns : KeepsStream(d)
    BY Zenon, <1>b, <2>3 DEF KeepsStream, TypeOK
  <2>6. OldBits /\ OldStores
    BY <2>3 DEF OldBits, OldStores, MayBeBit, Storing, coreVars, Sess
  <2>. QED
    BY <2>3, <2>4, <2>5, <2>6 DEF Routine, Attached, Subscribers
<1>3. ASSUME ClientPublish PROVE Routine
  <2>1. sendCount' \in 0..MaxSend /\ conn \in Conns
    BY <1>3, <1>b DEF ClientPublish, ClientTypes
  <2>2. PICK p \in Packets : p = PublishPacket(FALSE)' /\ p = Packet("PUBLISH", Sid(sendCount'), sendCount', 2, FALSE)
    BY <2>1, SidFacts, Zenon DEF PublishPacket
  <2>3. Mild(p)
    <3>1. p = Packet("PUBLISH", Sid(sendCount'), sendCount', 2, FALSE)
      BY Zenon, <2>2
    <3>. QED
      BY <3>1 DEF Mild, Packet
  <2>4. <<p>> \in Seq(Packets) /\ \A n \in DOMAIN <<p>> : Mild(<<p>>[n])
    BY <2>3
  <2>5. toServer' = [toServer EXCEPT ![conn] = @ \o <<p>>] /\ recv' = recv
    BY <1>3, <2>2 DEF ClientPublish, ToServer, vars
  <2>6. OldAnswers
    BY Zenon, <1>b, <2>1, <2>4, <2>5, AddsMild
  <2>. QED
    BY <1>3, <1>u, <2>6 DEF ClientPublish, vars, coreVars
<1>4. ASSUME NEW c \in Conns, Accept(c) PROVE Routine
  BY <1>4, <1>o, <1>u DEF Accept, AcceptConnection, envVars, clientVars, coreVars
<1>5. ASSUME NEW c \in Conns, ServerRead(c) PROVE Routine
  <2>1. /\ toServer[c] # <<>> /\ toServer' = [toServer EXCEPT ![c] = Tail(@)]
        /\ UNCHANGED <<coreVars, received, cIds, mSendTasks, mQos2pubrecReceived, conn, mCurrentClient,
                       mSubscriptions>>
    BY Zenon, <1>5 DEF ServerRead, RecvConnect, LoadSession, clientVars, coreVars
  <2>2. \A n \in DOMAIN Tail(toServer[c]) : n + 1 \in DOMAIN toServer[c] /\ Tail(toServer[c])[n] = toServer[c][n + 1]
    BY <1>t, <2>1, SeqFacts
  <2>3. Head(toServer[c]) = toServer[c][1] /\ 1 \in DOMAIN toServer[c]
    BY <1>t, <2>1, SeqFacts
  <2>4. \/ recv' = recv
        \/ recv' = [recv EXCEPT ![c] = [pc |-> "apply", packet |-> Head(toServer[c]),
                                              state |-> mPersistentClientState[c], word |-> {}]]
    BY Zenon, <1>5 DEF ServerRead, RecvConnect, LoadSession
  <2>5. /\ \A d \in Conns : recv'[d] = recv[d] \/ (recv'[d].packet = Head(toServer[c]) /\ d = c)
        /\ \A d \in Conns : Storing(d)' => Storing(d) /\ recv'[d] = recv[d]
    <3>1. CASE recv' = recv
      BY <3>1 DEF Storing
    <3>2. CASE recv' = [recv EXCEPT ![c] = [pc |-> "apply", packet |-> Head(toServer[c]),
                                              state |-> mPersistentClientState[c], word |-> {}]]
      BY <1>r, <3>2 DEF Storing
    <3>. QED
      BY <2>4, <3>1, <3>2
  <2>6. OldAnswers
    <3>1. \A d \in Conns : Passed(d, recv'[d].packet)
      BY <2>3, <2>5 DEF Passed
    <3>2. \A d \in Conns : \A n \in DOMAIN toServer'[d] : Passed(d, toServer'[d][n])
      BY <1>t, <2>1, <2>2 DEF Passed
    <3>. QED
      BY <3>1, <3>2 DEF OldAnswers
  <2>7. Subscribers' = Subscribers
    BY <2>1 DEF Subscribers
  <2>. QED
    BY <2>1, <2>5, <2>6, <2>7, SilentRoutine
<1>6. ASSUME NEW c \in Conns, ServerReadsEof(c) PROVE Routine
  BY <1>6, <1>o, <1>u DEF ServerReadsEof, RecvError, envVars, clientVars, coreVars
<1>7. ASSUME NEW c \in Conns, ServerForward(c) PROVE Routine
  <2>1. /\ UNCHANGED <<coreVars, received, cIds, mSendTasks, mQos2pubrecReceived, conn, mCurrentClient,
                       mSubscriptions, toServer>>
        /\ recv' = [recv EXCEPT ![c] = Idle]
    BY <1>7 DEF ServerForward, Forward, clientVars, coreVars
  <2>2. /\ \A d \in Conns : recv'[d] = recv[d] \/ recv'[d] = Idle
        /\ \A d \in Conns : Storing(d)' => Storing(d) /\ recv'[d] = recv[d]
    BY <1>r, <2>1 DEF Storing, Idle
  <2>3. OldAnswers
    BY <1>n, <2>1, <2>2 DEF OldAnswers, Passed, Idle
  <2>4. Subscribers' = Subscribers
    BY <2>1 DEF Subscribers
  <2>. QED
    BY <2>1, <2>2, <2>3, <2>4, SilentRoutine
<1>8. ASSUME NEW c \in Conns, LogoutClient(c), UNCHANGED <<clientVars, toServer, promised>> PROVE Routine
  <2>1. /\ UNCHANGED <<coreVars, received, cIds, mSendTasks, mQos2pubrecReceived, conn, recv, toServer,
                       mSubscriptions>>
        /\ \A o \in Conns : mCurrentClient'[o] \in {Null, mCurrentClient[o]}
    BY <1>8, LogoutEffect DEF coreVars, clientVars
  <2>2. Sess \in Conns \cup {Null}
    BY Zenon, <1>b DEF TypeOK, Sess
  <2>3. Subscribers' = Subscribers
    BY <2>1 DEF Subscribers
  <2>. QED
    BY <1>o, <2>1, <2>2, <2>3, SilentRoutine DEF Storing
<1>9. ASSUME ServerExecute PROVE Routine \/ \E c \in Conns : LogsIn(c)
  <2>e. UNCHANGED envVars /\ UNCHANGED <<clientVars, toServer, promised, conn, received, cIds>>
    BY <1>9 DEF ServerExecute, envVars, clientVars
  <2>1. CASE ExecuteLogin
    <3>1. CASE UNCHANGED <<mSendTasks, linkVars, flightVars, appVars, recv>>
      BY <1>o, <1>u, <2>e, <3>1 DEF coreVars
    <3>. QED
      BY <2>e, <2>1, <3>1, LoginKind
  <2>2. CASE ExecuteLogout
    <3>1. mQueue # <<>> /\ Head(mQueue).type = "Logout"
      BY <2>2 DEF ExecuteLogout
    <3>2. Head(mQueue).client \in Conns
      BY <3>1, HeadRequest
    <3>3. CASE LogoutClient(Head(mQueue).client)
      BY <1>8, <2>e, <3>2, <3>3
    <3>4. CASE UNCHANGED <<connVars, mSendTasks, linkVars, flightVars, appVars, recv, fault, reading>>
      BY <1>o, <1>u, <2>e, <3>4 DEF coreVars
    <3>. QED
      BY <2>2, <3>3, <3>4 DEF ExecuteLogout
  <2>3. CASE ExecuteSubscribe
    <3>1. UNCHANGED <<coreVars, mSendTasks, mQos2pubrecReceived, mCurrentClient, recv>>
      BY <2>e, <2>3 DEF ExecuteSubscribe, Setting, coreVars
    <3>2. OnTrack
      BY TrackStep
    <3>3. Subscribers # {} => Subscribers' # {}
      <4>1. mSubscriptions \in [Conns -> QoS \cup {NoSub}]
        BY Zenon, <1>b DEF TypeOK
      <4>. QED
        BY <3>2, <4>1 DEF OnTrack, Subscribers, NoSub
    <3>. QED
      BY <1>o, <2>e, <3>1, <3>3, SilentRoutine DEF Storing
  <2>4. CASE ExecuteUnsubscribe
    BY <2>4, HeadRequest DEF ExecuteUnsubscribe
  <2>. QED
    BY <1>9, <2>1, <2>2, <2>3, <2>4 DEF ServerExecute, Execute
<1>10. ASSUME NEW c \in Conns, ServerTimeout(c) PROVE Routine
  <2>1. LogoutClient(c) /\ UNCHANGED <<clientVars, toServer, promised>>
    BY <1>10 DEF ServerTimeout, TimeoutLogout
  <2>. QED
    BY <1>8, <2>1
<1>11. ASSUME NEW c \in Conns, ServerSendError(c) PROVE Routine
  <2>1. LogoutClient(c) /\ UNCHANGED <<clientVars, toServer, promised>>
    BY <1>11 DEF ServerSendError, SendErrorLogout, envVars
  <2>. QED
    BY <1>8, <2>1
<1>12. ASSUME UNCHANGED allVars PROVE Routine
  BY <1>12, <1>o, <1>u DEF allVars, vars, envVars, clientVars, coreVars
<1>. QED
  BY ZenonT(60), <1>1, <1>2, <1>3, <1>4, <1>5, <1>6, <1>7, <1>9, <1>10, <1>11, <1>12, PlainRead, HandleKinds
  DEF DNext, ConnectionFails, ServerCloses

-----------------------------------------------------------------------------
(* Ids *)

IdInv ==
    /\ LastId <= 1 + mGlobalOrderCount
    /\ promised = (Offset + 2)..mGlobalOrderCount
    /\ LastId > 1 => Subscribers # {}
    /\ \A i \in Flying : i \in Given /\ mHighQoSSendingPackets[Sess][i].msg = i + Offset

(* The types of what the invariant is about. *)
LEMMA IdTypes ==
    ASSUME BaseInv
    PROVE  /\ LastId \in Ids /\ LastId \in Nat /\ LastId >= 1 /\ mGlobalOrderCount \in 0..MaxPublish
           /\ mGlobalOrderCount \in Nat /\ Offset \in Int /\ Sess \in Conns \cup {Null}
           /\ Sess \in Conns => LastId = mPacketIdCounter[Sess] /\ Flying = InFlight(Sess)
           /\ Flying \subseteq Ids
<1>1. /\ mPacketIdCounter \in [Conns -> Ids] /\ mGlobalOrderCount \in 0..MaxPublish
      /\ Sess \in Conns \cup {Null}
  BY Zenon DEF BaseInv, Inv, TypeOK, Sess
<1>2. LastId \in Ids
  BY <1>1, ConstantsAssumption DEF LastId, Ids
<1>3. LastId \in Nat /\ LastId >= 1 /\ mGlobalOrderCount \in Nat
  BY <1>1, <1>2, ConstantsAssumption DEF Ids
<1>. QED
  BY <1>1, <1>2, <1>3, ConstantsAssumption DEF Offset, Flying, InFlight, LastId

(* A message to the subscribed session. *)
PublishesTo(qos) ==
    /\ Sess \in Conns /\ qos \in {1, 2}
    /\ mGlobalOrderCount' = mGlobalOrderCount + 1
    /\ LastId + 1 \in Ids /\ LastId + 1 \notin Flying
    /\ mPacketIdCounter' = [o \in Conns |-> IF o = Sess THEN LastId + 1 ELSE mPacketIdCounter[o]]
    /\ mHighQoSSendingPackets' =
         [o \in Conns |-> IF o = Sess
                          THEN [i \in Ids |-> IF i = LastId + 1
                                              THEN [msg |-> mGlobalOrderCount + 1, qos |-> qos]
                                              ELSE mHighQoSSendingPackets[o][i]]
                          ELSE mHighQoSSendingPackets[o]]
    /\ mSendTasks' =
         [c \in Conns |-> IF c \in reading /\ mCurrentClient[Sess] = c
                          THEN Append(mSendTasks[c],
                                      Packet("PUBLISH", LastId + 1, mGlobalOrderCount + 1, qos, FALSE))
                          ELSE mSendTasks[c]]
    /\ promised' = promised \cup {mGlobalOrderCount + 1}
    /\ Subscribers # {}

(* A message nobody has subscribed to. *)
PublishesToNobody ==
    /\ Subscribers = {}
    /\ mGlobalOrderCount' = mGlobalOrderCount + 1
    /\ UNCHANGED <<mPacketIdCounter, mHighQoSSendingPackets, mSendTasks, promised>>

(* The two cases of a publish. *)
LEMMA PublishEffect ==
    ASSUME BaseInv, IdInv, Setting, NEW qos \in PublishQoS, ServerPublish(qos)
    PROVE  /\ PublishesTo(qos) \/ PublishesToNobody
           /\ UNCHANGED <<mPersistentClientStates, mQos2pubrecReceived, mSubscriptions, recv, reading,
                          mCurrentClient, conn, toServer, received, cIds>>
<1>. USE ConstantsAssumption
<1>t. /\ mPacketIdCounter \in [Conns -> Ids] /\ mHighQoSSendingPackets \in [Conns -> [Ids -> Slots]]
      /\ mSendTasks \in [Conns -> Seq(Packets)] /\ reading \subseteq Conns
      /\ mSubscriptions \in [Conns -> QoS \cup {NoSub}]
  BY Zenon DEF BaseInv, Inv, TypeOK
<1>1. UNCHANGED <<mPersistentClientStates, mQos2pubrecReceived, mSubscriptions, recv, reading,
                  mCurrentClient, conn, toServer, received, cIds>>
  BY DEF ServerPublish, Publish, clientVars, linkVars, mapVars
<1>. DEFINE q == [o \in Subscribers |-> MinQoS(mSubscriptions[o], qos)]
<1>2. /\ Deliver(Subscribers, q, mGlobalOrderCount + 1)
      /\ promised' = IF Subscribers = {} THEN promised ELSE promised \cup {mGlobalOrderCount'}
  BY DEF ServerPublish, Publish
<1>3. qos \in {1, 2}
  BY DEF Setting
<1>4. \A o \in Subscribers : o = Sess /\ q[o] = qos
  <2>1. \A o \in Subscribers : o \in Conns /\ o = Sess /\ mSubscriptions[o] = 2
    BY DEF BaseInv, OneSession, Subscribers
  <2>. QED
    BY <1>3, <2>1 DEF MinQoS
<1>. HIDE DEF q
<1>5. ~DereferencesNull(Subscribers, q)
  BY <1>3, <1>4 DEF DereferencesNull
<1>6. /\ mGlobalOrderCount < MaxPublish /\ mGlobalOrderCount' = mGlobalOrderCount + 1
      /\ mPacketIdCounter' =
             [o \in Conns |-> IF o \in Subscribers /\ q[o] > 0
                              THEN NextPacketId(mPacketIdCounter[o]) ELSE mPacketIdCounter[o]]
      /\ mHighQoSSendingPackets' =
             [o \in Conns |-> IF o \in Subscribers /\ q[o] > 0
                              THEN Emplace(o, NextPacketId(mPacketIdCounter[o]),
                                           [msg |-> mGlobalOrderCount + 1, qos |-> q[o]])
                              ELSE mHighQoSSendingPackets[o]]
      /\ mSendTasks' =
             [c \in Conns |->
                IF c \in reading /\ \E o \in Subscribers : mCurrentClient[o] = c
                THEN Append(mSendTasks[c], LET o == CHOOSE o \in Subscribers : mCurrentClient[o] = c
                                           IN PublishPacketFor(o, mGlobalOrderCount + 1, q[o]))
                ELSE mSendTasks[c]]
  BY <1>2, <1>5 DEF Deliver
<1>7. CASE Subscribers = {}
  <2>1. mPacketIdCounter' = mPacketIdCounter /\ mHighQoSSendingPackets' = mHighQoSSendingPackets
        /\ mSendTasks' = mSendTasks
    BY <1>6, <1>7, <1>t
  <2>. QED
    BY <1>1, <1>2, <1>6, <1>7, <2>1 DEF PublishesToNobody
<1>8. CASE Subscribers # {}
  <2>1. Subscribers = {Sess} /\ Sess \in Conns /\ q[Sess] = qos
    <3>1. PICK o \in Subscribers : TRUE
      BY <1>8
    <3>2. o = Sess /\ o \in Conns
      BY <3>1, <1>4 DEF Subscribers
    <3>. QED
      BY <1>4, <3>1, <3>2
  <2>2. LastId = mPacketIdCounter[Sess] /\ LastId \in Nat /\ LastId >= 1 /\ mGlobalOrderCount \in Nat
        /\ Flying = InFlight(Sess)
    BY <2>1, IdTypes
  <2>3. LastId < MaxPacketId
    BY <1>6, <2>2 DEF IdInv, Setting
  <2>4. NextPacketId(mPacketIdCounter[Sess]) = LastId + 1 /\ LastId + 1 \in Ids
    BY <2>2, <2>3 DEF NextPacketId, Ids
  <2>5. LastId + 1 \notin Flying
    BY <2>2 DEF IdInv, Given
  <2>6. mHighQoSSendingPackets[Sess][LastId + 1] = Free
    BY <2>2, <2>4, <2>5 DEF InFlight
  <2>7. mPacketIdCounter' = [o \in Conns |-> IF o = Sess THEN LastId + 1 ELSE mPacketIdCounter[o]]
    BY <1>3, <1>6, <2>1, <2>4
  <2>8. mHighQoSSendingPackets' =
         [o \in Conns |-> IF o = Sess
                          THEN [i \in Ids |-> IF i = LastId + 1
                                              THEN [msg |-> mGlobalOrderCount + 1, qos |-> qos]
                                              ELSE mHighQoSSendingPackets[o][i]]
                          ELSE mHighQoSSendingPackets[o]]
    <3>1. Emplace(Sess, LastId + 1, [msg |-> mGlobalOrderCount + 1, qos |-> qos])
            = [i \in Ids |-> IF i = LastId + 1 THEN [msg |-> mGlobalOrderCount + 1, qos |-> qos]
                             ELSE mHighQoSSendingPackets[Sess][i]]
      BY <2>6 DEF Emplace
    <3>. QED
      BY <1>3, <1>6, <2>1, <2>4, <3>1
  <2>9. mSendTasks' =
         [c \in Conns |-> IF c \in reading /\ mCurrentClient[Sess] = c
                          THEN Append(mSendTasks[c],
                                      Packet("PUBLISH", LastId + 1, mGlobalOrderCount + 1, qos, FALSE))
                          ELSE mSendTasks[c]]
    <3>1. PublishPacketFor(Sess, mGlobalOrderCount + 1, qos)
            = Packet("PUBLISH", LastId + 1, mGlobalOrderCount + 1, qos, FALSE)
      <4>1. qos > 0
        BY <1>3
      <4>. QED
        BY <2>4, <4>1, Zenon DEF PublishPacketFor
    <3>2. \A c \in Conns : mCurrentClient[Sess] = c => (CHOOSE o \in Subscribers : mCurrentClient[o] = c) = Sess
      BY <2>1, Zenon
    <3>3. \A c \in Conns : (\E o \in Subscribers : mCurrentClient[o] = c) <=> mCurrentClient[Sess] = c
      BY <2>1
    <3>4. ASSUME NEW c \in Conns
          PROVE  mSendTasks'[c] = IF c \in reading /\ mCurrentClient[Sess] = c
                          THEN Append(mSendTasks[c],
                                      Packet("PUBLISH", LastId + 1, mGlobalOrderCount + 1, qos, FALSE))
                          ELSE mSendTasks[c]
      <4>. HIDE DEF Packet
      <4>1. CASE c \in reading /\ mCurrentClient[Sess] = c
        <5>1. mSendTasks'[c] = Append(mSendTasks[c],
                   LET o == CHOOSE o \in Subscribers : mCurrentClient[o] = c
                   IN PublishPacketFor(o, mGlobalOrderCount + 1, q[o]))
          BY <1>6, <3>3, <4>1, Zenon
        <5>2. mSendTasks'[c] = Append(mSendTasks[c], PublishPacketFor(Sess, mGlobalOrderCount + 1, q[Sess]))
          BY <3>2, <4>1, <5>1, Zenon
        <5>. QED
          BY <2>1, <3>1, <4>1, <5>2, Zenon
      <4>2. CASE ~(c \in reading /\ mCurrentClient[Sess] = c)
        BY <1>6, <3>3, <4>2, Zenon
      <4>. QED
        BY Zenon, <4>1, <4>2
    <3>5. mSendTasks' = [c \in Conns |-> mSendTasks'[c]]
      BY <1>6, Zenon
    <3>. QED
      BY <3>4, <3>5, Zenon
  <2>10. promised' = promised \cup {mGlobalOrderCount + 1}
    BY <1>2, <1>6, <1>8
  <2>. QED
    BY Zenon, <1>1, <1>3, <1>6, <1>8, <2>1, <2>4, <2>5, <2>7, <2>8, <2>9, <2>10 DEF PublishesTo
<1>. QED
  BY <1>7, <1>8

\* The ids stay as they are, and messages in flight stay or are erased
IdsKept ==
    /\ LastId' = LastId /\ Offset' = Offset /\ mGlobalOrderCount' = mGlobalOrderCount
    /\ promised' = promised
    /\ \A i \in Flying' : i \in Flying /\ mHighQoSSendingPackets'[Sess'][i] = mHighQoSSendingPackets[Sess][i]
    /\ Subscribers # {} => Subscribers' # {}

(* Messages leave the flight only through an acknowledgement. *)
LEMMA AckEffect ==
    ASSUME BaseInv, NEW c \in Conns, Acknowledges(c)
    PROVE  /\ UNCHANGED <<mPersistentClientStates, mPacketIdCounter, mGlobalOrderCount, promised, received,
                          cIds, mSubscriptions, mCurrentClient, conn, toServer, reading>>
           /\ Sess \in Conns /\ recv[c].state = Sess
           /\ \/ /\ recv[c].packet.type \in {"PUBACK", "PUBREC"} /\ recv[c].pc = "apply"
                 /\ mHighQoSSendingPackets' = [mHighQoSSendingPackets EXCEPT ![Sess] =
                      [i \in Ids |-> IF i = recv[c].packet.id THEN Free ELSE @[i]]]
                 /\ UNCHANGED <<mSendTasks, mQos2pubrecReceived>>
                 /\ recv'[c].packet = recv[c].packet \/ recv'[c] = Idle
                 /\ recv'[c] # Idle => recv'[c].word = mQos2pubrecReceived[Sess] /\ recv[c].packet.type = "PUBREC"
              \/ /\ recv[c].packet.type = "PUBREC" /\ Storing(c)
                 /\ mHighQoSSendingPackets' = mHighQoSSendingPackets
                 /\ mQos2pubrecReceived' = [mQos2pubrecReceived EXCEPT ![Sess] =
                                              recv[c].word \cup {recv[c].packet.id}]
                 /\ Send(c, <<Control("PUBREL", recv[c].packet.id)>>)
                 /\ recv'[c] = Idle
           /\ \A d \in Conns : d # c => recv'[d] = recv[d]
<1>. USE DEF flightVars, linkVars, appVars, mapVars
<1>1. recv \in [Conns -> [pc: {"idle", "apply", "store", "storeLocked", "forward"},
                           packet: Packets, state: Conns \cup {Null}, word: SUBSET BitIds]]
  BY Zenon DEF BaseInv, Inv, TypeOK
<1>2. UNCHANGED <<mPersistentClientStates, mPacketIdCounter, mGlobalOrderCount, promised, received,
                          cIds, mSubscriptions, mCurrentClient, conn, toServer, reading>>
  BY DEF Acknowledges, envVars, clientVars, HandlePuback, HandlePubrec, StorePubrecBit
<1>3. Sess \in Conns
  BY DEF Acknowledges
<1>4. CASE HandlePuback(c, Sess)
  BY <1>1, <1>2, <1>3, <1>4 DEF HandlePuback, Erase, Applies
<1>5. CASE HandlePubrec(c, Sess)
  <2>1. PICK pc : recv' = [recv EXCEPT ![c].word = mQos2pubrecReceived[Sess], ![c].pc = pc]
    BY <1>5 DEF HandlePubrec
  <2>2. /\ recv'[c].packet = recv[c].packet /\ recv'[c].word = mQos2pubrecReceived[Sess]
        /\ \A d \in Conns : d # c => recv'[d] = recv[d]
    BY <1>1, <2>1
  <2>. QED
    BY Zenon, <1>2, <1>3, <1>5, <2>2 DEF HandlePubrec, Erase, Applies
<1>6. CASE StorePubrecBit(c, Sess) /\ recv[c].packet.type = "PUBREC"
  BY <1>1, <1>2, <1>3, <1>6 DEF StorePubrecBit, Storing
<1>. QED
  BY <1>4, <1>5, <1>6 DEF Acknowledges

(* What a login does. *)
LEMMA LoginEffect ==
    ASSUME BaseInv, NEW c \in Conns, LogsIn(c)
    PROVE  /\ UNCHANGED <<mGlobalOrderCount, promised, received, cIds, mSubscriptions, conn, toServer, recv,
                          reading>>
           /\ mSendTasks[c] = <<>> /\ recv[c] = Idle
           /\ \A n \in DOMAIN toServer[c] : toServer[c][n].type = "CONNECT"
           /\ \/ /\ Sess = Null /\ Sess' = c /\ mPacketIdCounter'[c] = 1
                 /\ mHighQoSSendingPackets'[c] = [i \in Ids |-> Free]
                 /\ mQos2pubrecReceived'[c] = {}
                 /\ mQoS2receivingPacketIds'[c] = {}
                 /\ Send(c, <<Packet("CONNACK", 0, 0, 0, FALSE)>>)
              \/ /\ Sess \in Conns /\ LoginResumeSession(c, Sess)
                 /\ UNCHANGED <<mPersistentClientStates, mPacketIdCounter, mHighQoSSendingPackets,
                                mQos2pubrecReceived, mQoS2receivingPacketIds>>
<1>. USE DEF flightVars, mapVars
<1>1. UNCHANGED <<mGlobalOrderCount, promised, received, cIds, mSubscriptions, conn, toServer, recv, reading>>
  BY DEF LogsIn, envVars, clientVars
<1>2. /\ mSendTasks[c] = <<>> /\ recv[c] = Idle
      /\ \A n \in DOMAIN toServer[c] : toServer[c][n].type = "CONNECT"
  BY DEF LogsIn, BaseInv, PeerInv
<1>t. /\ mPacketIdCounter \in [Conns -> Ids] /\ mHighQoSSendingPackets \in [Conns -> [Ids -> Slots]]
      /\ mQos2pubrecReceived \in [Conns -> SUBSET BitIds]
      /\ mQoS2receivingPacketIds \in [Conns -> SUBSET BitIds]
  BY Zenon DEF BaseInv, Inv, TypeOK
<1>3. CASE Sess = Null /\ LoginNewSession(c, FALSE)
  <2>1. /\ Sess' = c /\ mPacketIdCounter'[c] = 1 /\ mHighQoSSendingPackets'[c] = [i \in Ids |-> Free]
        /\ mQos2pubrecReceived'[c] = {} /\ mQoS2receivingPacketIds'[c] = {}
        /\ Send(c, <<Packet("CONNACK", 0, 0, 0, FALSE)>>)
    BY <1>3, <1>t DEF LoginNewSession, ResetSession, Sess
  <2>. QED
    BY <1>1, <1>2, <1>3, <2>1
<1>4. CASE Sess \in Conns /\ LoginResumeSession(c, Sess)
  BY Zenon, <1>1, <1>2, <1>4 DEF LoginResumeSession
<1>. QED
  BY Zenon, <1>3, <1>4 DEF LogsIn

(* What a step does to the ids. *)
LEMMA IdSteps ==
    ASSUME BaseInv, IdInv, Setting, [DNext]_allVars
    PROVE  IdsKept \/ \E qos \in PublishQoS : /\ ServerPublish(qos)
                                              /\ PublishesTo(qos) \/ PublishesToNobody
<1>. USE ConstantsAssumption
<1>1. ASSUME UNCHANGED coreVars, Subscribers # {} => Subscribers' # {} PROVE IdsKept
  BY <1>1 DEF coreVars, IdsKept, LastId, Offset, Flying, InFlight, Sess
<1>2. ASSUME NEW c \in Conns, ClientRead(c) PROVE IdsKept
  <2>1. UNCHANGED coreVars /\ Subscribers' = Subscribers
    BY <1>2 DEF ClientRead, coreVars, flightVars, appVars, mapVars, Subscribers
  <2>. QED
    BY <1>1, <2>1
<1>3. ASSUME NEW c \in Conns, Acknowledges(c) PROVE IdsKept
  <2>1. /\ Sess \in Conns /\ Sess' = Sess /\ LastId' = LastId /\ Offset' = Offset
        /\ mGlobalOrderCount' = mGlobalOrderCount /\ promised' = promised /\ Subscribers' = Subscribers
    BY ZenonT(60), <1>3, AckEffect DEF LastId, Offset, Sess, Subscribers
  <2>2. mHighQoSSendingPackets \in [Conns -> [Ids -> Slots]]
    BY Zenon DEF BaseInv, Inv, TypeOK
  <2>3. \A i \in Ids : mHighQoSSendingPackets'[Sess][i] \in {Free, mHighQoSSendingPackets[Sess][i]}
    <3>1. CASE mHighQoSSendingPackets' = mHighQoSSendingPackets
      BY <3>1
    <3>2. CASE mHighQoSSendingPackets' = [mHighQoSSendingPackets EXCEPT ![Sess] =
                      [i \in Ids |-> IF i = recv[c].packet.id THEN Free ELSE @[i]]]
      BY <2>1, <2>2, <3>2
    <3>. QED
      BY Zenon, <1>3, <3>1, <3>2, AckEffect
  <2>. QED
    BY <2>1, <2>3 DEF IdsKept, Flying, InFlight
<1>4. ASSUME NEW c \in Conns, LogsIn(c) PROVE IdsKept
  <2>1. UNCHANGED <<mGlobalOrderCount, promised, mSubscriptions>>
    BY <1>4, LoginEffect
  <2>2. CASE Sess = Null /\ Sess' = c /\ mPacketIdCounter'[c] = 1 /\ mHighQoSSendingPackets'[c] = [i \in Ids |-> Free]
    <3>1. LastId' = 1 /\ LastId = 1 /\ Flying' = {}
      BY <2>2 DEF LastId, Flying, InFlight
    <3>. QED
      BY <2>1, <3>1 DEF IdsKept, Offset, Subscribers
  <2>3. CASE UNCHANGED <<mPersistentClientStates, mPacketIdCounter, mHighQoSSendingPackets>>
    BY <1>1, <2>1, <2>3 DEF coreVars, Subscribers
  <2>. QED
    BY <1>4, <2>2, <2>3, LoginEffect
<1>. QED
  BY <1>1, <1>2, <1>3, <1>4, Kinds, PublishEffect DEF Routine

\* What no step undoes
Grows ==
    /\ LastId <= LastId' /\ Given \subseteq Given'
    /\ LastId = 1 \/ Offset' = Offset
    /\ Flying' \cap Given \subseteq Flying
    /\ promised \subseteq promised'

(* The ids stay an image of the messages, and grow. *)
LEMMA IdStep ==
    ASSUME BaseInv, IdInv, Setting, [DNext]_allVars PROVE IdInv' /\ Grows
<1>. USE ConstantsAssumption
<1>t. /\ LastId \in Nat /\ LastId >= 1 /\ mGlobalOrderCount \in Nat /\ Offset \in Int
      /\ Flying \subseteq Ids
  BY IdTypes
<1>1. CASE IdsKept
  BY SMTT(60), <1>1, <1>t DEF IdsKept, IdInv, Grows, Given
<1>2. ASSUME NEW qos \in PublishQoS, ServerPublish(qos), PublishesToNobody PROVE IdInv' /\ Grows
  <2>1. LastId = 1 /\ Flying = {} /\ promised = {}
    BY <1>2, <1>t DEF IdInv, PublishesToNobody, Given, Offset
  <2>2. LastId' = LastId /\ Flying' = Flying /\ mGlobalOrderCount' = mGlobalOrderCount + 1
        /\ promised' = promised /\ Offset' = mGlobalOrderCount
    <3>1. /\ UNCHANGED <<mPersistentClientStates, mPacketIdCounter, mHighQoSSendingPackets, promised>>
          /\ mGlobalOrderCount' = mGlobalOrderCount + 1
      BY <1>2, PublishEffect DEF PublishesToNobody
    <3>2. LastId' = LastId /\ Flying' = Flying
      BY <3>1 DEF LastId, Flying, InFlight, Sess
    <3>. QED
      BY <1>t, <2>1, <3>1, <3>2 DEF Offset
  <2>. QED
    BY <1>t, <2>1, <2>2 DEF IdInv, Grows, Given
<1>3. ASSUME NEW qos \in PublishQoS, ServerPublish(qos), PublishesTo(qos) PROVE IdInv' /\ Grows
  <2>1. Sess \in Conns /\ Sess' = Sess /\ Subscribers' # {} /\ mGlobalOrderCount' = mGlobalOrderCount + 1
    BY Zenon, <1>3, PublishEffect DEF PublishesTo, Sess, Subscribers
  <2>2. LastId' = LastId + 1 /\ Offset' = Offset
    BY SMTT(60), <1>3, <1>t, <2>1 DEF LastId, PublishesTo, Offset
  <2>3. /\ \A i \in Ids : mHighQoSSendingPackets'[Sess][i] =
              IF i = LastId + 1 THEN [msg |-> mGlobalOrderCount + 1, qos |-> qos]
              ELSE mHighQoSSendingPackets[Sess][i]
        /\ LastId + 1 \in Ids
    BY <1>3 DEF PublishesTo
  <2>4. /\ Flying' = Flying \cup {LastId + 1}
        /\ \A i \in Flying : i # LastId + 1 /\ mHighQoSSendingPackets'[Sess][i] = mHighQoSSendingPackets[Sess][i]
        /\ mHighQoSSendingPackets'[Sess][LastId + 1].msg = mGlobalOrderCount + 1
    <3>1. [msg |-> mGlobalOrderCount + 1, qos |-> qos] # Free
      <4>1. mGlobalOrderCount + 1 # 0
        BY <1>t
      <4>. QED
        BY <4>1 DEF Free
    <3>2. Flying = {i \in Ids : mHighQoSSendingPackets[Sess][i] # Free}
          /\ Flying' = {i \in Ids : mHighQoSSendingPackets'[Sess][i] # Free}
      BY <2>1 DEF Flying, InFlight
    <3>3. LastId + 1 \notin Flying
      BY <1>3 DEF PublishesTo
    <3>. QED
      BY <2>3, <3>1, <3>2, <3>3
  <2>5. promised' = (Offset + 2)..(mGlobalOrderCount + 1)
    <3>1. promised = (Offset + 2)..mGlobalOrderCount /\ promised' = promised \cup {mGlobalOrderCount + 1}
      BY <1>3 DEF IdInv, PublishesTo
    <3>2. Offset + 2 <= mGlobalOrderCount + 1
      BY <1>t DEF Offset
    <3>. QED
      BY <1>t, <3>1, <3>2
  <2>6. IdInv'
    <3>1. mGlobalOrderCount + 1 = (LastId + 1) + Offset
      BY <1>t DEF Offset
    <3>2. \A i \in Flying' : i \in Given' /\ mHighQoSSendingPackets'[Sess'][i].msg = i + Offset'
      BY SMTT(60), <1>t, <2>1, <2>2, <2>4, <3>1 DEF IdInv, Given
    <3>3. LastId' <= 1 + mGlobalOrderCount'
      BY <1>t, <2>1, <2>2 DEF IdInv
    <3>. QED
      BY <2>1, <2>2, <2>5, <3>2, <3>3 DEF IdInv
  <2>7. Grows
    BY <1>3, <1>t, <2>2, <2>4 DEF Grows, Given, PublishesTo
  <2>. QED
    BY <2>6, <2>7
<1>. QED
  BY <1>1, <1>2, <1>3, IdSteps

-----------------------------------------------------------------------------
(* Streams to the client *)

\* The ids of the PUBLISH packets in a stream
PubIds(s) == {s[n].id : n \in {n \in DOMAIN s : s[n].type = "PUBLISH"}}

(* A stream to the client, when the ids up to k are given out, for messages d      *)
(* above them, fly is in flight and the client has had: CONNACK comes first,       *)
(* PUBLISH packets come in the order of their ids, which is that of the messages,  *)
(* no message is left out, and PUBREL releases only what is no longer in flight.   *)
WellSent(s, k, d, fly, had) ==
    /\ \A n \in DOMAIN s : s[n].type = "PUBLISH" => s[n].id \in 2..k /\ s[n].msg = s[n].id + d
    /\ \A n \in DOMAIN s : s[n].type = "CONNACK" => n = 1
    /\ \A n, l \in DOMAIN s : s[n].type = "PUBLISH" /\ s[l].type = "PUBLISH" /\ n < l => s[n].id < s[l].id
    /\ \A n \in DOMAIN s : s[n].type = "PUBREL" =>
          s[n].id \in 2..k /\ s[n].id \notin fly /\ s[n].id \notin PubIds(s)
    /\ \A j \in PubIds(s) : \A i \in 2..j : i \in had \/ i \in PubIds(s)

(* The ends of a stream. *)
LEMMA AppendFacts ==
    ASSUME NEW s \in Seq(Packets), NEW p \in Packets
    PROVE  /\ DOMAIN Append(s, p) = DOMAIN s \cup {Len(s) + 1} /\ Append(s, p)[Len(s) + 1] = p
           /\ Len(s) + 1 \notin DOMAIN s /\ Len(s) \in Nat
           /\ \A n \in DOMAIN s : Append(s, p)[n] = s[n] /\ n < Len(s) + 1 /\ n \in Nat \ {0}
OBVIOUS

(* The ids after a packet is added or read. *)
LEMMA PubIdsFacts ==
    ASSUME NEW s \in Seq(Packets)
    PROVE  /\ PubIds(<<>>) = {}
           /\ \A p \in Packets : PubIds(Append(s, p)) = PubIds(s) \cup IF p.type = "PUBLISH" THEN {p.id} ELSE {}
           /\ s # <<>> => PubIds(Tail(s)) \subseteq PubIds(s)
           /\ s # <<>> => \A i \in PubIds(s) :
                 i \in PubIds(Tail(s)) \/ (Head(s).type = "PUBLISH" /\ i = Head(s).id)
<1>1. PubIds(<<>>) = {}
  BY DEF PubIds
<1>2. ASSUME NEW p \in Packets
      PROVE  PubIds(Append(s, p)) = PubIds(s) \cup IF p.type = "PUBLISH" THEN {p.id} ELSE {}
  BY AppendFacts DEF PubIds
<1>3. ASSUME s # <<>> PROVE PubIds(Tail(s)) \subseteq PubIds(s)
  <2>1. \A n \in DOMAIN Tail(s) : n + 1 \in DOMAIN s /\ Tail(s)[n] = s[n + 1]
    BY <1>3, SeqFacts
  <2>. QED
    BY <2>1 DEF PubIds
<1>4. ASSUME s # <<>>, NEW i \in PubIds(s)
      PROVE  i \in PubIds(Tail(s)) \/ (Head(s).type = "PUBLISH" /\ i = Head(s).id)
  <2>1. PICK n \in DOMAIN s : s[n].type = "PUBLISH" /\ i = s[n].id
    BY <1>4 DEF PubIds
  <2>2. n = 1 \/ (n - 1 \in DOMAIN Tail(s) /\ Tail(s)[n - 1] = s[n])
    BY <1>4, SeqFacts
  <2>3. Head(s) = s[1]
    BY <1>4, SeqFacts
  <2>. QED
    BY <2>1, <2>2, <2>3 DEF PubIds
<1>. QED
  BY <1>1, <1>2, <1>3, <1>4

(* An empty stream is well sent, and a stream stays so as the state grows. *)
LEMMA SentGrows ==
    ASSUME NEW k \in Nat, NEW k2 \in Nat, k <= k2, NEW d \in Int, NEW d2 \in Int, k = 1 \/ d2 = d,
           NEW fly, NEW fly2, fly2 \cap (2..k) \subseteq fly, NEW had, NEW had2, had \subseteq had2,
           NEW s, WellSent(s, k, d, fly, had)
    PROVE  WellSent(s, k2, d2, fly2, had2) /\ WellSent(<<>>, k2, d2, fly2, had2)
<1>1. WellSent(<<>>, k2, d2, fly2, had2)
  BY DEF WellSent, PubIds
<1>2. WellSent(s, k2, d2, fly2, had2)
  BY DEF WellSent
<1>. QED
  BY <1>1, <1>2

(* The client reads a packet. *)
LEMMA SentTail ==
    ASSUME NEW k \in Nat, NEW d \in Int, NEW fly, NEW had,
           NEW s \in Seq(Packets), s # <<>>, WellSent(s, k, d, fly, had),
           NEW had2, had \subseteq had2, Head(s).type = "PUBLISH" => Head(s).id \in had2
    PROVE  /\ WellSent(Tail(s), k, d, fly, had2)
           /\ \A n \in DOMAIN Tail(s) : Tail(s)[n].type # "CONNACK"
           /\ Head(s).type = "PUBLISH" =>
                 /\ Head(s).id \notin PubIds(Tail(s)) /\ Head(s).id \in 2..k /\ Head(s).msg = Head(s).id + d
                 /\ \A i \in 2..(Head(s).id - 1) : i \in had
           /\ Head(s).type = "PUBREL" => Head(s).id \in 2..k /\ Head(s).id \notin fly /\ Head(s).id \notin PubIds(s)
<1>. DEFINE t == Tail(s)
<1>1. /\ \A n \in DOMAIN t : n + 1 \in DOMAIN s /\ t[n] = s[n + 1] /\ n \in Nat \ {0}
      /\ Head(s) = s[1] /\ 1 \in DOMAIN s
  <2>1. t \in Seq(Packets)
    BY SeqFacts
  <2>. QED
    BY <2>1, SeqFacts
<1>2. /\ PubIds(t) \subseteq PubIds(s)
      /\ \A i \in PubIds(s) : i \in PubIds(t) \/ (Head(s).type = "PUBLISH" /\ i = Head(s).id)
  BY PubIdsFacts
<1>3. \A i \in PubIds(t) : \E n \in DOMAIN t : t[n].type = "PUBLISH" /\ t[n].id = i
  BY DEF PubIds
<1>. HIDE DEF t
<1>4. WellSent(t, k, d, fly, had2)
  <2>1. /\ \A n \in DOMAIN t : t[n].type = "PUBLISH" => t[n].id \in 2..k /\ t[n].msg = t[n].id + d
        /\ \A n \in DOMAIN t : t[n].type # "CONNACK"
    BY SMTT(60), <1>1 DEF WellSent
  <2>2. ASSUME NEW n \in DOMAIN t, NEW l \in DOMAIN t, t[n].type = "PUBLISH", t[l].type = "PUBLISH", n < l
        PROVE  t[n].id < t[l].id
    <3>1. /\ n + 1 \in DOMAIN s /\ t[n] = s[n + 1]
          /\ l + 1 \in DOMAIN s /\ t[l] = s[l + 1] /\ n + 1 < l + 1
      BY <1>1, <2>2
    <3>2. s[n + 1].type = "PUBLISH" /\ s[l + 1].type = "PUBLISH"
      BY <2>2, <3>1
    <3>. QED
      BY <3>1, <3>2 DEF WellSent
  <2>3. \A n \in DOMAIN t : t[n].type = "PUBREL" =>
          t[n].id \in 2..k /\ t[n].id \notin fly /\ t[n].id \notin PubIds(t)
    BY <1>1, <1>2 DEF WellSent
  <2>4. \A j \in PubIds(t) : \A i \in 2..j : i \in had2 \/ i \in PubIds(t)
    BY <1>2 DEF WellSent
  <2>. QED
    BY <2>1, <2>2, <2>3, <2>4 DEF WellSent
<1>5. \A n \in DOMAIN t : t[n].type # "CONNACK"
  BY <1>1 DEF WellSent
<1>6. ASSUME Head(s).type = "PUBLISH"
      PROVE  /\ Head(s).id \notin PubIds(t) /\ Head(s).id \in 2..k /\ Head(s).msg = Head(s).id + d
             /\ \A i \in 2..(Head(s).id - 1) : i \in had
  <2>1. Head(s).id \in 2..k /\ Head(s).msg = Head(s).id + d
    BY <1>1, <1>6 DEF WellSent
  <2>2. \A i \in PubIds(t) : Head(s).id < i
    <3>. TAKE i \in PubIds(t)
    <3>1. PICK n \in DOMAIN t : t[n].type = "PUBLISH" /\ t[n].id = i
      BY <1>3
    <3>2. n + 1 \in DOMAIN s /\ s[n + 1].type = "PUBLISH" /\ s[n + 1].id = i /\ 1 < n + 1
      BY <1>1, <3>1
    <3>. QED
      BY <1>1, <1>6, <3>2 DEF WellSent
  <2>3. Head(s).id \in PubIds(s)
    BY <1>1, <1>6 DEF PubIds
  <2>4. \A i \in 2..(Head(s).id - 1) : i \in had
    <3>. TAKE i \in 2..(Head(s).id - 1)
    <3>1. i \in 2..(Head(s).id) /\ i < Head(s).id
      BY <2>1
    <3>2. i \in had \/ i \in PubIds(s)
      BY <2>3, <3>1 DEF WellSent
    <3>. QED
      BY <1>2, <2>1, <2>2, <3>1, <3>2
  <2>. QED
    BY <2>1, <2>2, <2>4
<1>7. Head(s).type = "PUBREL" => Head(s).id \in 2..k /\ Head(s).id \notin fly /\ Head(s).id \notin PubIds(s)
  BY <1>1 DEF WellSent
<1>. QED
  BY <1>4, <1>5, <1>6, <1>7 DEF t

(* The broker sends an answer, a PUBREL or the next message. *)
LEMMA SentAppend ==
    ASSUME NEW k \in Nat, NEW d \in Int, NEW fly, NEW had,
           NEW s \in Seq(Packets), WellSent(s, k, d, fly, had), NEW p \in Packets,
           \/ Plain(p)
           \/ p.type = "PUBREL" /\ p.id \in 2..k /\ p.id \notin fly /\ p.id \notin PubIds(s)
    PROVE  WellSent(Append(s, p), k, d, fly, had)
<1>. DEFINE t == Append(s, p)
            e == Len(s) + 1
<1>1. /\ DOMAIN t = DOMAIN s \cup {e} /\ t[e] = p /\ e \notin DOMAIN s
      /\ \A n \in DOMAIN s : t[n] = s[n] /\ n < e
  BY AppendFacts
<1>2. PubIds(t) = PubIds(s) /\ p.type # "PUBLISH" /\ p.type # "CONNACK"
  <2>1. p.type # "PUBLISH" /\ p.type # "CONNACK"
    BY DEF Plain
  <2>2. PubIds(Append(s, p)) = PubIds(s) \cup {}
    BY Zenon, <2>1, PubIdsFacts
  <2>. QED
    BY <2>1, <2>2
<1>3. p.type = "PUBREL" => p.id \in 2..k /\ p.id \notin fly /\ p.id \notin PubIds(s)
  BY DEF Plain
<1>. HIDE DEF t, e
<1>. SUFFICES WellSent(t, k, d, fly, had)
  BY DEF t
<1>4. /\ \A n \in DOMAIN t : t[n].type = "PUBLISH" => t[n].id \in 2..k /\ t[n].msg = t[n].id + d
      /\ \A n \in DOMAIN t : t[n].type = "CONNACK" => n = 1
  BY <1>1, <1>2 DEF WellSent
<1>5. \A n, l \in DOMAIN t : t[n].type = "PUBLISH" /\ t[l].type = "PUBLISH" /\ n < l => t[n].id < t[l].id
  BY <1>1, <1>2 DEF WellSent
<1>6. \A n \in DOMAIN t : t[n].type = "PUBREL" =>
          t[n].id \in 2..k /\ t[n].id \notin fly /\ t[n].id \notin PubIds(t)
  BY <1>1, <1>2, <1>3 DEF WellSent
<1>7. \A j \in PubIds(t) : \A i \in 2..j : i \in had \/ i \in PubIds(t)
  BY <1>2 DEF WellSent
<1>. QED
  BY <1>4, <1>5, <1>6, <1>7 DEF WellSent

(* The broker publishes the next message on a stream that is complete so far. *)
LEMMA SentNext ==
    ASSUME NEW k \in Nat, k >= 1, NEW d \in Int, NEW fly, NEW had,
           NEW s \in Seq(Packets), WellSent(s, k, d, fly, had), NEW p \in Packets,
           p.type = "PUBLISH", p.id = k + 1, p.msg = p.id + d,
           \A i \in 2..k : i \in had \/ i \in PubIds(s)
    PROVE  WellSent(Append(s, p), k + 1, d, fly \cup {k + 1}, had)
<1>. DEFINE t == Append(s, p)
            e == Len(s) + 1
<1>1. /\ DOMAIN t = DOMAIN s \cup {e} /\ t[e] = p /\ e \notin DOMAIN s
      /\ e \in Nat /\ \A n \in DOMAIN s : t[n] = s[n] /\ n < e /\ n \in Nat
  BY AppendFacts
<1>2. PubIds(t) = PubIds(s) \cup {k + 1}
  BY PubIdsFacts
<1>3. \A i \in PubIds(s) : i \in 2..k
  BY DEF PubIds, WellSent
<1>. HIDE DEF t, e
<1>. SUFFICES WellSent(t, k + 1, d, fly \cup {k + 1}, had)
  BY DEF t
<1>4. /\ \A n \in DOMAIN t : t[n].type = "PUBLISH" => t[n].id \in 2..(k + 1) /\ t[n].msg = t[n].id + d
      /\ \A n \in DOMAIN t : t[n].type = "CONNACK" => n = 1
  BY SMTT(60), <1>1 DEF WellSent
<1>5. ASSUME NEW n \in DOMAIN t, NEW l \in DOMAIN t, t[n].type = "PUBLISH", t[l].type = "PUBLISH", n < l
      PROVE  t[n].id < t[l].id
  <2>1. n \in DOMAIN s /\ t[n] = s[n]
    BY <1>1, <1>5
  <2>2. CASE l \in DOMAIN s
    BY Zenon, <1>1, <1>5, <2>1, <2>2 DEF WellSent
  <2>3. CASE l = e
    <3>1. s[n].id \in 2..k
      BY <1>5, <2>1 DEF WellSent
    <3>. QED
      BY <1>1, <2>1, <2>3, <3>1
  <2>. QED
    BY <1>1, <2>2, <2>3
<1>6. \A n \in DOMAIN t : t[n].type = "PUBREL" =>
          t[n].id \in 2..(k + 1) /\ t[n].id \notin fly \cup {k + 1} /\ t[n].id \notin PubIds(t)
  BY <1>1, <1>2 DEF WellSent
<1>7. \A j \in PubIds(t) : \A i \in 2..j : i \in had \/ i \in PubIds(t)
  BY <1>2, <1>3
<1>. QED
  BY <1>4, <1>5, <1>6, <1>7 DEF WellSent

(* What a resumed session sends: everything in flight, in the order of publishing, *)
(* and PUBREL for ids of the bitset.                                               *)
LEMMA ResumedStream ==
    ASSUME BaseInv, NEW c \in Conns, mSendTasks[c] = <<>>, c \in reading, Sess \in Conns,
           LoginResumeSession(c, Sess), mSendTasks'[c] \in Seq(Packets)
    PROVE  /\ \A n \in DOMAIN mSendTasks'[c] : LET p == mSendTasks'[c][n] IN
                 \/ p.type = "CONNACK" /\ n = 1 /\ p.flag = TRUE
                 \/ /\ p.type = "PUBLISH" /\ p.id \in InFlight(Sess)
                    /\ p.msg = mHighQoSSendingPackets[Sess][p.id].msg
                    /\ p.qos = mHighQoSSendingPackets[Sess][p.id].qos
                 \/ p.type = "PUBREL" /\ p.id \in mQos2pubrecReceived[Sess]
           /\ PubIds(mSendTasks'[c]) = InFlight(Sess)
           /\ \A n, l \in DOMAIN mSendTasks'[c] : LET p == mSendTasks'[c][n] r == mSendTasks'[c][l] IN
                 p.type = "PUBLISH" /\ r.type = "PUBLISH" /\ n < l
                 => mHighQoSSendingPackets[Sess][p.id].msg < mHighQoSSendingPackets[Sess][r.id].msg
<1>. USE ConstantsAssumption
<1>0. TypeOK /\ InFlight(Sess) \subseteq Ids /\ PubrelsResent(Sess) \subseteq mQos2pubrecReceived[Sess]
      /\ mQos2pubrecReceived[Sess] \subseteq BitIds
  BY Zenon DEF BaseInv, Inv, TypeOK, InFlight, PubrelsResent
<1>1. PICK ids \in Ascending(InFlight(Sess), [i \in Ids |-> GlobalOrder(Sess, i)]),
           rels \in Ascending(PubrelsResent(Sess), [i \in BitIds |-> i]) :
         Send(c, <<Packet("CONNACK", 0, 0, 0, TRUE)>>
                  \o [k \in 1..Len(ids) |->
                        Packet("PUBLISH", ids[k], mHighQoSSendingPackets[Sess][ids[k]].msg,
                               mHighQoSSendingPackets[Sess][ids[k]].qos, TRUE)]
                  \o [k \in 1..Len(rels) |-> Control("PUBREL", rels[k])])
  BY Zenon DEF LoginResumeSession
<1>2. IsFiniteSet(InFlight(Sess)) /\ IsFiniteSet(PubrelsResent(Sess))
  <2>1. IsFiniteSet(Ids) /\ IsFiniteSet(BitIds)
    BY SMTT(60), FS_Interval DEF Ids, BitIds
  <2>. QED
    BY <1>0, <2>1, FS_Subset
<1>3. Cardinality(InFlight(Sess)) \in Nat /\ Cardinality(PubrelsResent(Sess)) \in Nat
  BY <1>2, FS_CardinalityType
<1>4. /\ ids \in Seq(Ids) /\ \A k \in 1..Len(ids) : ids[k] \in InFlight(Sess)
      /\ rels \in Seq(BitIds) /\ \A k \in 1..Len(rels) : rels[k] \in mQos2pubrecReceived[Sess]
  <2>1. PICK n \in 0..Cardinality(InFlight(Sess)) : ids \in [1..n -> InFlight(Sess)]
    BY ZenonT(60), <1>1 DEF Ascending
  <2>2. PICK m \in 0..Cardinality(PubrelsResent(Sess)) : rels \in [1..m -> PubrelsResent(Sess)]
    BY ZenonT(60), <1>1 DEF Ascending
  <2>3. n \in Nat /\ m \in Nat
    BY <1>3, <2>1, <2>2
  <2>4. ids \in Seq(Ids) /\ rels \in Seq(BitIds)
    BY SMTT(60), <1>0, <2>1, <2>2, <2>3
  <2>. QED
    BY SMTT(60), <1>0, <2>1, <2>2, <2>3, <2>4
<1>5. /\ \A i \in InFlight(Sess) : \E k \in 1..Len(ids) : ids[k] = i
      /\ \A k, l \in 1..Len(ids) : k < l =>
            mHighQoSSendingPackets[Sess][ids[k]].msg < mHighQoSSendingPackets[Sess][ids[l]].msg
  <2>1. /\ \A e \in InFlight(Sess) : \E i \in DOMAIN ids : ids[i] = e
        /\ \A i, j \in DOMAIN ids : i < j =>
             [x \in Ids |-> GlobalOrder(Sess, x)][ids[i]] < [x \in Ids |-> GlobalOrder(Sess, x)][ids[j]]
    BY ZenonT(60), <1>1 DEF Ascending
  <2>2. DOMAIN ids = 1..Len(ids)
    BY <1>4
  <2>3. \A k \in 1..Len(ids) : ids[k] \in Ids
    BY <1>4
  <2>. QED
    BY Zenon, <2>1, <2>2, <2>3 DEF GlobalOrder
<1>. DEFINE first == <<Packet("CONNACK", 0, 0, 0, TRUE)>>
            pubs == [k \in 1..Len(ids) |->
                        Packet("PUBLISH", ids[k], mHighQoSSendingPackets[Sess][ids[k]].msg,
                               mHighQoSSendingPackets[Sess][ids[k]].qos, TRUE)]
            ends == [k \in 1..Len(rels) |-> Control("PUBREL", rels[k])]
<1>6. first \in Seq(Packets) /\ Len(first) = 1 /\ first[1].type = "CONNACK" /\ first[1].flag = TRUE
  <2>1. Packet("CONNACK", 0, 0, 0, TRUE) \in Packets
    BY Zenon, PacketTypesOK
  <2>2. Packet("CONNACK", 0, 0, 0, TRUE).type = "CONNACK" /\ Packet("CONNACK", 0, 0, 0, TRUE).flag = TRUE
    BY DEF Packet
  <2>3. \A p \in Packets : <<p>> \in Seq(Packets) /\ Len(<<p>>) = 1 /\ <<p>>[1] = p
    OBVIOUS
  <2>. QED
    BY Zenon, <2>1, <2>2, <2>3
<1>7. /\ pubs \in Seq(Packets) /\ Len(pubs) = Len(ids)
      /\ \A k \in 1..Len(ids) : /\ pubs[k].type = "PUBLISH" /\ pubs[k].id = ids[k]
                                /\ pubs[k].msg = mHighQoSSendingPackets[Sess][ids[k]].msg
                                /\ pubs[k].qos = mHighQoSSendingPackets[Sess][ids[k]].qos
  <2>0. Len(ids) \in Nat
    BY <1>4
  <2>1. ASSUME NEW k \in 1..Len(ids) PROVE pubs[k] \in Packets
    <3>1. ids[k] \in Ids /\ ids[k] \in BitIds
      BY SMTT(60), <1>4 DEF Ids, BitIds
    <3>2. mHighQoSSendingPackets[Sess][ids[k]] \in Slots
      <4>1. mHighQoSSendingPackets \in [Conns -> [Ids -> Slots]]
        BY Zenon, <1>0 DEF TypeOK
      <4>. QED
        BY <3>1, <4>1
    <3>3. /\ mHighQoSSendingPackets[Sess][ids[k]].msg \in 0..MaxPublish
          /\ mHighQoSSendingPackets[Sess][ids[k]].qos \in QoS
      BY <3>2 DEF Slots
    <3>4. Packet("PUBLISH", ids[k], mHighQoSSendingPackets[Sess][ids[k]].msg,
                 mHighQoSSendingPackets[Sess][ids[k]].qos, TRUE) \in Packets
      BY Zenon, <3>1, <3>3, PacketTypesOK
    <3>. QED
      BY Zenon, <3>4
  <2>2. \A k \in 1..Len(ids) : /\ pubs[k].type = "PUBLISH" /\ pubs[k].id = ids[k]
                                /\ pubs[k].msg = mHighQoSSendingPackets[Sess][ids[k]].msg
                                /\ pubs[k].qos = mHighQoSSendingPackets[Sess][ids[k]].qos
    BY DEF Packet
  <2>3. pubs \in [1..Len(ids) -> Packets]
    BY Zenon, <2>1
  <2>. HIDE DEF pubs
  <2>. QED
    BY <2>0, <2>2, <2>3
<1>8. /\ ends \in Seq(Packets) /\ Len(ends) = Len(rels)
      /\ \A k \in 1..Len(rels) : ends[k].type = "PUBREL" /\ ends[k].id = rels[k]
  <2>0. Len(rels) \in Nat
    BY <1>4
  <2>1. \A k \in 1..Len(rels) : Control("PUBREL", rels[k]) \in Packets
    BY <1>4, PacketTypesOK DEF PacketTypes
  <2>2. \A k \in 1..Len(rels) : ends[k].type = "PUBREL" /\ ends[k].id = rels[k]
    BY DEF Control, Packet
  <2>3. ends \in [1..Len(rels) -> Packets]
    BY <2>1
  <2>. HIDE DEF ends
  <2>. QED
    BY <2>0, <2>2, <2>3
<1>9. mSendTasks'[c] = <<>> \o (first \o pubs \o ends)
  <2>1. Send(c, first \o pubs \o ends)
    BY <1>1
  <2>. HIDE DEF first, pubs, ends
  <2>. QED
    <3>1. mSendTasks'[c] = mSendTasks[c] \o (first \o pubs \o ends)
      BY <1>0, <2>1, SendsOn, Zenon
    <3>. QED
      BY <3>1
<1>. HIDE DEF first, pubs, ends
<1>10. mSendTasks'[c] = first \o pubs \o ends
  <2>1. first \o pubs \o ends \in Seq(Packets)
    BY <1>6, <1>7, <1>8
  <2>. QED
    BY <1>9, <2>1, ConcatEmptySeq
<1>. DEFINE t == first \o pubs \o ends
            L == Len(ids)
            R == Len(rels)
<1>11. /\ L \in Nat /\ R \in Nat /\ DOMAIN t = 1..(1 + L + R) /\ t[1] = first[1]
       /\ \A k \in 1..L : t[k + 1] = pubs[k]
       /\ \A n \in 2..(1 + L) : t[n] = pubs[n - 1]
       /\ \A n \in (L + 2)..(1 + L + R) : t[n] = ends[n - (L + 1)] /\ n - (L + 1) \in 1..R
  <2>1. L \in Nat /\ R \in Nat /\ Len(pubs) = L /\ Len(ends) = R
    BY <1>4, <1>7, <1>8
  <2>. HIDE DEF L, R
  <2>2. first \o pubs \in Seq(Packets) /\ Len(first \o pubs) = 1 + L
        /\ \A n \in 1..(1 + L) : (first \o pubs)[n] = IF n <= 1 THEN first[n] ELSE pubs[n - 1]
    <3>1. /\ first \o pubs \in Seq(Packets) /\ Len(first \o pubs) = Len(first) + Len(pubs)
          /\ \A n \in 1..(Len(first) + Len(pubs)) : (first \o pubs)[n] =
                 IF n <= Len(first) THEN first[n] ELSE pubs[n - Len(first)]
      <4>1. first \in Seq(Packets) /\ pubs \in Seq(Packets)
        BY <1>6, <1>7
      <4>. QED
        BY <4>1
    <3>. QED
      BY <1>6, <2>1, <3>1
  <2>. DEFINE u == first \o pubs
  <2>3. u \in Seq(Packets) /\ Len(u) = 1 + L
    BY <2>2
  <2>4. u[1] = first[1] /\ \A n \in 2..(1 + L) : u[n] = pubs[n - 1]
    BY <2>1, <2>2
  <2>. HIDE DEF u
  <2>5. /\ u \o ends \in Seq(Packets) /\ Len(u \o ends) = (1 + L) + R
        /\ \A n \in 1..((1 + L) + R) : (u \o ends)[n] = IF n <= 1 + L THEN u[n] ELSE ends[n - (1 + L)]
    <3>1. /\ u \o ends \in Seq(Packets) /\ Len(u \o ends) = Len(u) + Len(ends)
          /\ \A n \in 1..(Len(u) + Len(ends)) : (u \o ends)[n] =
                 IF n <= Len(u) THEN u[n] ELSE ends[n - Len(u)]
      <4>1. u \in Seq(Packets) /\ ends \in Seq(Packets)
        BY <1>8, <2>3
      <4>. QED
        BY <4>1
    <3>. QED
      BY <2>1, <2>3, <3>1
  <2>6. t = u \o ends
    BY DEF t, u
  <2>. HIDE DEF t
  <2>7. DOMAIN t = 1..(1 + L + R)
    BY <2>1, <2>5, <2>6
  <2>8. t[1] = first[1] /\ \A n \in 2..(1 + L) : t[n] = pubs[n - 1]
    BY <2>1, <2>4, <2>5, <2>6
  <2>9. \A k \in 1..L : t[k + 1] = pubs[k]
    <3>. TAKE k \in 1..L
    <3>1. k + 1 \in 2..(1 + L) /\ (k + 1) - 1 = k
      BY <2>1
    <3>. QED
      BY <2>8, <3>1
  <2>10. \A n \in (L + 2)..(1 + L + R) : t[n] = ends[n - (L + 1)] /\ n - (L + 1) \in 1..R
    BY <2>1, <2>5, <2>6
  <2>. QED
    BY <2>1, <2>7, <2>8, <2>9, <2>10
<1>. HIDE DEF t, L, R
<1>12. \A n \in DOMAIN t :
         \/ n = 1 /\ t[n].type = "CONNACK" /\ t[n].flag = TRUE
         \/ n \in 2..(1 + L) /\ n - 1 \in 1..L /\ t[n] = pubs[n - 1] /\ t[n].type = "PUBLISH" /\ t[n].id = ids[n - 1]
         \/ n \in (L + 2)..(1 + L + R) /\ t[n].type = "PUBREL" /\ t[n].id \in mQos2pubrecReceived[Sess]
  <2>. TAKE n \in DOMAIN t
  <2>1. CASE n = 1
    BY <1>6, <1>11, <2>1
  <2>2. CASE n \in 2..(1 + L)
    <3>1. n - 1 \in 1..L /\ t[n] = pubs[n - 1]
      BY <1>11, <2>2
    <3>. QED
      BY <1>7, <2>2, <3>1 DEF L
  <2>3. CASE n \in (L + 2)..(1 + L + R)
    <3>1. n - (L + 1) \in 1..R /\ t[n] = ends[n - (L + 1)]
      BY <1>11, <2>3
    <3>. QED
      BY <1>4, <1>8, <2>3, <3>1 DEF R
  <2>4. n = 1 \/ n \in 2..(1 + L) \/ n \in (L + 2)..(1 + L + R)
    BY <1>11
  <2>. QED
    BY Zenon, <2>1, <2>2, <2>3, <2>4
<1>13. \A n \in DOMAIN t :
                 \/ t[n].type = "CONNACK" /\ n = 1 /\ t[n].flag = TRUE
                 \/ /\ t[n].type = "PUBLISH" /\ t[n].id \in InFlight(Sess)
                    /\ t[n].msg = mHighQoSSendingPackets[Sess][t[n].id].msg
                    /\ t[n].qos = mHighQoSSendingPackets[Sess][t[n].id].qos
                 \/ t[n].type = "PUBREL" /\ t[n].id \in mQos2pubrecReceived[Sess]
  <2>. TAKE n \in DOMAIN t
  <2>1. CASE n \in 2..(1 + L) /\ n - 1 \in 1..L /\ t[n] = pubs[n - 1] /\ t[n].type = "PUBLISH" /\ t[n].id = ids[n - 1]
    BY <1>4, <1>7, <2>1 DEF L
  <2>. QED
    BY Zenon, <1>12, <2>1
<1>14. PubIds(t) = InFlight(Sess)
  <2>1. PubIds(t) \subseteq InFlight(Sess)
    BY <1>13 DEF PubIds
  <2>2. ASSUME NEW i \in InFlight(Sess) PROVE i \in PubIds(t)
    <3>1. PICK k \in 1..L : ids[k] = i
      BY <1>5, <2>2 DEF L
    <3>2. k + 1 \in DOMAIN t /\ t[k + 1] = pubs[k]
      BY <1>11, <3>1
    <3>3. pubs[k].type = "PUBLISH" /\ pubs[k].id = i
      BY <1>7, <3>1 DEF L
    <3>. QED
      BY <3>2, <3>3 DEF PubIds
  <2>. QED
    BY Zenon, <2>1, <2>2
<1>15. ASSUME NEW n \in DOMAIN t, NEW l \in DOMAIN t, t[n].type = "PUBLISH", t[l].type = "PUBLISH", n < l
       PROVE  mHighQoSSendingPackets[Sess][t[n].id].msg < mHighQoSSendingPackets[Sess][t[l].id].msg
  <2>1. /\ n - 1 \in 1..L /\ t[n].id = ids[n - 1]
        /\ l - 1 \in 1..L /\ t[l].id = ids[l - 1]
    BY <1>12, <1>15
  <2>2. n - 1 < l - 1
    BY <1>11, <1>15
  <2>. QED
    BY <1>5, <2>1, <2>2 DEF L
<1>16. mSendTasks'[c] = t
  BY <1>10 DEF t
<1>. QED
  BY <1>13, <1>14, <1>15, <1>16

-----------------------------------------------------------------------------
(* Delivery *)

StreamInv == \A c \in Conns : WellSent(mSendTasks[c], LastId, Offset, Flying, Had)

(* As long as the session sends to the client's connection, every message is       *)
(* either with the client or on its way.                                           *)
AttachedInv ==
    \A c \in Conns : Attached(c) => \A i \in Given : i \in Had \/ i \in PubIds(mSendTasks[c])

(* The client acknowledges only what it has, and PUBREC only what is not on its    *)
(* way a second time.                                                              *)
Acked(c, p) ==
    /\ p.type \in {"PUBACK", "PUBREC"} => p.id \in Had
    /\ p.type = "PUBREC" => p.id \notin PubIds(mSendTasks[c])
AnswerInv ==
    \A c \in Conns : Acked(c, recv[c].packet) /\ \A n \in DOMAIN toServer[c] : Acked(c, toServer[c][n])

(* What is or becomes a bit of mQos2pubrecReceived is no longer in flight. *)
FreeInv == \A i \in BitIds : MayBeBit(i) => i \in Given /\ i \notin Flying

(* What the client does not have is in flight. *)
HadInv ==
    /\ \A i \in Given : i \in Had \/ i \in Flying
    /\ cIds \subseteq Had
    /\ ReceivedMsgs \subseteq promised
    /\ OrderedFirstDelivery

Flow == BaseInv /\ IdInv /\ StreamInv /\ AttachedInv /\ AnswerInv /\ FreeInv /\ HadInv

(* What a read does. *)
LEMMA ReadEffect ==
    ASSUME BaseInv, NEW c \in Conns, ClientRead(c), NEW p, p = Head(mSendTasks[c])
    PROVE  /\ UNCHANGED <<coreVars, recv, mQos2pubrecReceived, mCurrentClient, conn, mSubscriptions>>
           /\ conn = c /\ p \in Packets
           /\ mSendTasks[c] # <<>> /\ mSendTasks' = [mSendTasks EXCEPT ![c] = Tail(@)]
           /\ p.type # "PUBLISH" => received' = received /\ OldAnswers
           /\ p.type = "PUBLISH" =>
                 /\ p.qos > 0
                 /\ \/ p.qos = 2 /\ p.id \in cIds /\ UNCHANGED <<received, cIds>>
                    \/ /\ ~(p.qos = 2 /\ p.id \in cIds)
                       /\ received' = Append(received, [msg |-> p.msg, qos |-> p.qos])
                       /\ cIds' = IF p.qos = 2 THEN cIds \cup {p.id} ELSE cIds
           /\ p.type = "CONNACK" => cIds' = IF p.flag THEN cIds ELSE {}
           /\ p.type = "PUBREL" => cIds' = cIds \ {p.id}
           /\ p.type \notin {"CONNACK", "PUBLISH", "PUBREL"} => cIds' = cIds
<1>. USE DEF flightVars, linkVars, appVars, mapVars
<1>b. ClientTypes /\ mSendTasks \in [Conns -> Seq(Packets)]
  BY Zenon DEF BaseInv, Inv, TypeOK
<1>1. /\ UNCHANGED <<coreVars, recv, mQos2pubrecReceived, mCurrentClient, conn, mSubscriptions>>
      /\ conn = c /\ mSendTasks[c] # <<>> /\ mSendTasks' = [mSendTasks EXCEPT ![c] = Tail(@)]
  BY DEF ClientRead, coreVars
<1>2. p \in Packets
  BY <1>1, <1>b, SeqFacts
<1>3. PICK a \in Answers(p) : ToServer(c, a)
  BY <1>b, ReadAnswers
<1>4. a \in Seq(Packets)
  BY <1>b, <1>2, AnswerPackets
<1>5. ASSUME p.type # "PUBLISH" PROVE OldAnswers
  <2>1. \A n \in DOMAIN a : Mild(a[n])
    <3>1. \A x, y \in Packets : Mild(x) /\ Mild(y) =>
             (\A n \in DOMAIN <<x>> : Mild(<<x>>[n])) /\ \A n \in DOMAIN <<x, y>> : Mild(<<x, y>>[n])
      <4>. HIDE DEF Mild
      <4>. QED
        OBVIOUS
    <3>2. DOMAIN <<>> = {}
      OBVIOUS
    <3>3. p.id \in BitIds
      BY <1>2 DEF Packets, BitIds
    <3>4. /\ \A dup \in BOOLEAN : PublishPacket(dup) \in Packets /\ Mild(PublishPacket(dup))
          /\ Subscription \in Packets /\ Mild(Subscription)
          /\ \A type \in {"PUBREL", "PUBCOMP"}, id \in BitIds : Control(type, id) \in Packets /\ Mild(Control(type, id))
          /\ SendId \in BitIds
      <4>1. /\ \A dup \in BOOLEAN : Mild(PublishPacket(dup))
            /\ Mild(Subscription)
            /\ \A type \in {"PUBREL", "PUBCOMP"}, id \in BitIds : Mild(Control(type, id))
        BY DEF Mild, PublishPacket, Subscription, Control, Packet
      <4>. QED
        BY <1>b, <4>1, ClientPackets
    <3>5. \/ a = <<>>
          \/ \E x \in Packets : Mild(x) /\ a = <<x>>
          \/ \E x, y \in Packets : Mild(x) /\ Mild(y) /\ a = <<x, y>>
      <4>1. \/ a = <<>>
            \/ \E type \in {"PUBREL", "PUBCOMP"} : a = <<Control(type, p.id)>>
            \/ a \in {<<Subscription>>, <<PublishPacket(TRUE)>>, <<Control("PUBREL", SendId)>>,
                <<Subscription, PublishPacket(TRUE)>>, <<Subscription, Control("PUBREL", SendId)>>}
        BY ZenonT(60), <1>5, Zenon DEF Answers
      <4>. QED
        BY <3>3, <3>4, <4>1, Zenon
    <3>. QED
      BY <3>1, <3>2, <3>5, Zenon
  <2>. QED
    BY Zenon, <1>1, <1>3, <1>4, <1>b, <2>1, AddsMild DEF ToServer
<1>6. /\ p.type # "PUBLISH" => received' = received
      /\ p.type = "PUBLISH" =>
                 /\ p.qos > 0
                 /\ \/ p.qos = 2 /\ p.id \in cIds /\ UNCHANGED <<received, cIds>>
                    \/ /\ ~(p.qos = 2 /\ p.id \in cIds)
                       /\ received' = Append(received, [msg |-> p.msg, qos |-> p.qos])
                       /\ cIds' = IF p.qos = 2 THEN cIds \cup {p.id} ELSE cIds
      /\ p.type = "CONNACK" => cIds' = IF p.flag THEN cIds ELSE {}
      /\ p.type = "PUBREL" => cIds' = cIds \ {p.id}
      /\ p.type \notin {"CONNACK", "PUBLISH", "PUBREL"} => cIds' = cIds
  BY DEF ClientRead, OnConnack, OnPublish, OnPubrel, OnPubrec, OnPubcomp, OnSuback
<1>. QED
  BY <1>1, <1>2, <1>5, <1>6

(* How the client answers a message. *)
LEMMA PublishAnswered ==
    ASSUME BaseInv, NEW c \in Conns, ClientRead(c), NEW p, p = Head(mSendTasks[c]), p.type = "PUBLISH",
           NEW d \in Conns, NEW n \in DOMAIN toServer'[d]
    PROVE  \/ Passed(d, toServer'[d][n])
           \/ d = c /\ \E t \in {"PUBACK", "PUBREC"} : toServer'[d][n] = Control(t, p.id)
<1>b. ClientTypes /\ mSendTasks \in [Conns -> Seq(Packets)]
  BY Zenon DEF BaseInv, Inv, TypeOK
<1>4. p \in Packets
  BY <1>b, SeqFacts DEF ClientRead
<1>5. PICK a \in Answers(p) : ToServer(c, a)
  BY <1>b, ReadAnswers
<1>6. a \in Seq(Packets)
  BY <1>b, <1>4, AnswerPackets
<1>1. \/ a = <<>>
      \/ \E t \in {"PUBACK", "PUBREC"} : a = <<Control(t, p.id)>>
  BY Zenon DEF Answers
<1>2. \A m \in DOMAIN a : \E t \in {"PUBACK", "PUBREC"} : a[m] = Control(t, p.id)
  BY <1>1
<1>3. \/ \E m \in DOMAIN toServer[d] : toServer'[d][n] = toServer[d][m]
      \/ d = c /\ \E m \in DOMAIN a : toServer'[d][n] = a[m]
  BY <1>5, <1>6, <1>b, AddsTo
<1>. HIDE DEF Control
<1>. QED
  BY <1>2, <1>3 DEF Passed

(* The messages the client has. *)
LEMMA ReceivedFacts ==
    ASSUME ClientTypes
    PROVE  /\ \A j \in DOMAIN received : received[j].msg \in ReceivedMsgs
           /\ \A m \in ReceivedMsgs : \E j \in DOMAIN received : received[j].msg = m
           /\ \A e \in [msg: 0..MaxPublish, qos: QoS] : received' = Append(received, e) =>
                 /\ ReceivedMsgs' = ReceivedMsgs \cup {e.msg}
                 /\ DOMAIN received' = DOMAIN received \cup {Len(received) + 1}
                 /\ received'[Len(received) + 1] = e /\ Len(received) \in Nat
                 /\ \A j \in DOMAIN received : received'[j] = received[j] /\ j \in 1..Len(received)
<1>1. received \in Seq([msg: 0..MaxPublish, qos: QoS])
  BY DEF ClientTypes
<1>2. ASSUME NEW e \in [msg: 0..MaxPublish, qos: QoS], received' = Append(received, e)
      PROVE  /\ DOMAIN received' = DOMAIN received \cup {Len(received) + 1}
             /\ received'[Len(received) + 1] = e /\ Len(received) \in Nat
             /\ \A j \in DOMAIN received : received'[j] = received[j] /\ j \in 1..Len(received)
  BY <1>1, <1>2
<1>3. ASSUME NEW e \in [msg: 0..MaxPublish, qos: QoS], received' = Append(received, e)
      PROVE  ReceivedMsgs' = ReceivedMsgs \cup {e.msg}
  BY <1>2, <1>3 DEF ReceivedMsgs, Elements
<1>4. /\ \A j \in DOMAIN received : received[j].msg \in ReceivedMsgs
      /\ \A m \in ReceivedMsgs : \E j \in DOMAIN received : received[j].msg = m
  BY DEF ReceivedMsgs, Elements
<1>. QED
  BY Zenon, <1>2, <1>3, <1>4

(* The client forgets no message. *)
LEMMA HadStep ==
    ASSUME BaseInv, IdInv, Setting, [DNext]_allVars
    PROVE  Had \subseteq Had' /\ ReceivedMsgs \subseteq ReceivedMsgs'
<1>1. ReceivedMsgs \subseteq ReceivedMsgs'
  <2>1. CASE received' = received
    BY <2>1 DEF ReceivedMsgs, Elements
  <2>2. ASSUME NEW c \in Conns, ClientRead(c) PROVE ReceivedMsgs \subseteq ReceivedMsgs'
    <3>. DEFINE p == Head(mSendTasks[c])
    <3>1. p \in Packets /\ (received' = received \/ received' = Append(received, [msg |-> p.msg, qos |-> p.qos]))
      BY <2>2, ReadEffect
    <3>2. [msg |-> p.msg, qos |-> p.qos] \in [msg: 0..MaxPublish, qos: QoS]
      BY <3>1 DEF Packets
    <3>. HIDE DEF p
    <3>. QED
      BY <2>1, <3>1, <3>2, ReceivedFacts DEF BaseInv
  <2>. QED
    BY Zenon, <2>1, <2>2, Kinds, AckEffect, LoginEffect, PublishEffect DEF Routine
<1>2. Grows
  BY IdStep
<1>3. CASE LastId = 1
  BY <1>1, <1>3 DEF Had, Given
<1>4. CASE Offset' = Offset
  BY <1>1, <1>2, <1>4 DEF Had, Grows
<1>. QED
  BY <1>2, <1>3, <1>4 DEF Grows

(* Which messages leave and enter the flight. *)
LEMMA FlyingStep ==
    ASSUME BaseInv, IdInv, Setting, [DNext]_allVars
    PROVE  /\ \A i \in Flying : \/ i \in Flying'
                                \/ \E c \in Conns : /\ recv[c].packet.type \in {"PUBACK", "PUBREC"}
                                                    /\ i = recv[c].packet.id
           /\ \A i \in Given' : i \in Given \/ i \in Flying'
<1>. USE ConstantsAssumption
<1>t. LastId \in Nat /\ LastId >= 1 /\ Sess \in Conns \cup {Null}
  BY IdTypes
<1>h. mHighQoSSendingPackets \in [Conns -> [Ids -> Slots]]
  BY Zenon DEF BaseInv, Inv, TypeOK
<1>1. ASSUME UNCHANGED <<mPersistentClientStates, mHighQoSSendingPackets>> PROVE Flying' = Flying
  BY <1>1 DEF Flying, InFlight, Sess
<1>2. ASSUME NEW c \in Conns, Acknowledges(c)
      PROVE  \A i \in Flying : \/ i \in Flying'
                                \/ /\ recv[c].packet.type \in {"PUBACK", "PUBREC"}
                                   /\ i = recv[c].packet.id
  <2>1. CASE mHighQoSSendingPackets' = mHighQoSSendingPackets
    BY Zenon, <1>1, <1>2, <2>1, AckEffect
  <2>2. CASE /\ recv[c].packet.type \in {"PUBACK", "PUBREC"}
             /\ mHighQoSSendingPackets' = [mHighQoSSendingPackets EXCEPT ![Sess] =
                      [i \in Ids |-> IF i = recv[c].packet.id THEN Free ELSE @[i]]]
    <3>1. Sess \in Conns /\ Sess' = Sess
      BY Zenon, <1>2, AckEffect DEF Sess
    <3>2. \A i \in Ids : i # recv[c].packet.id => mHighQoSSendingPackets'[Sess][i] = mHighQoSSendingPackets[Sess][i]
      BY <1>h, <2>2, <3>1
    <3>. QED
      BY <2>2, <3>1, <3>2 DEF Flying, InFlight
  <2>. QED
    BY Zenon, <1>2, <2>1, <2>2, AckEffect
<1>3. ASSUME NEW c \in Conns, LogsIn(c) PROVE Flying' = Flying
  <2>1. CASE Sess = Null /\ Sess' = c /\ mHighQoSSendingPackets'[c] = [i \in Ids |-> Free]
    BY <2>1 DEF Flying, InFlight
  <2>. QED
    BY <1>1, <1>3, <2>1, LoginEffect
<1>4. ASSUME NEW qos \in PublishQoS, ServerPublish(qos)
      PROVE  Flying \subseteq Flying' /\ \A i \in Given' : i \in Given \/ i \in Flying'
  <2>1. CASE PublishesToNobody
    <3>1. Flying' = Flying /\ LastId' = LastId
      BY <1>1, <1>4, <2>1, PublishEffect DEF PublishesToNobody, LastId, Sess
    <3>. QED
      BY <3>1 DEF Given
  <2>2. CASE PublishesTo(qos)
    <3>1. Sess \in Conns /\ Sess' = Sess /\ LastId' = LastId + 1
      BY Zenon, <1>4, <2>2, PublishEffect DEF PublishesTo, LastId, Sess
    <3>2. [msg |-> mGlobalOrderCount + 1, qos |-> qos] # Free
      <4>1. mGlobalOrderCount + 1 # 0
        BY IdTypes
      <4>. QED
        BY <4>1 DEF Free
    <3>3. /\ \A i \in Ids : i # LastId + 1 => mHighQoSSendingPackets'[Sess][i] = mHighQoSSendingPackets[Sess][i]
          /\ LastId + 1 \in Ids /\ mHighQoSSendingPackets'[Sess][LastId + 1] # Free
      BY <2>2, <3>1, <3>2 DEF PublishesTo
    <3>4. Flying \subseteq Flying' /\ LastId + 1 \in Flying'
      BY <2>2, <3>1, <3>3 DEF Flying, InFlight, PublishesTo
    <3>. QED
      BY <1>t, <3>1, <3>4 DEF Given
  <2>. QED
    BY <1>4, <2>1, <2>2, PublishEffect
<1>5. CASE IdsKept
  <2>1. Given' = Given
    BY <1>5 DEF IdsKept, Given
  <2>2. ASSUME NEW c \in Conns, ClientRead(c) PROVE Flying' = Flying
    BY Zenon, <1>1, <2>2, ReadEffect DEF coreVars
  <2>3. CASE Routine
    BY <1>1, <2>1, <2>3 DEF Routine, coreVars
  <2>. QED
    BY <1>2, <1>3, <1>4, <2>1, <2>2, <2>3, Kinds
<1>. QED
  BY <1>4, <1>5, IdSteps

(* The client reads a message. *)
LEMMA HeadPublish ==
    ASSUME Flow, Setting, [DNext]_allVars, NEW c \in Conns, ClientRead(c),
           NEW p, p = Head(mSendTasks[c]), p.type = "PUBLISH"
    PROVE  /\ p.id \in Had' /\ p.id \in Given /\ p.msg = p.id + Offset
           /\ p.id \notin PubIds(Tail(mSendTasks[c]))
           /\ \A i \in 2..(p.id - 1) : i \in Had
<1>b. BaseInv /\ IdInv /\ StreamInv /\ HadInv /\ ClientTypes
  BY DEF Flow, BaseInv
<1>t. LastId \in Nat /\ Offset \in Int
  BY <1>b, IdTypes
<1>1. /\ mSendTasks[c] \in Seq(Packets) /\ mSendTasks[c] # <<>> /\ p \in Packets
      /\ WellSent(mSendTasks[c], LastId, Offset, Flying, Had)
  BY Zenon, <1>b, ReadEffect DEF BaseInv, Inv, TypeOK, StreamInv
<1>2. /\ p.id \in 2..LastId /\ p.msg = p.id + Offset
      /\ p.id \notin PubIds(Tail(mSendTasks[c]))
      /\ \A i \in 2..(p.id - 1) : i \in Had
  <2>. DEFINE h == Had \cup {p.id}
              s == mSendTasks[c]
  <2>1. Had \subseteq h /\ Head(s).id \in h /\ Head(s).type = "PUBLISH"
    OBVIOUS
  <2>4. Head(s) = p
    OBVIOUS
  <2>2. s \in Seq(Packets) /\ s # <<>> /\ WellSent(s, LastId, Offset, Flying, Had)
    BY <1>1
  <2>. HIDE DEF h, s
  <2>3. Head(s).id \notin PubIds(Tail(s)) /\ Head(s).id \in 2..LastId
    BY ZenonT(60), <1>t, <2>1, <2>2, SentTail
  <2>6. Head(s).msg = Head(s).id + Offset
    <3>1. s[1] = Head(s) /\ 1 \in DOMAIN s
      BY <2>2, SeqFacts
    <3>. QED
      BY <2>1, <2>2, <3>1 DEF WellSent
  <2>5. \A i \in 2..(Head(s).id - 1) : i \in Had
    BY ZenonT(60), <1>t, <2>1, <2>2, SentTail
  <2>. QED
    BY <2>3, <2>4, <2>5, <2>6 DEF s
<1>3. CASE p.id \in cIds
  BY <1>2, <1>3, <1>b, HadStep DEF HadInv, Given
<1>4. CASE received' = Append(received, [msg |-> p.msg, qos |-> p.qos])
  <2>1. [msg |-> p.msg, qos |-> p.qos] \in [msg: 0..MaxPublish, qos: QoS]
    BY <1>1 DEF Packets
  <2>2. p.msg \in ReceivedMsgs'
    <3>1. ReceivedMsgs' = ReceivedMsgs \cup {[msg |-> p.msg, qos |-> p.qos].msg}
      BY <1>4, <1>b, <2>1, ReceivedFacts
    <3>. QED
      BY <3>1
  <2>3. LastId' = LastId /\ Offset' = Offset
    BY Zenon, <1>b, ReadEffect DEF coreVars, LastId, Offset, Sess
  <2>. QED
    BY <1>2, <2>2, <2>3 DEF Had, Given
<1>. QED
  BY <1>3, <1>4, <1>b, ReadEffect

(* What becomes of the streams. *)
LEMMA StreamStep ==
    ASSUME Flow, Setting, [DNext]_allVars, BaseInv', NEW c \in Conns
    PROVE  /\ WellSent(mSendTasks'[c], LastId', Offset', Flying', Had')
           /\ \/ /\ PubIds(mSendTasks'[c]) \subseteq PubIds(mSendTasks[c])
                 /\ \A i \in PubIds(mSendTasks[c]) : i \in PubIds(mSendTasks'[c]) \/ i \in Had' \/ conn' # c
              \/ /\ PubIds(mSendTasks'[c]) = PubIds(mSendTasks[c]) \cup {LastId + 1}
                 /\ LastId' = LastId + 1
              \/ LogsIn(c)
           /\ LogsIn(c) => /\ PubIds(mSendTasks'[c]) \subseteq Flying
                           /\ c \in reading => PubIds(mSendTasks'[c]) = Flying
<1>. USE ConstantsAssumption
<1>b. BaseInv /\ IdInv /\ StreamInv /\ AttachedInv /\ AnswerInv /\ FreeInv /\ HadInv
  BY DEF Flow
<1>t. /\ LastId \in Nat /\ LastId >= 1 /\ Offset \in Int /\ LastId' \in Nat /\ Offset' \in Int
      /\ Flying \subseteq Ids
  <2>1. LastId' \in Nat /\ Offset' \in Int
    <3>1. /\ mPacketIdCounter' \in [Conns -> Ids] /\ mGlobalOrderCount' \in 0..MaxPublish
          /\ Sess' \in Conns \cup {Null}
      BY Zenon DEF BaseInv, Inv, TypeOK, Sess
    <3>2. LastId' \in Nat
      BY <3>1 DEF LastId, Ids
    <3>. QED
      BY <3>1, <3>2 DEF Offset
  <2>. QED
    BY <1>b, <2>1, IdTypes
<1>s. mSendTasks \in [Conns -> Seq(Packets)] /\ mSendTasks' \in [Conns -> Seq(Packets)]
      /\ mSendTasks[c] \in Seq(Packets) /\ mSendTasks'[c] \in Seq(Packets) /\ TypeOK
  BY Zenon, <1>b DEF BaseInv, Inv, TypeOK
<1>w. WellSent(mSendTasks[c], LastId, Offset, Flying, Had)
  BY <1>b DEF StreamInv
<1>g. Had \subseteq Had' /\ LastId <= LastId' /\ (LastId = 1 \/ Offset' = Offset)
      /\ Flying' \cap (2..LastId) \subseteq Flying
  BY <1>b, HadStep, IdStep DEF Grows, Given
<1>n. ASSUME NEW s, WellSent(s, LastId, Offset, Flying, Had')
      PROVE  WellSent(s, LastId', Offset', Flying', Had') /\ WellSent(<<>>, LastId', Offset', Flying', Had')
  BY <1>g, <1>n, <1>t, SentGrows
<1>m. ASSUME NEW s, WellSent(s, LastId, Offset, Flying, Had)
      PROVE  WellSent(s, LastId', Offset', Flying', Had') /\ WellSent(<<>>, LastId', Offset', Flying', Had')
  BY <1>g, <1>m, <1>t, SentGrows
<1>p. PubIds(<<>>) = {}
  BY DEF PubIds
<1>u. ASSUME mSendTasks'[c] = mSendTasks[c]
      PROVE  /\ WellSent(mSendTasks'[c], LastId', Offset', Flying', Had')
             /\ PubIds(mSendTasks'[c]) = PubIds(mSendTasks[c])
  BY <1>m, <1>u, <1>w
<1>1. ASSUME Routine
      PROVE  /\ WellSent(mSendTasks'[c], LastId', Offset', Flying', Had')
             /\ PubIds(mSendTasks'[c]) \subseteq PubIds(mSendTasks[c])
             /\ \A i \in PubIds(mSendTasks[c]) : i \in PubIds(mSendTasks'[c]) \/ i \in Had' \/ conn' # c
  <2>1. CASE mSendTasks'[c] = <<>> /\ conn' # c
    BY <1>m, <1>p, <1>w, <2>1
  <2>2. ASSUME NEW p \in Packets, Plain(p), mSendTasks'[c] = Append(mSendTasks[c], p)
        PROVE  /\ WellSent(mSendTasks'[c], LastId', Offset', Flying', Had')
               /\ PubIds(mSendTasks'[c]) = PubIds(mSendTasks[c])
    <3>1. WellSent(Append(mSendTasks[c], p), LastId, Offset, Flying, Had)
      BY <1>s, <1>t, <1>w, <2>2, SentAppend
    <3>2. p.type # "PUBLISH"
      BY <2>2 DEF Plain
    <3>3. PubIds(Append(mSendTasks[c], p)) = PubIds(mSendTasks[c]) \cup {}
      BY Zenon, <1>s, <3>2, PubIdsFacts
    <3>. QED
      BY <1>m, <2>2, <3>1, <3>3
  <2>3. CASE mSendTasks[c] # <<>> /\ Plain(Head(mSendTasks[c])) /\ mSendTasks'[c] = Tail(mSendTasks[c])
    <3>1. Head(mSendTasks[c]).type # "PUBLISH"
      BY <2>3 DEF Plain
    <3>2. WellSent(Tail(mSendTasks[c]), LastId, Offset, Flying, Had)
      BY <1>s, <1>t, <1>w, <2>3, <3>1, SentTail
    <3>3. PubIds(Tail(mSendTasks[c])) = PubIds(mSendTasks[c])
      <4>1. PubIds(Tail(mSendTasks[c])) \subseteq PubIds(mSendTasks[c])
        BY <1>s, <2>3, PubIdsFacts
      <4>2. \A i \in PubIds(mSendTasks[c]) : i \in PubIds(Tail(mSendTasks[c]))
        BY <1>s, <2>3, <3>1, PubIdsFacts
      <4>. QED
        BY Zenon, <4>1, <4>2
    <3>. QED
      BY <1>m, <2>3, <3>2, <3>3
  <2>. QED
    BY <1>1, <1>u, <2>1, <2>2, <2>3 DEF Routine, KeepsStream
<1>2. ASSUME NEW d \in Conns, ClientRead(d)
      PROVE  /\ WellSent(mSendTasks'[c], LastId', Offset', Flying', Had')
             /\ PubIds(mSendTasks'[c]) \subseteq PubIds(mSendTasks[c])
             /\ \A i \in PubIds(mSendTasks[c]) : i \in PubIds(mSendTasks'[c]) \/ i \in Had'
  <2>. DEFINE p == Head(mSendTasks[d])
  <2>1. p \in Packets /\ mSendTasks[d] # <<>> /\ mSendTasks' = [mSendTasks EXCEPT ![d] = Tail(@)]
    BY Zenon, <1>2, <1>b, ReadEffect
  <2>2. CASE c # d
    <3>1. mSendTasks'[c] = mSendTasks[c]
      BY <1>s, <2>1, <2>2
    <3>. QED
      BY <1>m, <1>w, <3>1
  <2>3. CASE c = d
    <3>1. mSendTasks'[c] = Tail(mSendTasks[c]) /\ mSendTasks[c] # <<>>
      BY <1>s, <2>1, <2>3
    <3>2. p.type = "PUBLISH" => p.id \in Had'
      BY <1>2, HeadPublish
    <3>3. WellSent(Tail(mSendTasks[c]), LastId, Offset, Flying, Had')
      BY SMTT(60), <1>g, <1>s, <1>t, <1>w, <2>3, <3>1, <3>2, SentTail
    <3>4. /\ PubIds(Tail(mSendTasks[c])) \subseteq PubIds(mSendTasks[c])
          /\ \A i \in PubIds(mSendTasks[c]) :
                 i \in PubIds(Tail(mSendTasks[c])) \/ (p.type = "PUBLISH" /\ i = p.id)
      <4>1. /\ PubIds(Tail(mSendTasks[c])) \subseteq PubIds(mSendTasks[c])
            /\ \A i \in PubIds(mSendTasks[c]) :
                 \/ i \in PubIds(Tail(mSendTasks[c]))
                 \/ Head(mSendTasks[c]).type = "PUBLISH" /\ i = Head(mSendTasks[c]).id
        BY <1>s, <3>1, PubIdsFacts
      <4>. QED
        BY <2>3, <4>1
    <3>. QED
      BY <1>n, <3>1, <3>2, <3>3, <3>4
  <2>. QED
    BY <2>2, <2>3
<1>3. ASSUME NEW d \in Conns, Acknowledges(d)
      PROVE  /\ WellSent(mSendTasks'[c], LastId', Offset', Flying', Had')
             /\ PubIds(mSendTasks'[c]) = PubIds(mSendTasks[c])
  <2>1. CASE mSendTasks'[c] = mSendTasks[c]
    BY <1>m, <1>w, <2>1
  <2>2. CASE mSendTasks'[c] # mSendTasks[c]
    <3>. DEFINE p == recv[d].packet
                r == Control("PUBREL", recv[d].packet.id)
    <3>1. p.type = "PUBREC" /\ Storing(d) /\ Send(d, <<r>>)
      BY <1>3, <1>b, <2>2, AckEffect
    <3>2. p \in Packets /\ p.id \in BitIds
      <4>1. p \in Packets
        BY Zenon, <1>s DEF TypeOK
      <4>. QED
        BY <4>1 DEF Packets, BitIds
    <3>3. MayBeBit(p.id)
      BY <3>1 DEF MayBeBit
    <3>4. p.id \in 2..LastId /\ p.id \notin Flying
      BY <1>b, <3>2, <3>3 DEF FreeInv, Given
    <3>5. c = d /\ d \in reading
      BY <1>s, <2>2, <3>1, SendsOn
    <3>6. p.id \notin PubIds(mSendTasks[c])
      BY <1>b, <3>1, <3>5 DEF AnswerInv, Acked
    <3>7. r \in Packets /\ r.type = "PUBREL" /\ r.id = p.id
      <4>1. r \in Packets
        BY <3>2, PacketTypesOK DEF PacketTypes
      <4>. QED
        BY <4>1 DEF Control, Packet
    <3>8. mSendTasks'[c] = Append(mSendTasks[c], r)
      <4>1. mSendTasks'[c] = mSendTasks[c] \o <<r>>
        <5>. HIDE DEF r
        <5>. QED
          BY <1>s, <3>1, <3>5, SendsOn, Zenon
      <4>. HIDE DEF r
      <4>. QED
        BY <1>s, <3>7, <4>1
    <3>. HIDE DEF p, r
    <3>9. WellSent(Append(mSendTasks[c], r), LastId, Offset, Flying, Had)
      BY <1>s, <1>t, <1>w, <3>4, <3>6, <3>7, SentAppend
    <3>10. PubIds(Append(mSendTasks[c], r)) = PubIds(mSendTasks[c]) \cup {}
      BY Zenon, <1>s, <3>7, PubIdsFacts
    <3>. QED
      BY <1>m, <3>8, <3>9, <3>10
  <2>. QED
    BY <2>1, <2>2
<1>4. ASSUME NEW d \in Conns, LogsIn(d), c # d PROVE mSendTasks'[c] = mSendTasks[c]
  <2>1. \E s : Send(d, s)
    BY Zenon, <1>4 DEF LogsIn, LoginNewSession, LoginResumeSession
  <2>. QED
    BY <1>4, <1>s, <2>1, SendsOn
<1>5. ASSUME LogsIn(c)
      PROVE  /\ WellSent(mSendTasks'[c], LastId', Offset', Flying', Had')
             /\ PubIds(mSendTasks'[c]) \subseteq Flying
             /\ c \in reading => PubIds(mSendTasks'[c]) = Flying
  <2>e. mSendTasks[c] = <<>>
    BY <1>5, <1>b, LoginEffect
  <2>1. CASE c \notin reading
    <3>1. \E s : Send(c, s)
      BY Zenon, <1>5 DEF LogsIn, LoginNewSession, LoginResumeSession
    <3>2. mSendTasks'[c] = <<>>
      BY <1>s, <2>1, <2>e, <3>1, SendsOn
    <3>. QED
      BY <1>m, <1>p, <1>w, <2>1, <3>2
  <2>2. CASE c \in reading /\ Sess = Null /\ Send(c, <<Packet("CONNACK", 0, 0, 0, FALSE)>>)
    <3>. DEFINE r == Packet("CONNACK", 0, 0, 0, FALSE)
    <3>1. r \in Packets /\ r.type = "CONNACK"
      BY Zenon, PacketTypesOK DEF Packet
    <3>. HIDE DEF r
    <3>2. mSendTasks'[c] = <<>> \o <<r>>
      <4>1. mSendTasks'[c] = mSendTasks[c] \o <<r>>
        BY <1>s, <2>2, SendsOn, Zenon DEF r
      <4>. QED
        BY <2>e, <4>1
    <3>3. mSendTasks'[c] = <<r>>
      <4>1. <<r>> \in Seq(Packets)
        BY <3>1
      <4>. QED
        BY <3>2, <4>1, ConcatEmptySeq
    <3>4. PubIds(<<r>>) = {}
      BY <3>1 DEF PubIds
    <3>5. WellSent(<<r>>, LastId', Offset', Flying', Had')
      BY <3>1, <3>4 DEF WellSent
    <3>6. Flying = {}
      BY <2>2 DEF Flying
    <3>. QED
      BY <3>3, <3>4, <3>5, <3>6
  <2>3. CASE c \in reading /\ Sess \in Conns /\ LoginResumeSession(c, Sess)
    <3>. DEFINE s == mSendTasks'[c]
    <3>0. Flying = InFlight(Sess)
      BY SMTT(60), <2>3, <1>b, IdTypes
    <3>1. /\ \A n \in DOMAIN s :
                 \/ s[n].type = "CONNACK" /\ n = 1
                 \/ /\ s[n].type = "PUBLISH" /\ s[n].id \in Flying
                    /\ s[n].msg = mHighQoSSendingPackets[Sess][s[n].id].msg
                 \/ s[n].type = "PUBREL" /\ s[n].id \in mQos2pubrecReceived[Sess]
          /\ PubIds(s) = Flying
          /\ \A n, l \in DOMAIN s :
                 s[n].type = "PUBLISH" /\ s[l].type = "PUBLISH" /\ n < l
                 => mHighQoSSendingPackets[Sess][s[n].id].msg < mHighQoSSendingPackets[Sess][s[l].id].msg
      BY Zenon, <1>b, <1>s, <2>3, <2>e, <3>0, ResumedStream
    <3>. HIDE DEF s
    <3>2. \A i \in Flying : i \in 2..LastId /\ mHighQoSSendingPackets[Sess][i].msg = i + Offset
      BY <1>b DEF IdInv, Given
    <3>3. \A i \in mQos2pubrecReceived[Sess] : i \in 2..LastId /\ i \notin Flying
      <4>1. mQos2pubrecReceived[Sess] \subseteq BitIds
        BY Zenon, <1>s, <2>3 DEF TypeOK
      <4>2. \A i \in mQos2pubrecReceived[Sess] : MayBeBit(i)
        BY <2>3 DEF MayBeBit
      <4>. QED
        BY <1>b, <4>1, <4>2 DEF FreeInv, Given
    <3>4. \A i \in 2..LastId : i \in Had \/ i \in Flying
      BY <1>b DEF HadInv, Given
    <3>5. WellSent(s, LastId, Offset, Flying, Had)
      <4>1. /\ \A n \in DOMAIN s : s[n].type = "PUBLISH" => s[n].id \in 2..LastId /\ s[n].msg = s[n].id + Offset
            /\ \A n \in DOMAIN s : s[n].type = "CONNACK" => n = 1
        BY <3>1, <3>2
      <4>2. ASSUME NEW n \in DOMAIN s, NEW l \in DOMAIN s, s[n].type = "PUBLISH", s[l].type = "PUBLISH", n < l
            PROVE  s[n].id < s[l].id
        <5>1. s[n].id \in Flying /\ s[l].id \in Flying
          BY <3>1, <4>2
        <5>2. mHighQoSSendingPackets[Sess][s[n].id].msg < mHighQoSSendingPackets[Sess][s[l].id].msg
          BY <3>1, <4>2
        <5>3. s[n].id + Offset < s[l].id + Offset /\ s[n].id \in 2..LastId /\ s[l].id \in 2..LastId
          BY <3>2, <5>1, <5>2
        <5>. QED
          BY <1>t, <5>3
      <4>3. \A n \in DOMAIN s : s[n].type = "PUBREL" =>
               s[n].id \in 2..LastId /\ s[n].id \notin Flying /\ s[n].id \notin PubIds(s)
        BY <3>1, <3>3
      <4>4. \A j \in PubIds(s) : \A i \in 2..j : i \in Had \/ i \in PubIds(s)
        BY <1>t, <3>1, <3>2, <3>4
      <4>. QED
        BY <4>1, <4>2, <4>3, <4>4 DEF WellSent
    <3>. QED
      BY <1>m, <3>1, <3>5 DEF s
  <2>. QED
    BY Zenon, <1>5, <1>b, <2>1, <2>2, <2>3, LoginEffect
<1>6. ASSUME NEW qos \in PublishQoS, ServerPublish(qos), PublishesTo(qos), mSendTasks'[c] # mSendTasks[c]
      PROVE  /\ WellSent(mSendTasks'[c], LastId', Offset', Flying', Had')
             /\ PubIds(mSendTasks'[c]) = PubIds(mSendTasks[c]) \cup {LastId + 1}
             /\ LastId' = LastId + 1
  <2>. DEFINE p == Packet("PUBLISH", LastId + 1, mGlobalOrderCount + 1, qos, FALSE)
  <2>1. /\ c \in reading /\ mCurrentClient[Sess] = c /\ Sess \in Conns /\ LastId + 1 \in Ids
        /\ mSendTasks'[c] = Append(mSendTasks[c], p)
    <3>1. c \in reading /\ mCurrentClient[Sess] = c /\ Sess \in Conns /\ LastId + 1 \in Ids
      BY Zenon, <1>6 DEF PublishesTo
    <3>. HIDE DEF Packet
    <3>. QED
      BY Zenon, <1>6, <3>1 DEF PublishesTo
  <2>2. LastId' = LastId + 1 /\ Offset' = Offset
    <3>1. Sess' = Sess
      BY <1>6, <1>b, PublishEffect DEF Sess
    <3>. QED
      BY SMTT(60), <1>6, <1>t, <1>b, <3>1, IdTypes DEF PublishesTo, LastId, Offset
  <2>3. Attached(c)
    BY <1>b, <2>1 DEF Attached, BaseInv, PeerInv
  <2>4. \A i \in 2..LastId : i \in Had \/ i \in PubIds(mSendTasks[c])
    BY <1>b, <2>3 DEF AttachedInv, Given
  <2>5. p \in Packets /\ p.type = "PUBLISH" /\ p.id = LastId + 1 /\ p.msg = p.id + Offset
    <3>1. LastId + 1 \in BitIds /\ qos \in QoS
      BY <1>6, <2>1 DEF Ids, BitIds, QoS, PublishesTo
    <3>2. mGlobalOrderCount + 1 \in 0..MaxPublish
      <4>1. mGlobalOrderCount' \in 0..MaxPublish
        BY Zenon DEF BaseInv, Inv, TypeOK
      <4>. QED
        BY <1>6, <4>1 DEF PublishesTo
    <3>3. p \in Packets
      BY Zenon, <3>1, <3>2, PacketTypesOK
    <3>4. mGlobalOrderCount + 1 = (LastId + 1) + Offset
      BY <1>b, <1>t, IdTypes DEF Offset
    <3>. QED
      BY <3>3, <3>4 DEF Packet
  <2>. HIDE DEF p
  <2>6. WellSent(Append(mSendTasks[c], p), LastId + 1, Offset, Flying \cup {LastId + 1}, Had)
    BY Zenon, <1>s, <1>t, <1>w, <2>4, <2>5, SentNext
  <2>7. WellSent(Append(mSendTasks[c], p), LastId + 1, Offset, Flying', Had')
    <3>1. Flying' \cap (2..(LastId + 1)) \subseteq Flying \cup {LastId + 1}
      BY <1>g, <1>t
    <3>2. LastId + 1 \in Nat /\ LastId + 1 <= LastId + 1
      BY <1>t
    <3>. QED
      BY <1>g, <1>t, <2>6, <3>1, <3>2, SentGrows
  <2>8. PubIds(Append(mSendTasks[c], p)) = PubIds(mSendTasks[c]) \cup {LastId + 1}
    BY <1>s, <2>5, PubIdsFacts
  <2>. QED
    BY <2>1, <2>2, <2>7, <2>8
<1>7. ASSUME NEW qos \in PublishQoS, ServerPublish(qos), PublishesToNobody PROVE mSendTasks'[c] = mSendTasks[c]
  BY <1>7 DEF PublishesToNobody
<1>8. CASE LogsIn(c)
  BY <1>5, <1>8
<1>9. CASE ~LogsIn(c)
  BY <1>1, <1>2, <1>3, <1>4, <1>6, <1>7, <1>9, <1>b, <1>u, Kinds, PublishEffect
<1>. QED
  BY <1>8, <1>9

(* Every message stays with the client or on its way to it. *)
LEMMA AttachedStep ==
    ASSUME Flow, Setting, [DNext]_allVars, BaseInv' PROVE AttachedInv'
<1>. USE ConstantsAssumption
<1>b. BaseInv /\ IdInv /\ AttachedInv /\ HadInv /\ TypeOK
  BY DEF Flow, BaseInv, Inv
<1>t. LastId \in Nat /\ LastId >= 1
  BY <1>b, IdTypes
<1>h. Had \subseteq Had'
  BY <1>b, HadStep
<1>k. ASSUME IdsKept PROVE Given' = Given
  BY <1>k DEF IdsKept, Given
<1>. SUFFICES ASSUME NEW c \in Conns, Attached(c)', NEW i \in Given'
              PROVE  i \in Had' \/ i \in PubIds(mSendTasks'[c])
  BY DEF AttachedInv
<1>c. conn' = c
  BY DEF Attached
<1>1. CASE LogsIn(c)
  <2>1. conn = c /\ mGlobalOrderCount' = mGlobalOrderCount
    BY <1>1, <1>b, <1>c, LoginEffect
  <2>2. c \in reading
    BY <1>b, <2>1 DEF BaseInv, PeerInv
  <2>3. PubIds(mSendTasks'[c]) = Flying
    BY <1>1, <2>2, StreamStep
  <2>4. IdsKept
    <3>1. mGlobalOrderCount + 1 # mGlobalOrderCount
      BY <1>b, IdTypes
    <3>. QED
      BY Zenon, <1>b, <2>1, <3>1, IdSteps DEF PublishesTo, PublishesToNobody
  <2>. QED
    BY <1>b, <1>h, <1>k, <2>3, <2>4 DEF HadInv
<1>2. CASE ~LogsIn(c)
  <2>1. Attached(c)
    <3>1. ASSUME UNCHANGED <<mPersistentClientStates, mCurrentClient, conn>> PROVE Attached(c)
      BY <3>1 DEF Attached, Sess
    <3>2. ASSUME NEW d \in Conns, LogsIn(d) PROVE FALSE
      <4>1. Sess' \in Conns /\ mCurrentClient'[Sess'] = d
        <5>1. CASE Sess = Null /\ LoginNewSession(d, FALSE)
          BY ZenonT(60), <1>b, <5>1 DEF LoginNewSession, ReplaceCurrentClient, Sess, TypeOK
        <5>2. CASE Sess \in Conns /\ LoginResumeSession(d, Sess)
          BY Zenon, <1>b, <5>2 DEF LoginResumeSession, ReplaceCurrentClient, Sess, mapVars, TypeOK
        <5>. QED
          BY Zenon, <3>2, <5>1, <5>2 DEF LogsIn
      <4>. QED
        BY <1>2, <3>2, <4>1 DEF Attached
    <3>3. ASSUME NEW d \in Conns, ClientRead(d) PROVE Attached(c)
      BY Zenon, <1>b, <3>1, <3>3, ReadEffect DEF coreVars
    <3>4. ASSUME NEW d \in Conns, Acknowledges(d) PROVE Attached(c)
      BY Zenon, <1>b, <3>1, <3>4, AckEffect
    <3>5. ASSUME NEW qos \in PublishQoS, ServerPublish(qos) PROVE Attached(c)
      BY <1>b, <3>1, <3>5, PublishEffect
    <3>. QED
      BY <1>b, <3>2, <3>3, <3>4, <3>5, Kinds DEF Routine
  <2>2. ASSUME i \in Given PROVE i \in Had' \/ i \in PubIds(mSendTasks'[c])
    <3>1. i \in Had \/ i \in PubIds(mSendTasks[c])
      BY <1>b, <2>1, <2>2 DEF AttachedInv
    <3>2. \A j \in PubIds(mSendTasks[c]) : j \in PubIds(mSendTasks'[c]) \/ j \in Had'
      BY <1>2, <1>c, StreamStep
    <3>. QED
      BY <1>h, <3>1, <3>2
  <2>3. ASSUME NEW qos \in PublishQoS, ServerPublish(qos), PublishesTo(qos)
        PROVE  i \in Given \/ i \in PubIds(mSendTasks'[c])
    <3>. DEFINE p == Packet("PUBLISH", LastId + 1, mGlobalOrderCount + 1, qos, FALSE)
    <3>1. c \in reading /\ mCurrentClient[Sess] = c
      BY <1>b, <2>1 DEF Attached, BaseInv, PeerInv
    <3>2. mSendTasks'[c] = Append(mSendTasks[c], p)
      <4>. HIDE DEF Packet
      <4>. QED
        BY Zenon, <2>3, <3>1 DEF PublishesTo
    <3>3. p.type = "PUBLISH" /\ p.id = LastId + 1
      BY DEF Packet
    <3>4. Append(mSendTasks[c], p)[Len(mSendTasks[c]) + 1] = p
          /\ Len(mSendTasks[c]) + 1 \in DOMAIN Append(mSendTasks[c], p)
      <4>. HIDE DEF p
      <4>1. mSendTasks[c] \in Seq(Packets)
        BY Zenon, <1>b DEF TypeOK
      <4>. QED
        BY <4>1
    <3>. HIDE DEF p
    <3>5. LastId + 1 \in PubIds(mSendTasks'[c])
      BY <3>2, <3>3, <3>4 DEF PubIds
    <3>6. LastId' = LastId + 1
      BY Zenon, <1>b, <2>3, PublishEffect DEF PublishesTo, LastId, Sess
    <3>. QED
      BY <1>t, <3>5, <3>6 DEF Given
  <2>4. ASSUME NEW qos \in PublishQoS, ServerPublish(qos), PublishesToNobody PROVE i \in Given
    BY <1>b, <2>4, PublishEffect DEF PublishesToNobody, LastId, Sess, Given
  <2>. QED
    BY <1>b, <1>k, <2>2, <2>3, <2>4, IdSteps
<1>. QED
  BY <1>1, <1>2

(* The client acknowledges nothing it does not have. *)
LEMMA AnswerStep ==
    ASSUME Flow, Setting, [DNext]_allVars, BaseInv' PROVE AnswerInv'
<1>. USE ConstantsAssumption
<1>b. BaseInv /\ IdInv /\ AnswerInv
  BY DEF Flow
<1>t. LastId \in Nat /\ LastId >= 1
  BY <1>b, IdTypes
<1>h. Had \subseteq Had' /\ Had \subseteq Given
  BY <1>b, HadStep DEF Had
<1>n. Mild(NoPkt)
  BY DEF Mild, NoPkt, Control, Packet
<1>1. ASSUME NEW c \in Conns, NEW p, Passed(c, p)
      PROVE  /\ p.type \in {"PUBACK", "PUBREC"} => p.id \in Had'
             /\ p.type = "PUBREC" => p.id \notin PubIds(mSendTasks'[c])
  <2>1. CASE Mild(p)
    BY <2>1 DEF Mild
  <2>2. CASE ~Mild(p)
    <3>1. Acked(c, p)
      BY <1>1, <1>b, <2>2 DEF Passed, AnswerInv
    <3>2. ~LogsIn(c)
      <4>1. SUFFICES ASSUME LogsIn(c) PROVE FALSE
        OBVIOUS
      <4>2. recv[c].packet = NoPkt /\ \A n \in DOMAIN toServer[c] : toServer[c][n].type = "CONNECT"
        BY <1>b, <4>1, LoginEffect DEF Idle
      <4>. QED
        BY <1>1, <1>n, <2>2, <4>2 DEF Passed, Mild
    <3>3. \A i \in PubIds(mSendTasks'[c]) : i \in PubIds(mSendTasks[c]) \/ i = LastId + 1
      BY <3>2, StreamStep
    <3>4. p.type \in {"PUBACK", "PUBREC"} => p.id \in Had' /\ p.id # LastId + 1
      <4>1. p.type \in {"PUBACK", "PUBREC"} => p.id \in Had' /\ p.id \in Given
        BY <1>h, <3>1 DEF Acked
      <4>2. LastId + 1 \notin Given
        BY <1>t DEF Given
      <4>. QED
        BY <4>1, <4>2
    <3>. QED
      BY <3>1, <3>3, <3>4 DEF Acked
  <2>. QED
    BY <2>1, <2>2
<1>2. ASSUME OldAnswers PROVE AnswerInv'
  BY <1>1, <1>2 DEF OldAnswers, AnswerInv, Acked
<1>3. ASSUME UNCHANGED toServer, \A c \in Conns : Passed(c, recv'[c].packet) PROVE OldAnswers
  BY <1>3 DEF OldAnswers, Passed
<1>4. ASSUME NEW c \in Conns, Acknowledges(c) PROVE OldAnswers
  <2>1. /\ toServer' = toServer /\ \A d \in Conns : d # c => recv'[d] = recv[d]
        /\ recv'[c].packet = recv[c].packet \/ recv'[c] = Idle
    BY Zenon, <1>4, <1>b, AckEffect
  <2>. QED
    BY <1>3, <1>n, <2>1 DEF Passed, Idle
<1>5. ASSUME NEW c \in Conns, LogsIn(c) PROVE OldAnswers
  BY <1>3, <1>5, <1>b, LoginEffect DEF Passed
<1>6. ASSUME NEW qos \in PublishQoS, ServerPublish(qos) PROVE OldAnswers
  BY <1>3, <1>6, <1>b, PublishEffect DEF Passed
<1>7. ASSUME NEW c \in Conns, ClientRead(c) PROVE AnswerInv'
  <2>0. PICK p : p = Head(mSendTasks[c])
    OBVIOUS
  <2>1. CASE p.type # "PUBLISH"
    BY Zenon, <2>0, <1>2, <1>7, <1>b, <2>1, ReadEffect
  <2>2. CASE p.type = "PUBLISH"
    <3>1. /\ recv' = recv /\ mSendTasks' = [mSendTasks EXCEPT ![c] = Tail(@)]
      BY Zenon, <1>7, <1>b, <2>0, ReadEffect
    <3>r. ASSUME NEW d \in Conns, NEW n \in DOMAIN toServer'[d]
          PROVE  \/ Passed(d, toServer'[d][n])
                 \/ d = c /\ \E t \in {"PUBACK", "PUBREC"} : toServer'[d][n] = Control(t, p.id)
      BY <1>7, <1>b, <2>0, <2>2, <3>r, PublishAnswered
    <3>2. p.id \in Had' /\ p.id \notin PubIds(Tail(mSendTasks[c]))
      BY <1>7, <2>0, <2>2, HeadPublish
    <3>3. mSendTasks'[c] = Tail(mSendTasks[c])
      BY ZenonT(60), <1>b, <3>1 DEF BaseInv, Inv, TypeOK
    <3>4. \A t : Control(t, p.id).id = p.id
      BY DEF Control, Packet
    <3>5. ASSUME NEW d \in Conns, NEW n \in DOMAIN toServer'[d] PROVE Acked(d, toServer[d][n])'
      <4>1. CASE Passed(d, toServer'[d][n])
        BY <1>1, <4>1 DEF Acked
      <4>2. CASE d = c /\ toServer'[d][n].id = p.id
        BY <3>2, <3>3, <4>2 DEF Acked
      <4>. QED
        BY <3>4, <3>5, <3>r, <4>1, <4>2
    <3>6. ASSUME NEW d \in Conns PROVE Acked(d, recv[d].packet)'
      <4>1. Passed(d, recv'[d].packet)
        BY <3>1 DEF Passed
      <4>. QED
        BY <1>1, <4>1 DEF Acked
    <3>. QED
      BY <3>5, <3>6 DEF AnswerInv
  <2>. QED
    BY <2>1, <2>2
<1>. QED
  BY <1>2, <1>4, <1>5, <1>6, <1>7, <1>b, Kinds DEF Routine

(* What is or becomes a bit has left the flight. *)
LEMMA FreeStep ==
    ASSUME Flow, Setting, [DNext]_allVars PROVE FreeInv'
<1>. USE ConstantsAssumption
<1>b. BaseInv /\ IdInv /\ AnswerInv /\ FreeInv /\ TypeOK
  BY DEF Flow, BaseInv, Inv
<1>g. Given \subseteq Given' /\ Flying' \cap Given \subseteq Flying
  BY <1>b, IdStep DEF Grows
<1>1. ASSUME \A i \in BitIds : MayBeBit(i)' => MayBeBit(i) \/ (i \in Given /\ i \notin Flying') PROVE FreeInv'
  BY <1>1, <1>b, <1>g DEF FreeInv
<1>2. ASSUME UNCHANGED <<mPersistentClientStates, mQos2pubrecReceived, recv>> PROVE FreeInv'
  <2>1. \A i \in BitIds : MayBeBit(i)' => MayBeBit(i)
    BY <1>2 DEF MayBeBit, Storing, Sess
  <2>. QED
    BY <1>1, <2>1
<1>3. ASSUME Routine PROVE FreeInv'
  <2>1. OldBits /\ OldStores
    BY <1>3 DEF Routine
  <2>2. ASSUME NEW i \in BitIds, MayBeBit(i)' PROVE MayBeBit(i)
    <3>1. CASE Sess' # Null /\ i \in mQos2pubrecReceived'[Sess']
      BY <2>1, <3>1 DEF OldBits
    <3>2. ASSUME NEW c \in Conns, Storing(c)', i \in recv'[c].word PROVE MayBeBit(i)
      BY <2>1, <3>2 DEF OldBits
    <3>3. ASSUME NEW c \in Conns, Storing(c)', recv'[c].packet.type = "PUBREC", i = recv'[c].packet.id
          PROVE  MayBeBit(i)
      BY <2>1, <3>3 DEF OldStores, MayBeBit
    <3>. QED
      BY <2>2, <3>1, <3>2, <3>3 DEF MayBeBit
  <2>. QED
    BY <1>1, <2>2
<1>4. ASSUME NEW c \in Conns, ClientRead(c) PROVE FreeInv'
  BY Zenon, <1>2, <1>4, <1>b, ReadEffect DEF coreVars
<1>5. ASSUME NEW c \in Conns, LogsIn(c) PROVE FreeInv'
  <2>1. CASE Sess' = c /\ mQos2pubrecReceived'[c] = {} /\ recv' = recv
    <3>1. \A i \in BitIds : MayBeBit(i)' => MayBeBit(i)
      BY <2>1 DEF MayBeBit, Storing
    <3>. QED
      BY <1>1, <3>1
  <2>. QED
    BY <1>2, <1>5, <1>b, <2>1, LoginEffect
<1>6. ASSUME NEW qos \in PublishQoS, ServerPublish(qos) PROVE FreeInv'
  BY <1>2, <1>6, <1>b, PublishEffect
<1>7. ASSUME NEW c \in Conns, Acknowledges(c) PROVE FreeInv'
  <2>0. /\ Sess \in Conns /\ Sess' = Sess /\ recv[c].state = Sess
        /\ \A d \in Conns : d # c => recv'[d] = recv[d]
    BY Zenon, <1>7, <1>b, AckEffect DEF Sess
  <2>1. CASE /\ mHighQoSSendingPackets' = [mHighQoSSendingPackets EXCEPT ![Sess] =
                      [i \in Ids |-> IF i = recv[c].packet.id THEN Free ELSE @[i]]]
             /\ mQos2pubrecReceived' = mQos2pubrecReceived
             /\ recv'[c].packet = recv[c].packet \/ recv'[c] = Idle
             /\ recv'[c] # Idle => recv'[c].word = mQos2pubrecReceived[Sess] /\ recv[c].packet.type = "PUBREC"
    <3>1. recv[c].packet.type = "PUBREC" => recv[c].packet.id \in Given /\ recv[c].packet.id \notin Flying'
      <4>1. recv[c].packet.type = "PUBREC" => recv[c].packet.id \in Given
        BY <1>b DEF AnswerInv, Acked, Had
      <4>2. recv[c].packet.id \in Ids => mHighQoSSendingPackets'[Sess][recv[c].packet.id] = Free
        BY Zenon, <1>b, <2>0, <2>1 DEF TypeOK
      <4>3. recv[c].packet.id \notin Flying'
        BY <2>0, <4>2 DEF Flying, InFlight
      <4>. QED
        BY <4>1, <4>3
    <3>2. ~Storing(c)' \/ recv'[c] # Idle
      BY DEF Storing, Idle
    <3>3. \A i \in mQos2pubrecReceived[Sess] : MayBeBit(i)
      BY <2>0 DEF MayBeBit
    <3>4. \A d \in Conns \ {c} : Storing(d)' = Storing(d)
      BY <2>0 DEF Storing
    <3>5. ASSUME NEW i \in BitIds, MayBeBit(i)' PROVE MayBeBit(i) \/ (i \in Given /\ i \notin Flying')
      <4>1. CASE i \in mQos2pubrecReceived'[Sess]
        BY <2>1, <3>3, <4>1
      <4>2. ASSUME NEW d \in Conns \ {c}, Storing(d)',
                   i \in recv'[d].word \/ (recv'[d].packet.type = "PUBREC" /\ i = recv'[d].packet.id)
            PROVE  MayBeBit(i)
        BY <2>0, <3>4, <4>2 DEF MayBeBit
      <4>3. CASE Storing(c)' /\ (i \in recv'[c].word \/ (recv'[c].packet.type = "PUBREC" /\ i = recv'[c].packet.id))
        BY <2>1, <3>1, <3>2, <3>3, <4>3
      <4>. QED
        BY <2>0, <3>5, <4>1, <4>2, <4>3 DEF MayBeBit
    <3>. QED
      BY <1>1, <3>5
  <2>2. CASE /\ recv[c].packet.type = "PUBREC" /\ Storing(c)
             /\ mQos2pubrecReceived' = [mQos2pubrecReceived EXCEPT ![Sess] = recv[c].word \cup {recv[c].packet.id}]
             /\ recv'[c] = Idle
    <3>1. mQos2pubrecReceived'[Sess] = recv[c].word \cup {recv[c].packet.id}
      BY ZenonT(60), <1>b, <2>0, <2>2 DEF TypeOK
    <3>2. \A i \in mQos2pubrecReceived'[Sess] : MayBeBit(i)
      BY <2>2, <3>1 DEF MayBeBit
    <3>3. ~Storing(c)' /\ \A d \in Conns \ {c} : Storing(d)' = Storing(d)
      BY <2>0, <2>2 DEF Storing, Idle
    <3>4. \A i \in BitIds : MayBeBit(i)' => MayBeBit(i)
      <4>1. ASSUME NEW i \in BitIds, MayBeBit(i)' PROVE MayBeBit(i)
        <5>1. CASE i \in mQos2pubrecReceived'[Sess]
          BY <3>2, <5>1
        <5>2. ASSUME NEW d \in Conns \ {c}, Storing(d)',
                   i \in recv'[d].word \/ (recv'[d].packet.type = "PUBREC" /\ i = recv'[d].packet.id)
              PROVE  MayBeBit(i)
          BY <2>0, <3>3, <5>2 DEF MayBeBit
        <5>. QED
          BY <2>0, <3>3, <4>1, <5>1, <5>2 DEF MayBeBit
      <4>. QED
        BY <4>1
    <3>. QED
      BY <1>1, <3>4
  <2>. QED
    BY Zenon, <1>7, <1>b, <2>1, <2>2, AckEffect
<1>. QED
  BY <1>3, <1>4, <1>5, <1>6, <1>7, <1>b, Kinds

(* Nothing is lost or overtaken. *)
LEMMA HadInvStep ==
    ASSUME Flow, Setting, [DNext]_allVars, BaseInv' PROVE HadInv'
<1>b. BaseInv /\ IdInv /\ AnswerInv /\ HadInv /\ ClientTypes
  BY DEF Flow, BaseInv
<1>t. LastId \in Nat /\ LastId >= 1 /\ Offset \in Int /\ mGlobalOrderCount = LastId + Offset
      /\ mGlobalOrderCount \in Nat
  BY <1>b, IdTypes DEF Offset
<1>h. Had \subseteq Had' /\ ReceivedMsgs \subseteq ReceivedMsgs'
  BY <1>b, HadStep
<1>p. promised \subseteq promised' /\ promised' \subseteq promised \cup {mGlobalOrderCount + 1}
  BY Zenon, <1>b, IdStep, IdSteps DEF Grows, IdsKept, PublishesTo, PublishesToNobody
<1>i. received \in Seq([msg: 0..MaxPublish, qos: QoS])
  BY <1>b DEF ClientTypes
<1>1. \A i \in Given' : i \in Had' \/ i \in Flying'
  <2>1. \A c \in Conns : recv[c].packet.type \in {"PUBACK", "PUBREC"} => recv[c].packet.id \in Had'
    BY <1>b, <1>h DEF AnswerInv, Acked
  <2>2. \A i \in Flying : i \in Flying' \/ i \in Had'
    BY <1>b, <2>1, FlyingStep
  <2>3. \A i \in Given : i \in Had' \/ i \in Flying'
    BY <1>b, <1>h, <2>2 DEF HadInv
  <2>. QED
    BY <1>b, <2>3, FlyingStep
<1>2. ASSUME received' = received
      PROVE  /\ cIds' \subseteq cIds => cIds' \subseteq Had'
             /\ ReceivedMsgs' \subseteq promised' /\ OrderedFirstDelivery'
  <2>1. ReceivedMsgs' = ReceivedMsgs
    BY <1>2 DEF ReceivedMsgs, Elements
  <2>2. \A j \in DOMAIN received : received[j].msg \in promised
    BY <1>b, ReceivedFacts DEF HadInv
  <2>3. \A j \in DOMAIN received : received[j].msg \in (Offset + 2)..mGlobalOrderCount
    BY <1>b, <2>2 DEF IdInv
  <2>4. \A j \in DOMAIN received : ~(mGlobalOrderCount + 1 < received[j].msg)
    BY <1>t, <2>3
  <2>5. OrderedFirstDelivery'
    BY <1>2, <1>b, <1>p, <2>4 DEF OrderedFirstDelivery, HadInv
  <2>. QED
    BY <1>b, <1>h, <1>p, <2>1, <2>5 DEF HadInv
<1>3. ASSUME NEW c \in Conns, ClientRead(c), NEW p, p = Head(mSendTasks[c]), p.type = "PUBLISH",
             received' = Append(received, [msg |-> p.msg, qos |-> p.qos]), cIds' \subseteq cIds \cup {p.id}
      PROVE  cIds' \subseteq Had' /\ ReceivedMsgs' \subseteq promised' /\ OrderedFirstDelivery'
  <2>1. /\ p.id \in Had' /\ p.id \in 2..LastId /\ p.msg = p.id + Offset
        /\ \A i \in 2..(p.id - 1) : i \in Had
    BY <1>3, HeadPublish DEF Given
  <2>2. cIds' \subseteq Had'
    BY <1>3, <1>b, <1>h, <2>1 DEF HadInv
  <2>3. [msg |-> p.msg, qos |-> p.qos] \in [msg: 0..MaxPublish, qos: QoS]
    <3>1. p \in Packets
      BY <1>3, <1>b, ReadEffect
    <3>. QED
      BY <3>1 DEF Packets
  <2>. DEFINE e == [msg |-> p.msg, qos |-> p.qos]
              l == Len(received) + 1
  <2>4. e.msg = p.msg
    OBVIOUS
  <2>5. e \in [msg: 0..MaxPublish, qos: QoS] /\ received' = Append(received, e)
    BY <1>3, <2>3
  <2>. HIDE DEF e
  <2>6. /\ ReceivedMsgs' = ReceivedMsgs \cup {p.msg}
        /\ DOMAIN received' = DOMAIN received \cup {l}
        /\ received'[l] = e /\ l \in Nat
        /\ \A j \in DOMAIN received : received'[j] = received[j] /\ j \in 1..(l - 1)
    BY <1>b, <2>4, <2>5, ReceivedFacts
  <2>. HIDE DEF l
  <2>7. promised' = promised
    BY <1>3, <1>b, ReadEffect DEF coreVars
  <2>8. p.msg \in promised
    BY SMTT(60), <1>b, <1>t, <2>1 DEF IdInv
  <2>9. OrderedFirstDelivery'
    <3>. SUFFICES ASSUME NEW j \in DOMAIN received', NEW m \in promised, m < received'[j].msg
                  PROVE  \E i \in 1..j : received'[i].msg = m
      BY <2>7 DEF OrderedFirstDelivery
    <3>1. CASE j \in DOMAIN received
      <4>1. PICK i \in 1..j : received[i].msg = m
        BY <1>b, <2>6, <3>1 DEF HadInv, OrderedFirstDelivery
      <4>2. i \in DOMAIN received
        BY <1>i, <3>1
      <4>. QED
        BY <2>6, <4>1, <4>2
    <3>2. CASE j = l
      <4>1. m < p.msg
        BY <2>4, <2>6, <3>2
      <4>2. m \in (Offset + 2)..mGlobalOrderCount
        BY <1>b DEF IdInv
      <4>3. m - Offset \in 2..(p.id - 1)
        BY <1>t, <2>1, <4>1, <4>2
      <4>4. m - Offset \in Had
        BY <2>1, <4>3
      <4>5. m \in ReceivedMsgs
        <5>1. (m - Offset) + Offset = m
          BY <1>t, <4>2
        <5>. QED
          BY <4>4, <5>1 DEF Had
      <4>6. PICK k \in DOMAIN received : received[k].msg = m
        BY <1>b, <4>5, ReceivedFacts
      <4>7. k \in 1..j
        BY <2>6, <3>2, <4>6
      <4>. QED
        BY <2>6, <4>6, <4>7
    <3>. QED
      BY <2>6, <3>1, <3>2
  <2>. QED
    BY <1>b, <2>2, <2>6, <2>7, <2>8, <2>9 DEF HadInv
<1>4. cIds' \subseteq Had' /\ ReceivedMsgs' \subseteq promised' /\ OrderedFirstDelivery'
  <2>1. CASE UNCHANGED <<received, cIds>>
    BY <1>2, <2>1
  <2>2. ASSUME NEW c \in Conns, ClientRead(c)
        PROVE  cIds' \subseteq Had' /\ ReceivedMsgs' \subseteq promised' /\ OrderedFirstDelivery'
    <3>0. PICK p : p = Head(mSendTasks[c])
      OBVIOUS
    <3>1. CASE p.type # "PUBLISH"
      <4>1. received' = received /\ cIds' \subseteq cIds
        BY Zenon, <1>b, <2>2, <3>0, <3>1, ReadEffect
      <4>. QED
        BY <1>2, <4>1
    <3>2. CASE p.type = "PUBLISH" /\ received' = Append(received, [msg |-> p.msg, qos |-> p.qos])
                /\ cIds' = IF p.qos = 2 THEN cIds \cup {p.id} ELSE cIds
      <4>1. cIds' \subseteq cIds \cup {p.id}
        BY <3>2
      <4>. QED
        BY <1>3, <2>2, <3>0, <3>2, <4>1
    <3>. QED
      BY <1>b, <2>1, <2>2, <3>0, <3>1, <3>2, ReadEffect
  <2>. QED
    BY Zenon, <1>b, <2>1, <2>2, AckEffect, LoginEffect, PublishEffect, Kinds DEF Routine
<1>. QED
  BY <1>1, <1>4 DEF HadInv

(* The invariant of delivery holds initially and is kept. *)
LEMMA FlowInit == DInit => Flow
<1>. SUFFICES ASSUME DInit PROVE Flow
  OBVIOUS
<1>. USE ConstantsAssumption
<1>1. BaseInv
  BY BaseInit
<1>2. /\ Sess = Null /\ mGlobalOrderCount = 0 /\ promised = {} /\ received = <<>> /\ cIds = {}
      /\ mSendTasks = [c \in Conns |-> <<>>] /\ toServer = [c \in Conns |-> <<>>]
      /\ recv = [c \in Conns |-> Idle]
  BY DEF DInit, Init, Sess
<1>3. LastId = 1 /\ Offset = -1 /\ Given = {} /\ Flying = {} /\ Had = {}
  BY <1>2 DEF LastId, Offset, Given, Flying, Had
<1>4. IdInv
  BY <1>2, <1>3 DEF IdInv
<1>5. StreamInv
  BY <1>2 DEF StreamInv, WellSent, PubIds
<1>6. AttachedInv
  BY <1>3 DEF AttachedInv
<1>7. AnswerInv
  BY <1>2 DEF AnswerInv, Acked, Idle, NoPkt, Control, Packet
<1>8. FreeInv
  BY <1>2 DEF FreeInv, MayBeBit, Storing, Idle
<1>9. HadInv
  BY <1>2, <1>3 DEF HadInv, ReceivedMsgs, Elements, OrderedFirstDelivery
<1>. QED
  BY <1>1, <1>4, <1>5, <1>6, <1>7, <1>8, <1>9 DEF Flow

(* Every step keeps it. *)
LEMMA FlowStep == ASSUME Flow, Setting, [DNext]_allVars PROVE Flow'
<1>1. BaseInv'
  BY BaseStep DEF Flow
<1>2. IdInv'
  BY IdStep DEF Flow
<1>3. StreamInv'
  BY <1>1, StreamStep DEF StreamInv
<1>. QED
  BY <1>1, <1>2, <1>3, AttachedStep, AnswerStep, FreeStep, HadInvStep DEF Flow

(* The message of every id given out is in flight until the client has it. *)
LEMMA FlowNoLoss == Flow => NoLoss
<1>. SUFFICES ASSUME Flow, NEW m \in promised
              PROVE  \/ m \in ReceivedMsgs
                     \/ \E o \in Conns, i \in Ids : mHighQoSSendingPackets[o][i].msg = m
  BY DEF NoLoss
<1>b. BaseInv /\ IdInv /\ HadInv
  BY DEF Flow
<1>t. /\ LastId \in Nat /\ Offset \in Int /\ mGlobalOrderCount = LastId + Offset
      /\ Flying \subseteq Ids /\ Sess \in Conns \cup {Null}
  BY <1>b, IdTypes DEF Offset
<1>1. m \in (Offset + 2)..mGlobalOrderCount
  BY <1>b DEF IdInv
<1>2. m - Offset \in Given /\ (m - Offset) + Offset = m
  BY <1>1, <1>t DEF Given
<1>3. CASE m - Offset \in Had
  BY <1>2, <1>3 DEF Had
<1>4. CASE m - Offset \in Flying
  <2>1. Sess \in Conns
    BY <1>4, <1>t DEF Flying
  <2>. QED
    BY <1>2, <1>4, <1>b, <1>t, <2>1 DEF IdInv
<1>. QED
  BY <1>2, <1>3, <1>4, <1>b DEF HadInv

(* As long as no id is given out twice, no message published with QoS 1 or 2 to    *)
(* the subscribed session is lost, for any number of connections, failures,        *)
(* takeovers and late acknowledgements: it stays in mHighQoSSendingPackets until   *)
(* the client has it.  When ids wrap around, emplace drops the message of an id    *)
(* that is still in use, so the bound on the messages is needed.                   *)
THEOREM MessagesKept == Setting /\ DSpec => []NoLoss
<1>1. CASE Setting
  <2>1. Flow /\ [DNext]_allVars => Flow'
    BY <1>1, FlowStep
  <2>. QED
    BY FlowInit, FlowNoLoss, <2>1, PTL DEF DSpec
<1>. QED
  BY <1>1

(* The client first receives the messages in the order they were published: the    *)
(* resend after a login sorts what is in flight, and a message published meanwhile *)
(* is sent behind it.                                                              *)
THEOREM MessagesInOrder == Setting /\ DSpec => []OrderedFirstDelivery
<1>1. Flow => OrderedFirstDelivery
  BY DEF Flow, HadInv
<1>2. CASE Setting
  <2>1. Flow /\ [DNext]_allVars => Flow'
    BY <1>2, FlowStep
  <2>. QED
    BY FlowInit, <1>1, <2>1, PTL DEF DSpec
<1>. QED
  BY <1>2

-----------------------------------------------------------------------------
(* Exactly once *)

\* The message of id i may still come to the client
OnWay(i) == i \in Flying \/ \E c \in Conns : i \in PubIds(mSendTasks[c])

(* f gives the QoS of the message of each id.  What the client has with QoS 2 it    *)
(* remembers as long as it may come again.                                         *)
Agree(f) ==
    /\ \A i \in Flying : mHighQoSSendingPackets[Sess][i].qos = f[i]
    /\ \A c \in Conns : \A n \in DOMAIN mSendTasks[c] :
          mSendTasks[c][n].type = "PUBLISH" => mSendTasks[c][n].qos = f[mSendTasks[c][n].id]
    /\ \A n \in DOMAIN received : received[n].qos = f[received[n].msg - Offset]
    /\ \A i \in Given : f[i] = 2 /\ i \in Had /\ OnWay(i) => i \in cIds

(* The broker denies that it has a session only before the client has anything. *)
FlagInv ==
    \A c \in Conns : \A n \in DOMAIN mSendTasks[c] :
        mSendTasks[c][n].type = "CONNACK" => mSendTasks[c][n].flag = TRUE \/ received = <<>>

OnceInv == ExactlyOnceOut /\ FlagInv /\ \E f \in [Ids -> {1, 2}] : Agree(f)

(* Where the packets of a stream come from. *)
LEMMA StreamFrom ==
    ASSUME Flow, Setting, [DNext]_allVars, BaseInv', NEW c \in Conns, NEW n \in DOMAIN mSendTasks'[c],
           NEW p, p = mSendTasks'[c][n]
    PROVE  \/ \E m \in DOMAIN mSendTasks[c] : p = mSendTasks[c][m]
           \/ p.type \notin {"PUBLISH", "CONNACK"}
           \/ p.type = "CONNACK" /\ (p.flag = TRUE \/ Sess = Null)
           \/ p.type = "PUBLISH" /\ p.id \in Flying /\ p.qos = mHighQoSSendingPackets[Sess][p.id].qos
           \/ \E qos \in PublishQoS : /\ ServerPublish(qos) /\ PublishesTo(qos)
                                      /\ p.type = "PUBLISH" /\ p.id = LastId + 1 /\ p.qos = qos
<1>. USE ConstantsAssumption
<1>b. BaseInv /\ IdInv
  BY DEF Flow
<1>s. /\ mSendTasks \in [Conns -> Seq(Packets)] /\ mSendTasks[c] \in Seq(Packets)
      /\ mSendTasks'[c] \in Seq(Packets) /\ TypeOK
  BY Zenon, <1>b DEF BaseInv, Inv, TypeOK
<1>u. ASSUME mSendTasks'[c] = mSendTasks[c] PROVE \E m \in DOMAIN mSendTasks[c] : p = mSendTasks[c][m]
  BY <1>u
<1>a. ASSUME NEW q \in Packets, mSendTasks'[c] = Append(mSendTasks[c], q)
      PROVE  p = q \/ \E m \in DOMAIN mSendTasks[c] : p = mSendTasks[c][m]
  BY <1>a, <1>s, AppendFacts
<1>r. ASSUME mSendTasks[c] # <<>>, mSendTasks'[c] = Tail(mSendTasks[c])
      PROVE  \E m \in DOMAIN mSendTasks[c] : p = mSendTasks[c][m]
  <2>1. \A k \in DOMAIN Tail(mSendTasks[c]) :
           k + 1 \in DOMAIN mSendTasks[c] /\ Tail(mSendTasks[c])[k] = mSendTasks[c][k + 1]
    BY <1>r, <1>s, SeqFacts
  <2>. QED
    BY <1>r, <2>1
<1>1. ASSUME Routine
      PROVE  (\E m \in DOMAIN mSendTasks[c] : p = mSendTasks[c][m]) \/ p.type \notin {"PUBLISH", "CONNACK"}
  <2>1. CASE mSendTasks'[c] = <<>>
    BY <2>1
  <2>2. ASSUME NEW q \in Packets, Plain(q), mSendTasks'[c] = Append(mSendTasks[c], q)
        PROVE  (\E m \in DOMAIN mSendTasks[c] : p = mSendTasks[c][m]) \/ p.type \notin {"PUBLISH", "CONNACK"}
    BY <1>a, <2>2 DEF Plain
  <2>. QED
    BY <1>1, <1>r, <1>u, <2>1, <2>2 DEF Routine, KeepsStream
<1>2. ASSUME NEW d \in Conns, ClientRead(d) PROVE \E m \in DOMAIN mSendTasks[c] : p = mSendTasks[c][m]
  <2>1. mSendTasks[d] # <<>> /\ mSendTasks' = [mSendTasks EXCEPT ![d] = Tail(@)]
    BY <1>2 DEF ClientRead
  <2>2. CASE c = d
    BY <1>r, <1>s, <2>1, <2>2
  <2>3. CASE c # d
    BY <1>s, <1>u, <2>1, <2>3
  <2>. QED
    BY <2>2, <2>3
<1>3. ASSUME NEW d \in Conns, Acknowledges(d)
      PROVE  (\E m \in DOMAIN mSendTasks[c] : p = mSendTasks[c][m]) \/ p.type \notin {"PUBLISH", "CONNACK"}
  <2>1. CASE mSendTasks'[c] # mSendTasks[c]
    <3>. DEFINE r == Control("PUBREL", recv[d].packet.id)
    <3>1. Send(d, <<r>>)
      BY <1>3, <1>b, <2>1, AckEffect
    <3>2. c = d /\ d \in reading
      BY <1>s, <2>1, <3>1, SendsOn
    <3>3. r \in Packets /\ r.type = "PUBREL"
      <4>1. recv[d].packet.id \in BitIds
        BY Zenon, <1>s DEF TypeOK, Packets, BitIds
      <4>2. r \in Packets
        BY <4>1, PacketTypesOK DEF PacketTypes
      <4>. QED
        BY <4>2 DEF Control, Packet
    <3>. HIDE DEF r
    <3>4. mSendTasks'[c] = mSendTasks[c] \o <<r>>
      BY <1>s, <3>1, <3>2, SendsOn, Zenon
    <3>5. mSendTasks'[c] = Append(mSendTasks[c], r)
      BY <1>s, <3>3, <3>4
    <3>. QED
      BY <1>a, <3>3, <3>5
  <2>. QED
    BY <1>u, <2>1
<1>4. ASSUME NEW d \in Conns, LogsIn(d)
      PROVE  \/ \E m \in DOMAIN mSendTasks[c] : p = mSendTasks[c][m]
             \/ p.type \notin {"PUBLISH", "CONNACK"}
             \/ p.type = "CONNACK" /\ (p.flag = TRUE \/ Sess = Null)
             \/ p.type = "PUBLISH" /\ p.id \in Flying /\ p.qos = mHighQoSSendingPackets[Sess][p.id].qos
  <2>1. \E s : Send(d, s)
    BY Zenon, <1>4 DEF LogsIn, LoginNewSession, LoginResumeSession
  <2>2. CASE mSendTasks'[c] # mSendTasks[c]
    <3>1. c = d /\ d \in reading
      BY <1>s, <2>1, <2>2, SendsOn
    <3>2. mSendTasks[c] = <<>>
      BY <1>4, <1>b, <3>1, LoginEffect
    <3>3. CASE Sess = Null /\ Send(c, <<Packet("CONNACK", 0, 0, 0, FALSE)>>)
      <4>. DEFINE r == Packet("CONNACK", 0, 0, 0, FALSE)
      <4>1. r \in Packets /\ r.type = "CONNACK"
        BY Zenon, PacketTypesOK DEF Packet
      <4>2. Send(c, <<r>>)
        BY <3>3
      <4>. HIDE DEF r
      <4>3. mSendTasks'[c] = mSendTasks[c] \o <<r>>
        BY <1>s, <3>1, <4>2, SendsOn, Zenon
      <4>4. mSendTasks'[c] = Append(mSendTasks[c], r)
        BY <1>s, <4>1, <4>3
      <4>. QED
        BY <1>a, <3>3, <4>1, <4>4
    <3>4. CASE Sess \in Conns /\ LoginResumeSession(c, Sess)
      <4>1. Flying = InFlight(Sess)
        BY <1>b, <3>4, IdTypes
      <4>. QED
        BY Zenon, <1>b, <1>s, <3>1, <3>2, <3>4, <4>1, ResumedStream
    <3>. QED
      BY Zenon, <1>4, <1>b, <3>1, <3>3, <3>4, LoginEffect
  <2>. QED
    BY Zenon, <1>u, <2>2
<1>5. ASSUME NEW qos \in PublishQoS, ServerPublish(qos), PublishesTo(qos), mSendTasks'[c] # mSendTasks[c]
      PROVE  \/ \E m \in DOMAIN mSendTasks[c] : p = mSendTasks[c][m]
             \/ p.type = "PUBLISH" /\ p.id = LastId + 1 /\ p.qos = qos
  <2>. DEFINE r == Packet("PUBLISH", LastId + 1, mGlobalOrderCount + 1, qos, FALSE)
  <2>1. mSendTasks'[c] = Append(mSendTasks[c], r)
    <3>. HIDE DEF Packet
    <3>. QED
      BY Zenon, <1>5 DEF PublishesTo
  <2>2. r \in Packets
    <3>1. LastId + 1 \in BitIds /\ qos \in QoS
      BY <1>5 DEF Ids, BitIds, QoS, PublishesTo
    <3>2. mGlobalOrderCount + 1 \in 0..MaxPublish
      BY Zenon, <1>5 DEF PublishesTo, BaseInv, Inv, TypeOK
    <3>. QED
      BY Zenon, <3>1, <3>2, PacketTypesOK
  <2>3. r.type = "PUBLISH" /\ r.id = LastId + 1 /\ r.qos = qos
    BY DEF Packet
  <2>. HIDE DEF r
  <2>. QED
    BY <1>a, <2>1, <2>2, <2>3
<1>6. ASSUME NEW qos \in PublishQoS, ServerPublish(qos), PublishesToNobody PROVE mSendTasks'[c] = mSendTasks[c]
  BY <1>6 DEF PublishesToNobody
<1>7. ASSUME NEW qos \in PublishQoS, ServerPublish(qos)
      PROVE  \/ \E m \in DOMAIN mSendTasks[c] : p = mSendTasks[c][m]
             \/ PublishesTo(qos) /\ p.type = "PUBLISH" /\ p.id = LastId + 1 /\ p.qos = qos
  BY <1>5, <1>6, <1>7, <1>b, <1>u, PublishEffect
<1>. QED
  BY Zenon, <1>1, <1>2, <1>3, <1>4, <1>7, <1>b, Kinds

(* What may not come any more does not come again. *)
LEMMA OnWayStep ==
    ASSUME Flow, Setting, [DNext]_allVars, BaseInv', NEW i \in Given, OnWay(i)'
    PROVE  OnWay(i)
<1>b. BaseInv /\ IdInv
  BY DEF Flow
<1>1. LastId + 1 # i
  BY <1>b, IdTypes DEF Given
<1>2. i \in Flying' => i \in Flying
  BY <1>b, IdStep DEF Grows
<1>3. ASSUME NEW c \in Conns, i \in PubIds(mSendTasks'[c]) PROVE OnWay(i)
  <2>1. i \in PubIds(mSendTasks[c]) \/ i \in Flying
    BY <1>1, <1>3, StreamStep
  <2>. QED
    BY <2>1 DEF OnWay
<1>. QED
  BY <1>2, <1>3 DEF OnWay

(* Before the first id is given out the client has nothing. *)
LEMMA NothingReceived ==
    ASSUME Flow, LastId = 1
    PROVE  received = <<>> /\ ReceivedMsgs = {}
<1>b. BaseInv /\ IdInv /\ HadInv /\ ClientTypes
  BY DEF Flow, BaseInv
<1>1. promised = {}
  <2>1. mGlobalOrderCount \in Nat /\ Offset = mGlobalOrderCount - 1
    BY <1>b, IdTypes DEF Offset
  <2>. QED
    BY <1>b, <2>1 DEF IdInv
<1>2. ReceivedMsgs = {}
  BY <1>1, <1>b DEF HadInv
<1>3. DOMAIN received = {}
  BY Zenon, <1>2, <1>b, ReceivedFacts
<1>4. received \in Seq([msg: 0..MaxPublish, qos: QoS])
  BY <1>b DEF ClientTypes
<1>. QED
  BY <1>2, <1>3, <1>4

(* A CONNACK without the flag is read before everything else. *)
LEMMA FlagStep ==
    ASSUME Flow, Setting, [DNext]_allVars, BaseInv', FlagInv PROVE FlagInv'
<1>. USE ConstantsAssumption
<1>b. BaseInv /\ IdInv /\ StreamInv
  BY DEF Flow
<1>. SUFFICES ASSUME NEW c \in Conns, NEW n \in DOMAIN mSendTasks'[c], mSendTasks'[c][n].type = "CONNACK",
                     mSendTasks'[c][n].flag # TRUE
              PROVE  received' = <<>>
  BY Zenon DEF FlagInv
<1>0. PICK p : p = mSendTasks'[c][n]
  OBVIOUS
<1>1. received = <<>>
  <2>1. CASE \E m \in DOMAIN mSendTasks[c] : p = mSendTasks[c][m]
    BY Zenon, <1>0, <2>1 DEF FlagInv
  <2>2. CASE Sess = Null
    <3>1. LastId = 1
      BY <2>2 DEF LastId
    <3>. QED
      BY <3>1, NothingReceived
  <2>. QED
    BY ZenonT(60), <1>0, <2>1, <2>2, StreamFrom
<1>2. CASE received' = received
  BY <1>1, <1>2
<1>3. ASSUME NEW d \in Conns, ClientRead(d), received' # received PROVE FALSE
  <2>1. /\ conn = d /\ mSendTasks[d] # <<>> /\ mSendTasks' = [mSendTasks EXCEPT ![d] = Tail(@)]
    BY <1>3 DEF ClientRead
  <2>2. mSendTasks \in [Conns -> Seq(Packets)]
    BY Zenon, <1>b DEF BaseInv, Inv, TypeOK
  <2>3. CASE c # d
    <3>1. mSendTasks'[c] = mSendTasks[c]
      BY <2>1, <2>2, <2>3
    <3>2. mSendTasks[c] = <<>>
      BY <1>b, <2>1, <2>3 DEF BaseInv, PeerInv
    <3>. QED
      BY <3>1, <3>2
  <2>4. CASE c = d
    <3>1. n \in DOMAIN Tail(mSendTasks[c]) /\ Tail(mSendTasks[c])[n].type = "CONNACK"
      BY <2>1, <2>2, <2>4
    <3>2. /\ n + 1 \in DOMAIN mSendTasks[c] /\ Tail(mSendTasks[c])[n] = mSendTasks[c][n + 1]
          /\ n \in Nat \ {0}
      <4>1. mSendTasks[c] \in Seq(Packets) /\ mSendTasks[c] # <<>>
        BY <2>1, <2>2, <2>4
      <4>2. Tail(mSendTasks[c]) \in Seq(Packets)
        BY <4>1, SeqFacts
      <4>3. n \in Nat \ {0}
        BY <3>1, <4>2, SeqFacts
      <4>. QED
        BY <3>1, <4>1, <4>3, SeqFacts
    <3>3. n + 1 = 1
      BY <1>b, <3>1, <3>2 DEF StreamInv, WellSent
    <3>. QED
      BY <3>2, <3>3
  <2>. QED
    BY <2>3, <2>4
<1>. QED
  BY Zenon, <1>2, <1>3, <1>b, AckEffect, LoginEffect, PublishEffect, Kinds DEF Routine

\* g says of the ids given out what f says, and of a new one what was published
Follows(f, g) ==
    /\ \A i \in Given : g[i] = f[i]
    /\ \A qos \in PublishQoS : ServerPublish(qos) /\ PublishesTo(qos) => g[LastId + 1] = qos

(* There is such a g. *)
LEMMA Follower ==
    ASSUME Flow, Setting, NEW f \in [Ids -> {1, 2}]
    PROVE  \E g \in [Ids -> {1, 2}] : Follows(f, g)
<1>b. BaseInv /\ IdInv
  BY DEF Flow
<1>t. LastId \in Nat /\ LastId + 1 \notin Given
  BY <1>b, IdTypes DEF Given
<1>1. CASE \A qos \in PublishQoS : ~(ServerPublish(qos) /\ PublishesTo(qos))
  BY <1>1 DEF Follows
<1>2. ASSUME NEW qos \in PublishQoS, ServerPublish(qos), PublishesTo(qos)
      PROVE  \E g \in [Ids -> {1, 2}] : Follows(f, g)
  <2>. DEFINE g == [i \in Ids |-> IF i = LastId + 1 THEN qos ELSE f[i]]
  <2>1. LastId + 1 \in Ids /\ qos \in {1, 2}
    BY <1>2 DEF PublishesTo
  <2>2. g \in [Ids -> {1, 2}] /\ g[LastId + 1] = qos
    BY <2>1
  <2>3. ASSUME NEW q \in PublishQoS, PublishesTo(q) PROVE q = qos
    <3>1. Sess \in Conns
      BY <1>2 DEF PublishesTo
    <3>2. mHighQoSSendingPackets'[Sess][LastId + 1] = [msg |-> mGlobalOrderCount + 1, qos |-> q]
      BY <2>1, <2>3, <3>1 DEF PublishesTo
    <3>3. mHighQoSSendingPackets'[Sess][LastId + 1] = [msg |-> mGlobalOrderCount + 1, qos |-> qos]
      BY <1>2, <2>1, <3>1 DEF PublishesTo
    <3>4. [msg |-> mGlobalOrderCount + 1, qos |-> q].qos = [msg |-> mGlobalOrderCount + 1, qos |-> qos].qos
      BY <3>2, <3>3
    <3>. QED
      BY <3>4
  <2>4. \A i \in Given : i \in Ids
    <3>1. LastId \in Ids
      BY <1>b, IdTypes
    <3>. QED
      BY <3>1, ConstantsAssumption DEF Given, Ids
  <2>5. \A i \in Given : g[i] = f[i]
    BY <1>t, <2>4
  <2>. HIDE DEF g
  <2>6. Follows(f, g)
    BY <2>2, <2>3, <2>5 DEF Follows
  <2>. QED
    BY <2>2, <2>6
<1>. QED
  BY <1>1, <1>2

(* Messages in flight and on their way have the QoS they were published with. *)
LEMMA QosStep ==
    ASSUME Flow, Setting, [DNext]_allVars, BaseInv', NEW f, Agree(f), NEW g, Follows(f, g)
    PROVE  /\ \A i \in Flying' : mHighQoSSendingPackets'[Sess'][i].qos = g[i]
           /\ \A c \in Conns : \A n \in DOMAIN mSendTasks'[c] :
                 mSendTasks'[c][n].type = "PUBLISH" => mSendTasks'[c][n].qos = g[mSendTasks'[c][n].id]
<1>b. BaseInv /\ IdInv /\ StreamInv
  BY DEF Flow
<1>t. LastId \in Nat /\ LastId >= 1 /\ Flying \subseteq Given /\ Flying \subseteq Ids
  BY <1>b, IdTypes DEF IdInv
<1>f. \A i \in Flying : mHighQoSSendingPackets[Sess][i].qos = g[i]
  BY <1>t DEF Agree, Follows
<1>1. ASSUME NEW i \in Flying' PROVE mHighQoSSendingPackets'[Sess'][i].qos = g[i]
  <2>1. CASE IdsKept
    BY <1>1, <1>f, <2>1 DEF IdsKept
  <2>2. ASSUME NEW qos \in PublishQoS, ServerPublish(qos), PublishesToNobody
        PROVE  mHighQoSSendingPackets'[Sess'][i].qos = g[i]
    <3>1. Sess' = Sess /\ mHighQoSSendingPackets' = mHighQoSSendingPackets /\ Flying' = Flying
      BY <1>b, <2>2, PublishEffect DEF PublishesToNobody, Sess, Flying, InFlight
    <3>. QED
      BY <1>1, <1>f, <3>1
  <2>3. ASSUME NEW qos \in PublishQoS, ServerPublish(qos), PublishesTo(qos)
        PROVE  mHighQoSSendingPackets'[Sess'][i].qos = g[i]
    <3>1. Sess' = Sess /\ Sess \in Conns
      BY Zenon, <1>b, <2>3, PublishEffect DEF PublishesTo, Sess
    <3>2. i \in Ids /\ mHighQoSSendingPackets'[Sess][i] # Free
      BY <1>1, <3>1, ConstantsAssumption DEF Flying, InFlight
    <3>3. mHighQoSSendingPackets'[Sess][i] = IF i = LastId + 1 THEN [msg |-> mGlobalOrderCount + 1, qos |-> qos]
                                             ELSE mHighQoSSendingPackets[Sess][i]
      BY <2>3, <3>1, <3>2 DEF PublishesTo
    <3>4. CASE i = LastId + 1
      BY <2>3, <3>1, <3>3, <3>4 DEF Follows
    <3>5. CASE i # LastId + 1
      <4>1. i \in Flying
        BY <3>1, <3>2, <3>3, <3>5, ConstantsAssumption DEF Flying, InFlight
      <4>. QED
        BY <1>f, <3>1, <3>3, <3>5, <4>1
    <3>. QED
      BY <3>4, <3>5
  <2>. QED
    BY <1>b, <2>1, <2>2, <2>3, IdSteps
<1>2. ASSUME NEW c \in Conns, NEW n \in DOMAIN mSendTasks'[c], NEW p, p = mSendTasks'[c][n],
             p.type = "PUBLISH"
      PROVE  p.qos = g[p.id]
  <2>1. ASSUME NEW m \in DOMAIN mSendTasks[c], p = mSendTasks[c][m] PROVE p.qos = g[p.id]
    <3>1. p.id \in Given
      BY <1>2, <1>b, <2>1 DEF StreamInv, WellSent, Given
    <3>2. p.qos = f[p.id]
      BY <1>2, <2>1 DEF Agree
    <3>. QED
      BY <3>1, <3>2 DEF Follows
  <2>2. CASE p.id \in Flying /\ p.qos = mHighQoSSendingPackets[Sess][p.id].qos
    BY <1>f, <2>2
  <2>3. ASSUME NEW qos \in PublishQoS, ServerPublish(qos), PublishesTo(qos), p.id = LastId + 1, p.qos = qos
        PROVE  p.qos = g[p.id]
    BY <2>3 DEF Follows
  <2>. QED
    BY ZenonT(60), <1>2, <2>1, <2>2, <2>3, StreamFrom
<1>. QED
  BY <1>1, <1>2

(* Only a read of a message adds to what the client has. *)
LEMMA HadSame ==
    ASSUME Flow, Setting, [DNext]_allVars, received' = received, NEW i \in Given', i \in Had'
    PROVE  i \in Given /\ i \in Had
<1>b. BaseInv /\ IdInv /\ HadInv
  BY DEF Flow
<1>t. LastId \in Nat /\ LastId >= 1 /\ Offset \in Int /\ mGlobalOrderCount = LastId + Offset
  BY <1>b, IdTypes DEF Offset
<1>1. ReceivedMsgs' = ReceivedMsgs
  BY DEF ReceivedMsgs, Elements
<1>2. LastId # 1
  <2>1. SUFFICES ASSUME LastId = 1 PROVE FALSE
    OBVIOUS
  <2>2. ReceivedMsgs' = {}
    BY <1>1, <2>1, NothingReceived
  <2>. QED
    BY <2>2 DEF Had
<1>3. Offset' = Offset /\ i + Offset \in ReceivedMsgs
  BY <1>1, <1>2, <1>b, IdStep DEF Grows, Had
<1>4. i + Offset \in (Offset + 2)..mGlobalOrderCount
  BY Zenon, <1>3, <1>b DEF HadInv, IdInv
<1>5. i \in Int
  BY DEF Given
<1>6. i \in Given
  BY <1>4, <1>5, <1>t DEF Given
<1>. QED
  BY <1>3, <1>6 DEF Had

(* What the client has been given belongs to an id. *)
LEMMA ReceivedIds ==
    ASSUME Flow
    PROVE  /\ \A n \in DOMAIN received : /\ received[n].msg - Offset \in Given
                                         /\ (received[n].msg - Offset) + Offset = received[n].msg
                                         /\ received[n].msg - Offset \in Had
           /\ Offset \in Int
<1>b. BaseInv /\ IdInv /\ HadInv /\ ClientTypes
  BY DEF Flow, BaseInv
<1>t. LastId \in Nat /\ Offset \in Int /\ mGlobalOrderCount = LastId + Offset
  BY <1>b, IdTypes DEF Offset
<1>1. ASSUME NEW n \in DOMAIN received
      PROVE  /\ received[n].msg - Offset \in Given /\ received[n].msg - Offset \in Had
             /\ (received[n].msg - Offset) + Offset = received[n].msg
  <2>1. received[n].msg \in ReceivedMsgs
    BY <1>b, ReceivedFacts
  <2>2. received[n].msg \in (Offset + 2)..mGlobalOrderCount
    BY Zenon, <1>b, <2>1 DEF HadInv, IdInv
  <2>3. received[n].msg - Offset \in Given /\ (received[n].msg - Offset) + Offset = received[n].msg
    BY <1>t, <2>2 DEF Given
  <2>. QED
    BY <2>1, <2>3 DEF Had
<1>. QED
  BY <1>1, <1>t

(* The steps by which the client gets nothing. *)
LEMMA AgreeSame ==
    ASSUME Flow, Setting, [DNext]_allVars, BaseInv', NEW f, Agree(f), NEW g, Follows(f, g),
           received' = received,
           \A i \in Given : i \in cIds /\ i \in Had /\ OnWay(i)' => i \in cIds'
    PROVE  Agree(g)'
<1>b. BaseInv /\ IdInv
  BY DEF Flow
<1>1. \A n \in DOMAIN received' : received'[n].qos = g[received'[n].msg - Offset']
  <2>1. CASE LastId = 1
    <3>1. received' = <<>>
      BY <2>1, NothingReceived
    <3>. QED
      BY <3>1
  <2>2. CASE Offset' = Offset
    <3>1. \A n \in DOMAIN received : received[n].qos = f[received[n].msg - Offset]
      BY DEF Agree
    <3>2. \A n \in DOMAIN received : received[n].msg - Offset \in Given
      BY ReceivedIds
    <3>. QED
      BY <2>2, <3>1, <3>2 DEF Follows
  <2>. QED
    BY <1>b, <2>1, <2>2, IdStep DEF Grows
<1>2. ASSUME NEW i \in Given', g[i] = 2, i \in Had', OnWay(i)' PROVE i \in cIds'
  <2>1. i \in Given /\ i \in Had
    BY <1>2, HadSame
  <2>2. OnWay(i)
    BY <1>2, <2>1, OnWayStep
  <2>3. i \in cIds
    BY <1>2, <2>1, <2>2 DEF Agree, Follows
  <2>. QED
    BY <1>2, <2>1, <2>3
<1>. QED
  BY <1>1, <1>2, QosStep DEF Agree

(* The step by which the client gets a message. *)
LEMMA AgreeRead ==
    ASSUME Flow, Setting, [DNext]_allVars, BaseInv', NEW f, Agree(f), NEW g, Follows(f, g), ExactlyOnceOut,
           NEW c \in Conns, ClientRead(c), NEW p, p = Head(mSendTasks[c]), p.type = "PUBLISH",
           ~(p.qos = 2 /\ p.id \in cIds), received' = Append(received, [msg |-> p.msg, qos |-> p.qos]),
           cIds' = IF p.qos = 2 THEN cIds \cup {p.id} ELSE cIds
    PROVE  Agree(g)' /\ ExactlyOnceOut'
<1>b. BaseInv /\ IdInv /\ ClientTypes
  BY DEF Flow, BaseInv
<1>t. Offset \in Int /\ \A i \in Given : i \in Int
  BY ReceivedIds DEF Given
<1>1. p.id \in Given /\ p.msg = p.id + Offset
  BY HeadPublish
<1>2. p \in Packets /\ mSendTasks[c] # <<>> /\ LastId' = LastId /\ Offset' = Offset
  BY Zenon, <1>b, ReadEffect DEF coreVars, LastId, Offset, Sess
<1>3. p.qos = f[p.id] /\ OnWay(p.id)
  <2>1. mSendTasks[c] \in Seq(Packets)
    BY Zenon, <1>b DEF BaseInv, Inv, TypeOK
  <2>2. mSendTasks[c][1] = p /\ 1 \in DOMAIN mSendTasks[c]
    BY <1>2, <2>1, SeqFacts
  <2>. QED
    BY <2>2 DEF Agree, OnWay, PubIds
<1>4. g[p.id] = f[p.id]
  BY <1>1 DEF Follows
<1>5. p.id \in Had /\ p.qos = 2 => FALSE
  BY Zenon, <1>1, <1>3 DEF Agree
<1>. DEFINE e == [msg |-> p.msg, qos |-> p.qos]
            l == Len(received) + 1
<1>6. e.msg = p.msg /\ e.qos = p.qos
  OBVIOUS
<1>7. e \in [msg: 0..MaxPublish, qos: QoS] /\ received' = Append(received, e)
  BY <1>2 DEF Packets
<1>. HIDE DEF e
<1>8. /\ ReceivedMsgs' = ReceivedMsgs \cup {p.msg}
      /\ DOMAIN received' = DOMAIN received \cup {l}
      /\ received'[l] = e
      /\ \A j \in DOMAIN received : received'[j] = received[j]
  BY <1>6, <1>7, <1>b, ReceivedFacts
<1>. HIDE DEF l
<1>9. ASSUME NEW n \in DOMAIN received' PROVE received'[n].qos = g[received'[n].msg - Offset']
  <2>1. CASE n = l
    <3>1. p.msg - Offset = p.id
      BY <1>1, <1>t
    <3>. QED
      BY <1>2, <1>3, <1>4, <1>6, <1>8, <2>1, <3>1
  <2>2. CASE n \in DOMAIN received
    <3>1. received[n].qos = f[received[n].msg - Offset] /\ received[n].msg - Offset \in Given
      BY <2>2, ReceivedIds DEF Agree
    <3>. QED
      BY <1>2, <1>8, <2>2, <3>1 DEF Follows
  <2>. QED
    BY SMTT(60), <1>8, <1>9, <2>1, <2>2
<1>10. ASSUME NEW i \in Given', g[i] = 2, i \in Had', OnWay(i)' PROVE i \in cIds'
  <2>0. i \in Given
    BY <1>2, <1>10 DEF Given
  <2>1. CASE i = p.id
    BY <1>3, <1>4, <1>10, <2>1
  <2>2. CASE i # p.id
    <3>1. i + Offset # p.msg
      BY <1>1, <1>t, <2>0, <2>2
    <3>2. i \in Had
      BY <1>2, <1>8, <1>10, <2>0, <3>1 DEF Had
    <3>3. OnWay(i)
      BY <1>10, <2>0, OnWayStep
    <3>. QED
      BY <1>10, <2>0, <3>2, <3>3 DEF Agree, Follows
  <2>. QED
    BY <2>1, <2>2
<1>11. ASSUME NEW k \in DOMAIN received, received[k].msg = p.msg PROVE received[k].qos # 2 /\ p.qos # 2
  <2>1. received[k].msg - Offset = p.id
    BY <1>1, <1>11, <1>t
  <2>2. p.id \in Had /\ received[k].qos = f[p.id]
    BY <2>1, ReceivedIds DEF Agree
  <2>. QED
    BY <1>3, <1>5, <2>2
<1>12. ExactlyOnceOut'
  <2>. SUFFICES ASSUME NEW i \in DOMAIN received', NEW j \in DOMAIN received',
                       received'[i].msg = received'[j].msg, received'[i].qos = 2
                PROVE  i = j
    BY DEF ExactlyOnceOut
  <2>1. CASE i \in DOMAIN received /\ j \in DOMAIN received
    BY <1>8, <2>1 DEF ExactlyOnceOut
  <2>2. CASE i \in DOMAIN received /\ j = l
    BY <1>6, <1>8, <1>11, <2>2
  <2>3. CASE i = l /\ j \in DOMAIN received
    BY SMTT(60), <1>6, <1>8, <1>11, <2>3
  <2>. QED
    BY <1>8, <2>1, <2>2, <2>3
<1>13. Agree(g)'
  BY SMTT(60), <1>9, <1>10, QosStep DEF Agree
<1>. QED
  BY <1>12, <1>13

(* The client gets every message of QoS 2 once. *)
LEMMA OnceStep ==
    ASSUME Flow, Setting, [DNext]_allVars, OnceInv PROVE OnceInv'
<1>. USE ConstantsAssumption
<1>b. BaseInv /\ IdInv /\ StreamInv /\ BaseInv' /\ FlagInv /\ ExactlyOnceOut
  BY BaseStep DEF Flow, OnceInv
<1>f. FlagInv'
  BY <1>b, FlagStep
<1>1. PICK f \in [Ids -> {1, 2}] : Agree(f)
  BY DEF OnceInv
<1>2. PICK g \in [Ids -> {1, 2}] : Follows(f, g)
  BY Follower
<1>e. ASSUME received' = received PROVE ExactlyOnceOut'
  BY <1>b, <1>e DEF ExactlyOnceOut
<1>3. ASSUME UNCHANGED <<received, cIds>> PROVE Agree(g)' /\ ExactlyOnceOut'
  BY <1>1, <1>2, <1>3, <1>b, <1>e, AgreeSame
<1>4. ASSUME NEW c \in Conns, ClientRead(c) PROVE Agree(g)' /\ ExactlyOnceOut'
  <2>0. PICK p : p = Head(mSendTasks[c])
    OBVIOUS
  <2>t. /\ conn = c /\ mSendTasks[c] # <<>> /\ mSendTasks[c] \in Seq(Packets)
        /\ mSendTasks' = [mSendTasks EXCEPT ![c] = Tail(@)]
    BY Zenon, <1>4, <1>b DEF ClientRead, BaseInv, Inv, TypeOK
  <2>w. WellSent(mSendTasks[c], LastId, Offset, Flying, Had)
    BY <1>b DEF StreamInv
  <2>h. mSendTasks[c][1] = p /\ 1 \in DOMAIN mSendTasks[c]
    BY <2>0, <2>t, SeqFacts
  <2>1. CASE p.type = "PUBLISH"
    <3>1. CASE UNCHANGED <<received, cIds>>
      BY <1>3, <3>1
    <3>2. CASE /\ ~(p.qos = 2 /\ p.id \in cIds)
               /\ received' = Append(received, [msg |-> p.msg, qos |-> p.qos])
               /\ cIds' = IF p.qos = 2 THEN cIds \cup {p.id} ELSE cIds
      BY Zenon, <1>1, <1>2, <1>4, <1>b, <2>0, <2>1, <3>2, AgreeRead
    <3>. QED
      BY <1>4, <1>b, <2>0, <2>1, <3>1, <3>2, ReadEffect
  <2>2. CASE p.type = "CONNACK"
    <3>1. received' = received /\ cIds' = IF p.flag THEN cIds ELSE {}
      BY Zenon, <1>4, <1>b, <2>0, <2>2, ReadEffect
    <3>2. CASE p.flag = TRUE
      BY <1>3, <3>1, <3>2
    <3>3. CASE p.flag # TRUE
      <4>1. received = <<>>
        BY Zenon, <1>b, <2>2, <2>h, <3>3 DEF FlagInv
      <4>2. Had = {}
        BY <4>1 DEF Had, ReceivedMsgs, Elements
      <4>. QED
        BY <1>1, <1>2, <1>b, <1>e, <3>1, <4>2, AgreeSame
    <3>. QED
      BY Zenon, <3>2, <3>3
  <2>3. CASE p.type = "PUBREL"
    <3>1. received' = received /\ cIds' = cIds \ {p.id}
      BY Zenon, <1>4, <1>b, <2>0, <2>3, ReadEffect
    <3>2. p.id \in 2..LastId /\ p.id \notin Flying /\ p.id \notin PubIds(mSendTasks[c])
      BY <2>3, <2>h, <2>w DEF WellSent
    <3>3. ~OnWay(p.id)
      <4>1. \A d \in Conns : d # c => mSendTasks[d] = <<>>
        BY <1>b, <2>t DEF BaseInv, PeerInv
      <4>2. \A d \in Conns : d # c => PubIds(mSendTasks[d]) = {}
        BY <4>1 DEF PubIds
      <4>. QED
        BY <3>2, <4>2 DEF OnWay
    <3>4. ~OnWay(p.id)'
      BY <1>b, <3>2, <3>3, OnWayStep DEF Given
    <3>. QED
      BY <1>1, <1>2, <1>b, <1>e, <3>1, <3>4, AgreeSame
  <2>4. CASE p.type \notin {"PUBLISH", "CONNACK", "PUBREL"}
    BY Zenon, <1>3, <1>4, <1>b, <2>0, <2>4, ReadEffect
  <2>. QED
    BY <2>1, <2>2, <2>3, <2>4
<1>5. Agree(g)' /\ ExactlyOnceOut'
  BY Zenon, <1>3, <1>4, <1>b, AckEffect, LoginEffect, PublishEffect, Kinds DEF Routine
<1>. QED
  BY <1>2, <1>5, <1>f DEF OnceInv

(* A message published with QoS 2 reaches the application once, although it is     *)
(* resent after every login that finds it in flight: an id the client has not yet  *)
(* released is the only one under which the message can come again.                *)
THEOREM MessagesOnce == Setting /\ DSpec => []ExactlyOnceOut
<1>. USE ConstantsAssumption
<1>1. DInit => OnceInv
  <2>. SUFFICES ASSUME DInit PROVE OnceInv
    OBVIOUS
  <2>1. /\ Sess = Null /\ mSendTasks = [c \in Conns |-> <<>>] /\ received = <<>>
    BY DEF DInit, Init, Sess
  <2>2. Flying = {} /\ Given = {}
    BY <2>1 DEF Flying, Given, LastId
  <2>3. Agree([i \in Ids |-> 1])
    BY <2>1, <2>2 DEF Agree
  <2>4. [i \in Ids |-> 1] \in [Ids -> {1, 2}]
    OBVIOUS
  <2>5. ExactlyOnceOut /\ FlagInv
    BY <2>1 DEF ExactlyOnceOut, FlagInv
  <2>. QED
    BY <2>3, <2>4, <2>5 DEF OnceInv
<1>2. OnceInv => ExactlyOnceOut
  BY DEF OnceInv
<1>3. CASE Setting
  <2>1. Flow /\ [DNext]_allVars => Flow'
    BY <1>3, FlowStep
  <2>2. Flow /\ OnceInv /\ [DNext]_allVars => OnceInv'
    BY <1>3, OnceStep
  <2>. QED
    BY FlowInit, <1>1, <1>2, <2>1, <2>2, PTL DEF DSpec
<1>. QED
  BY <1>3

-----------------------------------------------------------------------------
(* Messages of the client *)

\* Message m of the client was passed to app.publish, or a receiver is about to
Forwarding(m) ==
    \/ m \in Elements(forwarded)
    \/ \E c \in Conns : recv[c].pc = "forward" /\ recv[c].packet.msg = m

\* The packets of the handshake for a message of the client, up and down
UpTypes == {"PUBLISH", "PUBREL"}
DownTypes == {"PUBREC", "PUBCOMP"}

None(s, types) == \A n \in DOMAIN s : s[n].type \notin types
Single(s, types) == \A n, l \in DOMAIN s : s[n].type \in types /\ s[l].type \in types => n = l

\* A handler is going to apply a packet of the handshake
InHand(c) == recv[c].pc = "apply" /\ recv[c].packet.type \in UpTypes

\* It belongs to the message that the client is sending
Current(p) ==
    /\ sendState # "idle" /\ p.id = SendId
    /\ p.type = "PUBLISH" => p.msg = sendCount

\* Nothing of the handshake is on its way to the broker, or back
NoneUp(c) == None(toServer[c], UpTypes) /\ ~InHand(c)
NoneDown(c) == None(mSendTasks[c], DownTypes)

(* On the client's connection at most one packet of the handshake is on its way.   *)
OneOnWay(c) ==
    /\ Single(toServer[c], UpTypes) /\ Single(mSendTasks[c], DownTypes)
    /\ InHand(c) => None(toServer[c], UpTypes)
    /\ NoneUp(c) \/ NoneDown(c)
    /\ ~ready => NoneUp(c) /\ NoneDown(c)
    /\ Single(mSendTasks[c], {"CONNACK"}) /\ (ready => None(mSendTasks[c], {"CONNACK"}))
    /\ \A n \in DOMAIN mSendTasks[c] :
          mSendTasks[c][n].type \in DownTypes => Current(mSendTasks[c][n])

\* What is on its way up is about the message the client is sending
UpCurrent(c) ==
    /\ InHand(c) => Current(recv[c].packet)
    /\ \A n \in DOMAIN toServer[c] : toServer[c][n].type \in UpTypes => Current(toServer[c][n])

(* Whatever may still be applied to the session by right belongs to the current    *)
(* message, and an older connection has such packets only as long as the client's  *)
(* own connection is not logged in.                                                *)
HandshakeInv ==
    /\ sendState # "idle" => sendCount >= 1
    /\ conn # Null => OneOnWay(conn)
    /\ \A c \in Conns : c = conn \/ mPersistentClientState[c] # Null => UpCurrent(c)
    /\ \A c \in Conns : c # conn /\ mPersistentClientState[c] # Null /\ conn # Null =>
          NoneUp(c) \/ mState[conn] # "CONNECTED"

\* The marks of the session
Marks == IF Sess = Null THEN {} ELSE mQoS2receivingPacketIds[Sess]

(* A mark tells that the message the client is sending is forwarded, and it is     *)
(* gone before the client is told that the handshake is over.                      *)
MarkInv ==
    /\ \A i \in Marks : i = SendId /\ sendState # "idle" /\ Forwarding(sendCount)
    /\ conn # Null => \A n \in DOMAIN mSendTasks[conn] :
          /\ mSendTasks[conn][n].type = "PUBREC" => Forwarding(sendCount)
          /\ mSendTasks[conn][n].type = "PUBCOMP" => Marks = {}
    /\ InboundNoLoss

\* The client's own state is left alone
ClientSame == UNCHANGED <<ready, sendCount, sendState>>

\* What a step keeps on connection c
Keeps(c) ==
    /\ NoneUp(c) => NoneUp(c)'
    /\ UpCurrent(c) => UpCurrent(c)'
    /\ UpCurrent(c) /\ OneOnWay(c) => OneOnWay(c)'

\* Nothing of the handshake is added on its way up
UpSame(c) ==
    /\ toServer'[c] = toServer[c]
    /\ InHand(c)' => InHand(c) /\ recv'[c].packet = recv[c].packet

(* Packets of some types in a sequence that becomes shorter or longer. *)
LEMMA TypesTail ==
    ASSUME NEW S, NEW T, NEW s \in Seq(S), s # <<>>
    PROVE  /\ None(s, T) => None(Tail(s), T)
           /\ Single(s, T) => Single(Tail(s), T)
           /\ Single(s, T) /\ Head(s).type \in T => None(Tail(s), T)
<1>1. /\ Head(s) = s[1] /\ 1 \in DOMAIN s
      /\ \A n \in DOMAIN Tail(s) : n \in Nat /\ n >= 1 /\ n + 1 \in DOMAIN s /\ Tail(s)[n] = s[n + 1]
  OBVIOUS
<1>2. None(s, T) => None(Tail(s), T)
  BY <1>1 DEF None
<1>3. ASSUME Single(s, T), NEW n \in DOMAIN Tail(s), NEW l \in DOMAIN Tail(s),
             Tail(s)[n].type \in T, Tail(s)[l].type \in T
      PROVE  n = l
  <2>1. n + 1 = l + 1
    BY <1>1, <1>3 DEF Single
  <2>. QED
    BY <1>1, <1>3, <2>1
<1>4. ASSUME Single(s, T), Head(s).type \in T, NEW n \in DOMAIN Tail(s), Tail(s)[n].type \in T
      PROVE  FALSE
  <2>1. n + 1 = 1
    BY <1>1, <1>4 DEF Single
  <2>. QED
    BY <1>1, <1>4, <2>1
<1>. QED
  BY <1>2, <1>3, <1>4 DEF None, Single

(* The same for a sequence that becomes longer. *)
LEMMA TypesConcat ==
    ASSUME NEW S, NEW T, NEW s \in Seq(S), NEW a \in Seq(S)
    PROVE  /\ None(s, T) /\ None(a, T) => None(s \o a, T)
           /\ None(s, T) /\ Single(a, T) => Single(s \o a, T)
           /\ Single(s, T) /\ None(a, T) => Single(s \o a, T)
           /\ \A n \in DOMAIN (s \o a) :
                 \/ n \in DOMAIN s /\ (s \o a)[n] = s[n]
                 \/ n - Len(s) \in DOMAIN a /\ (s \o a)[n] = a[n - Len(s)]
<1>1. /\ Len(s) \in Nat
      /\ \A n \in DOMAIN (s \o a) : n \in Nat /\
                 (\/ n \in DOMAIN s /\ (s \o a)[n] = s[n]
                  \/ n - Len(s) \in DOMAIN a /\ (s \o a)[n] = a[n - Len(s)])
  OBVIOUS
<1>2. None(s, T) /\ None(a, T) => None(s \o a, T)
  BY <1>1 DEF None
<1>3. ASSUME None(s, T), Single(a, T), NEW n \in DOMAIN (s \o a), NEW l \in DOMAIN (s \o a),
             (s \o a)[n].type \in T, (s \o a)[l].type \in T
      PROVE  n = l
  <2>1. n - Len(s) \in DOMAIN a /\ (s \o a)[n] = a[n - Len(s)]
    BY Zenon, <1>1, <1>3 DEF None
  <2>2. l - Len(s) \in DOMAIN a /\ (s \o a)[l] = a[l - Len(s)]
    BY <1>1, <1>3 DEF None
  <2>3. n - Len(s) = l - Len(s)
    BY <1>3, <2>1, <2>2 DEF Single
  <2>. QED
    BY <1>1, <1>3, <2>3
<1>4. ASSUME Single(s, T), None(a, T), NEW n \in DOMAIN (s \o a), NEW l \in DOMAIN (s \o a),
             (s \o a)[n].type \in T, (s \o a)[l].type \in T
      PROVE  n = l
  <2>1. n \in DOMAIN s /\ (s \o a)[n] = s[n]
    BY <1>1, <1>4 DEF None
  <2>2. l \in DOMAIN s /\ (s \o a)[l] = s[l]
    BY <1>1, <1>4 DEF None
  <2>. QED
    BY <1>4, <2>1, <2>2 DEF Single
<1>. HIDE DEF None
<1>5. None(s, T) /\ Single(a, T) => Single(s \o a, T)
  BY <1>3 DEF Single
<1>6. Single(s, T) /\ None(a, T) => Single(s \o a, T)
  BY <1>4 DEF Single
<1>. QED
  BY <1>1, <1>2, <1>5, <1>6

(* The current message stays the current one. *)
LEMMA CurrentKept ==
    ASSUME UNCHANGED <<sendCount, sendState>>
    PROVE  \A p : Current(p) => Current(p)'
BY DEF Current, SendId

(* A step that adds nothing to the handshake on c, but may send other packets. *)
LEMMA KeepsOther ==
    ASSUME ClientSame, NEW c \in Conns, UpSame(c), NEW S, mSendTasks[c] \in Seq(S), NEW a \in Seq(S),
           None(a, DownTypes), None(a, {"CONNACK"}),
           mSendTasks'[c] = mSendTasks[c] \/ mSendTasks'[c] = mSendTasks[c] \o a
    PROVE  Keeps(c)
<1>c. \A p : Current(p) => Current(p)'
  BY CurrentKept DEF ClientSame
<1>1. NoneUp(c) => NoneUp(c)'
  BY DEF UpSame, NoneUp, None
<1>2. UpCurrent(c) => UpCurrent(c)'
  <2>. HIDE DEF Current
  <2>. QED
    BY <1>c DEF UpSame, UpCurrent
<1>3. PICK s \in Seq(S) : s = mSendTasks[c]
  OBVIOUS
<1>4. PICK t : t = mSendTasks'[c]
  OBVIOUS
<1>5. /\ None(s, DownTypes) => None(t, DownTypes)
      /\ Single(s, DownTypes) => Single(t, DownTypes)
      /\ None(s, {"CONNACK"}) => None(t, {"CONNACK"})
      /\ Single(s, {"CONNACK"}) => Single(t, {"CONNACK"})
      /\ \A n \in DOMAIN t : t[n].type \in DownTypes => \E l \in DOMAIN s : t[n] = s[l]
  <2>1. CASE t = s
    BY <2>1
  <2>2. CASE t = s \o a
    <3>1. \A n \in DOMAIN t : t[n].type \in DownTypes => \E l \in DOMAIN s : t[n] = s[l]
      BY <2>2, TypesConcat DEF None
    <3>. HIDE DEF None, Single
    <3>. QED
      BY <2>2, <3>1, TypesConcat
  <2>. QED
    BY <1>3, <1>4, <2>1, <2>2
<1>6. NoneDown(c) => NoneDown(c)'
  BY <1>3, <1>4, <1>5 DEF NoneDown, None
<1>7. ASSUME OneOnWay(c) PROVE OneOnWay(c)'
  <2>1. Single(toServer[c], UpTypes)' /\ (InHand(c) => None(toServer[c], UpTypes))'
    BY <1>7 DEF OneOnWay, UpSame, Single, None
  <2>2. (NoneUp(c) \/ NoneDown(c))' /\ (~ready => NoneUp(c) /\ NoneDown(c))'
    BY <1>1, <1>6, <1>7 DEF OneOnWay, ClientSame
  <2>3. Single(mSendTasks[c], DownTypes)' /\ Single(mSendTasks[c], {"CONNACK"})'
    BY <1>3, <1>4, <1>5, <1>7 DEF OneOnWay, Single
  <2>4. (ready => None(mSendTasks[c], {"CONNACK"}))'
    BY <1>3, <1>4, <1>5, <1>7 DEF OneOnWay, None, ClientSame
  <2>5. \A n \in DOMAIN t : t[n].type \in DownTypes => Current(t[n])'
    <3>. HIDE DEF Current
    <3>. QED
      BY <1>3, <1>5, <1>7, <1>c DEF OneOnWay
  <2>6. (\A n \in DOMAIN mSendTasks[c] : mSendTasks[c][n].type \in DownTypes => Current(mSendTasks[c][n]))'
    BY <1>4, <2>5
  <2>. QED
    BY <2>1, <2>2, <2>3, <2>4, <2>6 DEF OneOnWay
<1>. QED
  BY <1>1, <1>2, <1>7 DEF Keeps

(* A receiver takes the next packet. *)
LEMMA KeepsRead ==
    ASSUME BaseInv, ClientSame, NEW c \in Conns, ServerRead(c)
    PROVE  Keeps(c)
<1>t. /\ toServer \in [Conns -> Seq(Packets)]
      /\ recv \in [Conns -> [pc: {"idle", "apply", "store", "storeLocked", "forward"},
                             packet: Packets, state: Conns \cup {Null}, word: SUBSET BitIds]]
  BY Zenon DEF BaseInv, Inv, ClientTypes, TypeOK
<1>c. \A p : Current(p) => Current(p)'
  BY CurrentKept DEF ClientSame
<1>1. PICK s \in Seq(Packets) : s = toServer[c]
  BY <1>t
<1>2. /\ s # <<>> /\ toServer'[c] = Tail(s)
      /\ mSendTasks' = mSendTasks /\ recv[c] = Idle
  BY Zenon, <1>t, <1>1 DEF ServerRead, RecvConnect, LoadSession, MayHandle
<1>3. Head(s) = s[1] /\ 1 \in DOMAIN s
      /\ \A n \in DOMAIN Tail(s) : n + 1 \in DOMAIN s /\ Tail(s)[n] = s[n + 1]
  BY <1>2, SeqFacts
<1>4. ~InHand(c)
  BY <1>2 DEF InHand, Idle
<1>5. InHand(c)' => recv'[c].packet = Head(s) /\ Head(s).type \in UpTypes
  <2>1. CASE recv' = recv
    BY <1>4, <2>1 DEF InHand
  <2>2. CASE recv' = [recv EXCEPT ![c] = [pc |-> "apply", packet |-> Head(toServer[c]),
                                          state |-> mPersistentClientState[c], word |-> {}]]
    BY <1>t, <1>1, <2>2 DEF InHand
  <2>. QED
    BY Zenon, <2>1, <2>2 DEF ServerRead, RecvConnect, LoadSession
<1>6. /\ None(s, UpTypes) => None(Tail(s), UpTypes)
      /\ Single(s, UpTypes) => Single(Tail(s), UpTypes)
      /\ Single(s, UpTypes) /\ Head(s).type \in UpTypes => None(Tail(s), UpTypes)
  BY <1>2, TypesTail
<1>7. NoneUp(c) => NoneUp(c)'
  BY <1>1, <1>2, <1>3, <1>5, <1>6 DEF NoneUp, None
<1>8. ASSUME UpCurrent(c) PROVE UpCurrent(c)'
  <2>. HIDE DEF Current
  <2>1. InHand(c)' => Current(recv[c].packet)'
    BY <1>1, <1>3, <1>5, <1>8, <1>c DEF UpCurrent
  <2>2. \A n \in DOMAIN Tail(s) : Tail(s)[n].type \in UpTypes => Current(Tail(s)[n])'
    BY <1>1, <1>3, <1>8, <1>c DEF UpCurrent
  <2>3. (\A n \in DOMAIN toServer[c] : toServer[c][n].type \in UpTypes => Current(toServer[c][n]))'
    BY <1>2, <2>2
  <2>. QED
    BY <2>1, <2>3 DEF UpCurrent
<1>9. ASSUME OneOnWay(c) PROVE OneOnWay(c)'
  <2>1. Single(toServer[c], UpTypes)' /\ (InHand(c) => None(toServer[c], UpTypes))'
    BY SMTT(60), <1>1, <1>2, <1>5, <1>6, <1>9 DEF OneOnWay, Single, None
  <2>2. NoneDown(c)' <=> NoneDown(c)
    BY <1>2 DEF NoneDown, None
  <2>3. (NoneUp(c) \/ NoneDown(c))' /\ (~ready => NoneUp(c) /\ NoneDown(c))'
    BY <1>7, <1>9, <2>2 DEF OneOnWay, ClientSame
  <2>4. /\ Single(mSendTasks[c], DownTypes)' /\ Single(mSendTasks[c], {"CONNACK"})'
        /\ (ready => None(mSendTasks[c], {"CONNACK"}))'
    BY <1>2, <1>9 DEF OneOnWay, Single, None, ClientSame
  <2>5. (\A n \in DOMAIN mSendTasks[c] : mSendTasks[c][n].type \in DownTypes => Current(mSendTasks[c][n]))'
    <3>. HIDE DEF Current
    <3>1. \A n \in DOMAIN mSendTasks[c] : mSendTasks[c][n].type \in DownTypes => Current(mSendTasks[c][n])'
      BY <1>9, <1>c, <1>2 DEF OneOnWay
    <3>. QED
      BY <1>2, <3>1
  <2>. QED
    BY <2>1, <2>3, <2>4, <2>5 DEF OneOnWay
<1>. QED
  BY <1>7, <1>8, <1>9 DEF Keeps

(* A handler applies a PUBLISH or a PUBREL of the client and answers it. *)
LEMMA KeepsAnswered ==
    ASSUME BaseInv, ClientSame, NEW c \in Conns, NEW type \in DownTypes, NEW p, p = recv[c].packet,
           InHand(c), ~InHand(c)', toServer'[c] = toServer[c], Send(c, <<Control(type, p.id)>>)
    PROVE  Keeps(c)
<1>t. mSendTasks \in [Conns -> Seq(Packets)] /\ TypeOK /\ p \in Packets
  <2>1. recv \in [Conns -> [pc: {"idle", "apply", "store", "storeLocked", "forward"},
                             packet: Packets, state: Conns \cup {Null}, word: SUBSET BitIds]]
    BY Zenon DEF BaseInv, Inv, TypeOK
  <2>. QED
    BY Zenon, <2>1 DEF BaseInv, Inv, TypeOK
<1>c. \A q : Current(q) => Current(q)'
  BY CurrentKept DEF ClientSame
<1>1. PICK s \in Seq(Packets) : s = mSendTasks[c]
  BY <1>t
<1>2. PICK r : r = Control(type, p.id)
  OBVIOUS
<1>3. r \in Packets /\ r.type = type /\ r.id = p.id /\ r.type # "CONNACK" /\ r.type # "PUBLISH"
  <2>1. p.id \in BitIds /\ type \in {"PUBREC", "PUBCOMP"}
    BY <1>t DEF Packets, BitIds, DownTypes
  <2>2. r \in Packets
    BY <1>2, <2>1, PacketTypesOK DEF PacketTypes
  <2>. QED
    BY <1>2, <2>1, <2>2 DEF Control, Packet
<1>4. UpSame(c)
  BY DEF UpSame
<1>5. NoneUp(c) => NoneUp(c)'
  BY <1>4 DEF UpSame, NoneUp, None
<1>6. UpCurrent(c) => UpCurrent(c)'
  <2>. HIDE DEF Current
  <2>. QED
    BY <1>4, <1>c DEF UpSame, UpCurrent
<1>7. ASSUME UpCurrent(c), OneOnWay(c) PROVE OneOnWay(c)'
  <2>1. None(toServer[c], UpTypes) /\ NoneDown(c) /\ ready /\ Current(p)
    BY <1>7 DEF OneOnWay, UpCurrent, NoneUp
  <2>2. NoneUp(c)' /\ Single(toServer[c], UpTypes)' /\ ready'
    BY <2>1 DEF NoneUp, None, Single, ClientSame
  <2>3. PICK t : t = mSendTasks'[c]
    OBVIOUS
  <2>4. /\ Single(t, DownTypes) /\ None(t, {"CONNACK"})
        /\ \A n \in DOMAIN t : t[n].type \in DownTypes => t[n] = r
    <3>1. None(s, DownTypes) /\ None(s, {"CONNACK"})
      BY <1>1, <1>7, <2>1 DEF OneOnWay, NoneDown
    <3>2. CASE t = s
      BY <3>1, <3>2 DEF None, Single
    <3>3. CASE t = s \o <<r>>
      <4>1. <<r>> \in Seq(Packets) /\ \A n \in DOMAIN <<r>> : n = 1 /\ <<r>>[n] = r
        BY <1>3
      <4>2. PICK a \in Seq(Packets) : a = <<r>> /\ \A n \in DOMAIN a : n = 1 /\ a[n] = r
        BY Zenon, <4>1
      <4>3. Single(a, DownTypes) /\ None(a, {"CONNACK"})
        BY <1>3, <4>2 DEF Single, None
      <4>4. \A n \in DOMAIN t : t[n].type \in DownTypes => t[n] = r
        BY <3>1, <3>3, <4>2, TypesConcat DEF None
      <4>. HIDE DEF None, Single
      <4>. QED
        BY Zenon, <3>1, <3>3, <4>2, <4>3, <4>4, TypesConcat
    <3>. QED
      BY Zenon, <1>1, <1>2, <1>t, <2>3, <3>2, <3>3, SendsOn
  <2>5. Current(r)'
    <3>1. Current(r)
      BY <1>3, <2>1 DEF Current
    <3>. QED
      BY <1>c, <3>1
  <2>6. \A n \in DOMAIN t : t[n].type \in DownTypes => Current(t[n])'
    <3>. HIDE DEF Current
    <3>. QED
      BY <2>4, <2>5
  <2>7. (\A n \in DOMAIN mSendTasks[c] : mSendTasks[c][n].type \in DownTypes => Current(mSendTasks[c][n]))'
    BY <2>3, <2>6
  <2>8. Single(mSendTasks[c], {"CONNACK"})' /\ None(mSendTasks[c], {"CONNACK"})' /\ Single(mSendTasks[c], DownTypes)'
    BY <2>3, <2>4 DEF None, Single
  <2>. QED
    BY <2>2, <2>7, <2>8 DEF OneOnWay
<1>. QED
  BY <1>5, <1>6, <1>7 DEF Keeps

(* Steps that keep what is on every connection, without a login. *)
LEMMA HandshakeKept ==
    ASSUME BaseInv, HandshakeInv, \A c \in Conns : Keeps(c), UNCHANGED <<conn, sendCount, sendState>>,
           \A c \in Conns : mPersistentClientState'[c] \in {Null, mPersistentClientState[c]},
           \A c \in Conns : mState'[c] = "CONNECTED" => mState[c] = "CONNECTED"
    PROVE  HandshakeInv'
<1>0. conn \in Conns \cup {Null}
  BY DEF BaseInv, ClientTypes
<1>. HIDE DEF OneOnWay, UpCurrent, NoneUp
<1>2. (conn # Null => OneOnWay(conn))'
  <2>1. ASSUME NEW c \in Conns, c = conn PROVE OneOnWay(c)'
    BY <2>1, ConstantsAssumption DEF HandshakeInv, Keeps
  <2>2. ASSUME conn' # Null PROVE OneOnWay(conn)'
    <3>1. PICK c \in Conns : c = conn /\ c = conn'
      BY <1>0, <2>2
    <3>. QED
      BY <2>1, <3>1 DEF OneOnWay, NoneUp, NoneDown, InHand
  <2>. QED
    BY <2>2
<1>3. (\A c \in Conns : c = conn \/ mPersistentClientState[c] # Null => UpCurrent(c))'
  BY DEF HandshakeInv, Keeps
<1>4. (\A c \in Conns : c # conn /\ mPersistentClientState[c] # Null /\ conn # Null =>
          NoneUp(c) \/ mState[conn] # "CONNECTED")'
  BY <1>0 DEF HandshakeInv, Keeps
<1>. QED
  BY <1>2, <1>3, <1>4 DEF HandshakeInv

\* A step that keeps what is on every connection, without a login
Quiet ==
    /\ \A c \in Conns : Keeps(c)
    /\ UNCHANGED <<conn, sendCount, sendState>>
    /\ \A c \in Conns : mPersistentClientState'[c] \in {Null, mPersistentClientState[c]}
    /\ \A c \in Conns : mState'[c] = "CONNECTED" => mState[c] = "CONNECTED"

(* Nothing happens on a connection. *)
LEMMA KeepsSame ==
    ASSUME BaseInv, ClientSame, NEW c \in Conns, UpSame(c), mSendTasks'[c] = mSendTasks[c]
    PROVE  Keeps(c)
<1>0. mSendTasks \in [Conns -> Seq(Packets)]
  BY Zenon DEF BaseInv, Inv, TypeOK
<1>1. mSendTasks[c] \in Seq(Packets) /\ <<>> \in Seq(Packets)
  BY <1>0
<1>2. None(<<>>, DownTypes) /\ None(<<>>, {"CONNACK"})
  BY DEF None
<1>. QED
  BY Zenon, <1>1, <1>2, KeepsOther

(* A handler works on one packet. *)
LEMMA KeepsHandled ==
    ASSUME BaseInv, NEW c \in Conns, NEW o \in Conns, Handle(c, o), UNCHANGED envVars
    PROVE  Quiet
<1>. USE DEF connVars
<1>t. /\ recv \in [Conns -> [pc: {"idle", "apply", "store", "storeLocked", "forward"},
                             packet: Packets, state: Conns \cup {Null}, word: SUBSET BitIds]]
      /\ mSendTasks \in [Conns -> Seq(Packets)] /\ TypeOK
  BY Zenon DEF BaseInv, Inv, TypeOK
<1>e. ClientSame /\ UNCHANGED <<toServer, conn, sendCount, sendState>>
  BY DEF envVars, clientVars, ClientSame
<1>1. UNCHANGED <<mState, mPersistentClientState>>
  BY DEF Handle, HandlePuback, HandlePubrec, HandlePubcomp, StorePubrecBit, HandlePubrel,
         HandlePublishQoS2, HandleSubscribe, HandleUnsubscribe
<1>2. ~InHand(c)' /\ \A d \in Conns : d # c => recv'[d] = recv[d]
  <2>1. CASE recv' = [recv EXCEPT ![c] = Idle]
    BY <1>t, <2>1 DEF Idle, InHand
  <2>2. CASE HandlePubrec(c, o)
    <3>1. PICK pc \in {"storeLocked", "store"} :
             recv' = [recv EXCEPT ![c].word = mQos2pubrecReceived[o], ![c].pc = pc]
      BY Zenon, <2>2 DEF HandlePubrec
    <3>. QED
      BY <1>t, <3>1 DEF InHand
  <2>3. CASE HandlePubcomp(c, o)
    BY <1>t, <2>3 DEF HandlePubcomp, InHand
  <2>4. CASE HandlePublishQoS2(c, o)
    BY <1>t, <2>4 DEF HandlePublishQoS2, InHand, Idle
  <2>. QED
    BY <2>1, <2>2, <2>3, <2>4 DEF Handle, HandlePuback, StorePubrecBit, HandlePubrel, HandleSubscribe,
       HandleUnsubscribe
<1>3. ASSUME NEW d \in Conns PROVE UpSame(d)
  BY <1>2, <1>e DEF UpSame, InHand
<1>4. PICK p \in Packets : p = recv[c].packet
  BY SMTT(60), <1>t
<1>5. \/ mSendTasks' = mSendTasks
      \/ \E type \in {"PUBREL", "SUBACK", "UNSUBACK"} : Send(c, <<Control(type, p.id)>>)
      \/ InHand(c) /\ \E type \in DownTypes : Send(c, <<Control(type, p.id)>>)
  BY <1>4 DEF Handle, HandlePuback, HandlePubrec, HandlePubcomp, StorePubrecBit, HandlePubrel,
         HandlePublishQoS2, HandleSubscribe, HandleUnsubscribe, Applies, InHand, UpTypes, DownTypes
<1>6. \A d \in Conns : d # c => mSendTasks'[d] = mSendTasks[d]
  BY Zenon, <1>5, <1>t, SendsOn
<1>7. ASSUME NEW d \in Conns, d # c PROVE Keeps(d)
  BY <1>3, <1>6, <1>7, <1>e, KeepsSame
<1>8. CASE mSendTasks' = mSendTasks
  <2>1. Keeps(c)
    BY <1>3, <1>8, <1>e, KeepsSame
  <2>. QED
    BY <1>1, <1>7, <1>e, <2>1 DEF Quiet
<1>9. ASSUME NEW type \in {"PUBREL", "SUBACK", "UNSUBACK"}, Send(c, <<Control(type, p.id)>>) PROVE Quiet
  <2>1. PICK r : r = Control(type, p.id)
    OBVIOUS
  <2>2. r \in Packets
    <3>1. p.id \in BitIds
      BY DEF Packets, BitIds
    <3>. QED
      BY <2>1, <3>1, PacketTypesOK DEF PacketTypes
  <2>3. r.type \notin DownTypes \cup {"CONNACK"}
    BY <2>1 DEF Control, Packet, DownTypes
  <2>3a. <<r>> \in Seq(Packets)
    BY <2>2
  <2>4. PICK a \in Seq(Packets) : a = <<r>>
    BY Zenon, <2>3a
  <2>5. None(a, DownTypes) /\ None(a, {"CONNACK"})
    BY <2>3, <2>4 DEF None
  <2>6. mSendTasks'[c] = mSendTasks[c] \/ mSendTasks'[c] = mSendTasks[c] \o a
    BY Zenon, <1>9, <1>t, <2>1, <2>4, SendsOn
  <2>7. Keeps(c)
    BY <1>3, <1>e, <1>t, <2>5, <2>6, KeepsOther
  <2>. QED
    BY <1>1, <1>7, <1>e, <2>7 DEF Quiet
<1>10. ASSUME InHand(c), NEW type \in DownTypes, Send(c, <<Control(type, p.id)>>) PROVE Quiet
  <2>1. Keeps(c)
    BY <1>10, <1>2, <1>4, <1>e, KeepsAnswered
  <2>. QED
    BY <1>1, <1>7, <1>e, <2>1 DEF Quiet
<1>. QED
  BY Zenon, <1>5, <1>8, <1>9, <1>10

(* PersistentClientState::publish sends PUBLISH and nothing else. *)
LEMMA DeliverAppends ==
    ASSUME TypeOK, NEW subs, NEW q, NEW m, Deliver(subs, q, m), NEW d \in Conns,
           mSendTasks'[d] # mSendTasks[d]
    PROVE  \E p : p.type = "PUBLISH" /\ mSendTasks'[d] = Append(mSendTasks[d], p)
<1>1. mSendTasks \in [Conns -> Seq(Packets)]
  BY Zenon DEF TypeOK
<1>2. \E o : mSendTasks'[d] = Append(mSendTasks[d], PublishPacketFor(o, m, q[o]))
  BY Zenon, <1>1 DEF Deliver
<1>. QED
  BY <1>2 DEF PublishPacketFor, Packet

(* The other steps of the broker, except a login. *)
LEMMA KeepsServed ==
    ASSUME BaseInv, ClientSame, UNCHANGED <<toServer, conn>>, \A d \in Conns : InHand(d)' => recv'[d] = recv[d],
           \/ mSendTasks' = mSendTasks
           \/ \E subs, q, m : Deliver(subs, q, m),
           \A d \in Conns : mPersistentClientState'[d] \in {Null, mPersistentClientState[d]},
           \A d \in Conns : mState'[d] = "CONNECTED" => mState[d] = "CONNECTED"
    PROVE  Quiet
<1>t. mSendTasks \in [Conns -> Seq(Packets)] /\ TypeOK
  BY Zenon DEF BaseInv, Inv, TypeOK
<1>1. ASSUME NEW d \in Conns PROVE UpSame(d)
  BY DEF UpSame, InHand
<1>2. ASSUME NEW d \in Conns, mSendTasks'[d] = mSendTasks[d] PROVE Keeps(d)
  BY <1>1, <1>2, KeepsSame
<1>3. ASSUME NEW d \in Conns, mSendTasks'[d] # mSendTasks[d] PROVE Keeps(d)
  <2>1. PICK subs, q, m : Deliver(subs, q, m)
    BY <1>3
  <2>3. PICK p : p.type = "PUBLISH" /\ mSendTasks'[d] = Append(mSendTasks[d], p)
    BY <1>3, <1>t, <2>1, DeliverAppends
  <2>4. PICK S : S = Packets \cup {p}
    BY Zenon
  <2>5. mSendTasks[d] \in Seq(S)
    BY <1>t, <2>4
  <2>5a. <<p>> \in Seq(S)
    BY <2>4
  <2>6. PICK a \in Seq(S) : a = <<p>>
    BY Zenon, <2>5a
  <2>7. None(a, DownTypes) /\ None(a, {"CONNACK"})
    BY <2>3, <2>6 DEF None, DownTypes
  <2>8. mSendTasks'[d] = mSendTasks[d] \o a
    BY SMTT(60), <2>3, <2>5, <2>6
  <2>. QED
    BY Zenon, <1>1, <2>5, <2>7, <2>8, KeepsOther
<1>. QED
  BY <1>2, <1>3 DEF Quiet, ClientSame

(* A login begins the client's new connection, or one that it has given up. *)
LEMMA LoginHandshake ==
    ASSUME BaseInv, BaseInv', HandshakeInv, NEW c \in Conns, LogsIn(c),
           \A d \in Conns : d # c => mState'[d] = mState[d]
    PROVE  HandshakeInv'
<1>t. TypeOK /\ mSendTasks'[c] \in Seq(Packets) /\ Sess \in Conns \cup {Null}
  <2>1. mSendTasks' \in [Conns -> Seq(Packets)]
    BY Zenon DEF BaseInv, Inv, TypeOK
  <2>. QED
    BY Zenon, <2>1 DEF BaseInv, Inv, TypeOK, Sess
<1>p. /\ conn \in Conns \cup {Null} /\ reading = {conn} \ {Null}
      /\ mSendTasks[c] = <<>> /\ recv[c] = Idle /\ (conn = c => ~ready)
      /\ \A n \in DOMAIN toServer[c] : toServer[c][n].type = "CONNECT"
  BY DEF BaseInv, ClientTypes, PeerInv, LogsIn
<1>1. UNCHANGED <<toServer, recv, conn>>
  BY LoginEffect
<1>2. ClientSame
  BY DEF LogsIn, envVars, clientVars, ClientSame
<1>3. \E s : Send(c, s)
  BY Zenon DEF LogsIn, LoginNewSession, LoginResumeSession
<1>4. ASSUME NEW d \in Conns, d # c PROVE mPersistentClientState'[d] = Null /\ Keeps(d)
  <2>1. mPersistentClientState'[c] # Null
    <3>1. mPersistentClientState'[c] \in Conns
      BY Zenon DEF LogsIn, LoginNewSession, LoginResumeSession, ReplaceCurrentClient
    <3>. QED
      BY <3>1, ConstantsAssumption
  <2>2. SessionLink' /\ mPersistentClientState' \in [Conns -> Conns \cup {Null}]
    BY Zenon DEF BaseInv, Inv, OwnerInv, TypeOK
  <2>3. mPersistentClientState'[d] = Null
    BY <1>4, <2>1, <2>2, ConstantsAssumption DEF SessionLink
  <2>4. mSendTasks'[d] = mSendTasks[d]
    BY <1>3, <1>4, <1>t, SendsOn
  <2>5. UpSame(d)
    BY <1>1 DEF UpSame, InHand
  <2>. QED
    BY <1>2, <2>3, <2>4, <2>5, KeepsSame
<1>5. NoneUp(c)' /\ UpCurrent(c)' /\ Single(toServer[c], UpTypes)'
  BY <1>1, <1>p DEF NoneUp, UpCurrent, None, Single, UpTypes, InHand, Idle
<1>6. ASSUME c = conn PROVE OneOnWay(c)'
  <2>1. c \in reading /\ ~ready'
    BY <1>2, <1>6, <1>p, ConstantsAssumption DEF ClientSame
  <2>2. \A n \in DOMAIN mSendTasks'[c] :
           \/ mSendTasks'[c][n].type = "CONNACK" /\ n = 1
           \/ mSendTasks'[c][n].type \in {"PUBLISH", "PUBREL"}
    <3>1. CASE Send(c, <<Packet("CONNACK", 0, 0, 0, FALSE)>>)
      <4>1. PICK r : r = Packet("CONNACK", 0, 0, 0, FALSE)
        BY Zenon
      <4>2. r \in Packets
        BY Zenon, <4>1, PacketTypesOK
      <4>3. r.type = "CONNACK"
        BY <4>1 DEF Packet
      <4>4. mSendTasks'[c] = <<>> \o <<r>>
        BY ZenonT(60), <1>p, <1>t, <2>1, <3>1, <4>1, SendsOn
      <4>. QED
        BY <4>2, <4>3, <4>4
    <3>2. CASE Sess \in Conns /\ LoginResumeSession(c, Sess)
      BY Zenon, <1>p, <1>t, <2>1, <3>2, ResumedStream
    <3>. QED
      BY Zenon, <3>1, <3>2 DEF LogsIn, LoginNewSession
  <2>3. NoneDown(c)' /\ Single(mSendTasks[c], DownTypes)' /\ Single(mSendTasks[c], {"CONNACK"})'
    BY <2>2 DEF NoneDown, None, Single, DownTypes
  <2>4. \A n \in DOMAIN mSendTasks'[c] : mSendTasks'[c][n].type \notin DownTypes
    BY <2>2 DEF DownTypes
  <2>. QED
    BY <1>5, <2>1, <2>3, <2>4 DEF OneOnWay, NoneUp
<1>. HIDE DEF OneOnWay, UpCurrent, NoneUp
<1>7. (conn # Null => OneOnWay(conn))'
  <2>1. ASSUME conn' # Null PROVE OneOnWay(conn)'
    <3>1. PICK d \in Conns : d = conn /\ d = conn'
      BY <1>1, <1>p, <2>1
    <3>2. OneOnWay(d)'
      <4>1. CASE d = c
        BY <1>6, <3>1, <4>1
      <4>2. CASE d # c
        <5>1. OneOnWay(d) /\ UpCurrent(d)
          BY <3>1, ConstantsAssumption DEF HandshakeInv
        <5>. QED
          BY <1>4, <4>2, <5>1 DEF Keeps
      <4>. QED
        BY <4>1, <4>2
    <3>. QED
      BY <3>1, <3>2 DEF OneOnWay, NoneUp, NoneDown, InHand
  <2>. QED
    BY <2>1
<1>8. (\A d \in Conns : d = conn \/ mPersistentClientState[d] # Null => UpCurrent(d))'
  <2>1. ASSUME NEW d \in Conns, d = conn \/ mPersistentClientState'[d] # Null PROVE UpCurrent(d)'
    <3>1. CASE d = c
      BY <1>5, <3>1
    <3>2. CASE d # c
      BY <1>4, <2>1, <3>2 DEF HandshakeInv, Keeps
    <3>. QED
      BY <3>1, <3>2
  <2>. QED
    BY <1>1, <2>1
<1>9. (\A d \in Conns : d # conn /\ mPersistentClientState[d] # Null /\ conn # Null =>
          NoneUp(d) \/ mState[conn] # "CONNECTED")'
  BY <1>4, <1>5
<1>10. (sendState # "idle" => sendCount >= 1)'
  BY <1>2 DEF HandshakeInv, ClientSame
<1>. QED
  BY <1>7, <1>8, <1>9, <1>10 DEF HandshakeInv

(* The client opens a connection. *)
LEMMA ConnectHandshake ==
    ASSUME BaseInv, HandshakeInv, NEW c \in Conns, ClientConnect(c)
    PROVE  HandshakeInv'
<1>t. toServer \in [Conns -> Seq(Packets)]
  BY Zenon DEF BaseInv, ClientTypes
<1>1. mState[c] = "NONE" /\ toServer[c] = <<>> /\ mSendTasks[c] = <<>> /\ recv[c] = Idle
  BY DEF BaseInv, PeerInv, ClientConnect
<1>2. /\ conn' = c /\ ready' = FALSE /\ UNCHANGED <<sendCount, sendState, recv, mSendTasks, mState>>
      /\ UNCHANGED mPersistentClientState
      /\ toServer' = [toServer EXCEPT ![c] = @ \o <<Control("CONNECT", 0)>>]
  BY DEF ClientConnect, connVars, ToServer
<1>3. PICK p : p = Control("CONNECT", 0)
  OBVIOUS
<1>4. p \in Packets /\ p.type = "CONNECT"
  <2>1. p \in Packets
    BY <1>3, ClientPackets DEF BaseInv
  <2>. QED
    BY <1>3, <2>1 DEF Control, Packet
<1>5. \A n \in DOMAIN toServer'[c] : toServer'[c][n].type = "CONNECT"
  <2>1. toServer'[c] = <<>> \o <<p>>
    BY <1>1, <1>2, <1>3, <1>t
  <2>. QED
    BY <1>4, <2>1
<1>6. OneOnWay(c)' /\ UpCurrent(c)'
  BY <1>1, <1>2, <1>5 DEF OneOnWay, UpCurrent, NoneUp, NoneDown, None, Single, UpTypes, DownTypes, InHand, Idle
<1>7. ASSUME NEW d \in Conns, d # c, mPersistentClientState[d] # Null PROVE UpCurrent(d)'
  <2>1. toServer'[d] = toServer[d] /\ UpCurrent(d)
    BY <1>2, <1>7, <1>t DEF HandshakeInv
  <2>2. \A q : Current(q) => Current(q)'
    BY <1>2, CurrentKept
  <2>. HIDE DEF Current
  <2>. QED
    BY Zenon, <1>2, <2>1, <2>2 DEF UpCurrent, InHand
<1>8. (sendState # "idle" => sendCount >= 1)'
  BY <1>2 DEF HandshakeInv
<1>9. OneOnWay(conn)'
  BY <1>2, <1>6 DEF OneOnWay, NoneUp, NoneDown, InHand
<1>. QED
  BY <1>1, <1>2, <1>6, <1>7, <1>8, <1>9 DEF HandshakeInv

(* The connection breaks. *)
LEMMA BreakHandshake ==
    ASSUME BaseInv, HandshakeInv, NEW c \in Conns, c = conn, BreakConnection(c)
    PROVE  HandshakeInv'
<1>t. toServer \in [Conns -> Seq(Packets)]
  BY Zenon DEF BaseInv, ClientTypes
<1>1. /\ conn' = Null /\ UNCHANGED <<sendCount, sendState, recv, mPersistentClientState>>
  BY DEF BreakConnection, connVars
<1>2. PICK s \in Prefixes(toServer[c]) : toServer' = [toServer EXCEPT ![c] = s]
  BY Zenon DEF BreakConnection
<1>3. \A n \in DOMAIN s : n \in DOMAIN toServer[c] /\ s[n] = toServer[c][n]
  BY <1>t, PrefixFacts
<1>4. \A d \in Conns : \A n \in DOMAIN toServer'[d] : n \in DOMAIN toServer[d] /\ toServer'[d][n] = toServer[d][n]
  BY <1>2, <1>3, <1>t
<1>5. \A q : Current(q) => Current(q)'
  BY <1>1, CurrentKept
<1>6. ASSUME NEW d \in Conns, mPersistentClientState[d] # Null PROVE UpCurrent(d)'
  <2>. HIDE DEF Current
  <2>1. UpCurrent(d)
    BY <1>6 DEF HandshakeInv
  <2>2. \A n \in DOMAIN toServer'[d] : toServer'[d][n].type \in UpTypes => Current(toServer'[d][n])
    BY <1>4, <2>1 DEF UpCurrent
  <2>. QED
    BY <1>1, <1>5, <2>1, <2>2 DEF UpCurrent, InHand
<1>. QED
  BY <1>1, <1>6, ConstantsAssumption DEF HandshakeInv

(* The client begins the next message: nothing of the handshake is left over. *)
LEMMA PublishHandshake ==
    ASSUME BaseInv, HandshakeInv, ClientPublish
    PROVE  HandshakeInv'
<1>t. /\ toServer \in [Conns -> Seq(Packets)] /\ conn \in Conns \cup {Null}
      /\ sendCount \in 0..MaxSend /\ MaxSend \in Nat
  BY Zenon, DeliveryAssumption DEF BaseInv, ClientTypes
<1>1. /\ conn # Null /\ ready /\ sendState = "idle" /\ sendCount < MaxSend
      /\ sendCount' = sendCount + 1 /\ sendState' = "published"
      /\ ToServer(conn, <<PublishPacket(FALSE)'>>)
      /\ UNCHANGED <<conn, ready, recv, mSendTasks, mState, mPersistentClientState>>
  BY DEF ClientPublish, vars, connVars
<1>2. PICK c \in Conns : c = conn
  BY <1>1, <1>t
<1>3. PICK s \in Seq(Packets) : s = toServer[c]
  BY <1>t
<1>4. PICK q : q = PublishPacket(FALSE)'
  BY Zenon
<1>5. q \in Packets /\ q.type = "PUBLISH" /\ q.id = SendId' /\ q.msg = sendCount'
  <2>1. q = Packet("PUBLISH", Sid(sendCount'), sendCount', 2, FALSE) /\ SendId' = Sid(sendCount')
    BY <1>4, SidFacts, Zenon DEF PublishPacket
  <2>2. sendCount' \in 0..MaxSend
    BY <1>1, <1>t
  <2>3. q \in Packets
    BY Zenon, <2>1, <2>2, SidFacts
  <2>. QED
    BY <2>1, <2>3 DEF Packet
<1>6. /\ toServer'[c] = s \o <<q>>
      /\ \A d \in Conns : d # c => toServer'[d] = toServer[d]
  BY Zenon, <1>1, <1>2, <1>3, <1>4, <1>t DEF ToServer
<1>7. ASSUME NEW d \in Conns, d = conn \/ mPersistentClientState[d] # Null PROVE NoneUp(d)
  BY <1>1, <1>7 DEF HandshakeInv, UpCurrent, Current, NoneUp, None
<1>8. OneOnWay(c) /\ NoneDown(c)
  BY <1>1, <1>2, ConstantsAssumption DEF HandshakeInv, OneOnWay, Current, NoneDown, None
<1>9. <<q>> \in Seq(Packets) /\ \A n \in DOMAIN <<q>> : n = 1 /\ <<q>>[n] = q
  BY <1>5
<1>10. PICK a \in Seq(Packets) : a = <<q>> /\ \A n \in DOMAIN a : n = 1 /\ a[n] = q
  BY Zenon, <1>9
<1>11. /\ Single(s \o a, UpTypes)
       /\ \A n \in DOMAIN (s \o a) : (s \o a)[n].type \in UpTypes => (s \o a)[n] = q
  <2>1. None(s, UpTypes) /\ Single(a, UpTypes)
    BY <1>2, <1>3, <1>7, <1>10 DEF NoneUp, Single
  <2>2. \A n \in DOMAIN (s \o a) : (s \o a)[n].type \in UpTypes => (s \o a)[n] = q
    BY <1>10, <2>1, TypesConcat DEF None
  <2>. HIDE DEF None, Single
  <2>. QED
    BY <2>1, <2>2, TypesConcat
<1>12. ~InHand(c)' /\ NoneDown(c)'
  BY <1>1, <1>2, <1>7, <1>8 DEF NoneUp, InHand, NoneDown, None
<1>13. OneOnWay(c)'
  <2>1. Single(toServer[c], UpTypes)'
    BY <1>6, <1>10, <1>11 DEF Single
  <2>2. /\ Single(mSendTasks[c], DownTypes)' /\ Single(mSendTasks[c], {"CONNACK"})'
        /\ None(mSendTasks[c], {"CONNACK"})' /\ ready'
    BY <1>1, <1>8 DEF OneOnWay, Single, None
  <2>3. \A n \in DOMAIN mSendTasks'[c] : mSendTasks'[c][n].type \notin DownTypes
    BY <1>12 DEF NoneDown, None
  <2>. QED
    BY <1>12, <2>1, <2>2, <2>3 DEF OneOnWay
<1>14. UpCurrent(c)'
  <2>1. Current(q)'
    BY <1>1, <1>5 DEF Current
  <2>2. \A n \in DOMAIN toServer'[c] : toServer'[c][n].type \in UpTypes => toServer'[c][n] = q
    BY <1>6, <1>10, <1>11
  <2>. HIDE DEF Current
  <2>. QED
    BY <1>12, <2>1, <2>2 DEF UpCurrent
<1>15. ASSUME NEW d \in Conns, d # c, mPersistentClientState[d] # Null PROVE UpCurrent(d)' /\ NoneUp(d)'
  <2>1. NoneUp(d)
    BY <1>7, <1>15
  <2>. QED
    BY <1>1, <1>6, <1>15, <2>1 DEF NoneUp, None, UpCurrent, InHand
<1>16. OneOnWay(conn)'
  BY <1>1, <1>2, <1>13 DEF OneOnWay, NoneUp, NoneDown, InHand
<1>17. (sendState # "idle" => sendCount >= 1)'
  BY SMTT(60), <1>1, <1>t
<1>. QED
  BY <1>1, <1>2, <1>14, <1>15, <1>16, <1>17 DEF HandshakeInv

(* What the client sends when it reads the packet p, and what becomes of its       *)
(* handshake.                                                                      *)
LEMMA ReadKinds ==
    ASSUME ClientTypes, NEW c \in Conns, NEW p \in Packets, p = Head(mSendTasks[c]), ClientRead(c)
    PROVE  \E a \in Seq(Packets) :
             /\ ToServer(c, a)
             /\ \/ /\ p.type = "CONNACK" /\ ready' /\ UNCHANGED sendState
                   /\ Single(a, UpTypes)
                   /\ \A n \in DOMAIN a : a[n].type \in UpTypes => Current(a[n])
                \/ /\ p.type = "PUBREC" /\ ready' = ready
                   /\ Current(p) =>
                         /\ sendState' = "released" /\ Single(a, UpTypes)
                         /\ \A n \in DOMAIN a : a[n].type = "PUBREL" /\ a[n].id = p.id
                   /\ ~Current(p) => UNCHANGED sendState /\ None(a, UpTypes)
                \/ /\ p.type = "PUBCOMP" /\ ready' = ready /\ a = <<>>
                   /\ sendState' \in {sendState, "idle"}
                \/ /\ p.type \notin DownTypes \cup {"CONNACK"} /\ UNCHANGED <<ready, sendState>>
                   /\ None(a, UpTypes)
<1>. DEFINE Goal(a) ==
              \/ /\ p.type = "CONNACK" /\ ready' /\ UNCHANGED sendState
                 /\ Single(a, UpTypes)
                 /\ \A n \in DOMAIN a : a[n].type \in UpTypes => Current(a[n])
              \/ /\ p.type = "PUBREC" /\ ready' = ready
                 /\ Current(p) =>
                       /\ sendState' = "released" /\ Single(a, UpTypes)
                       /\ \A n \in DOMAIN a : a[n].type = "PUBREL" /\ a[n].id = p.id
                 /\ ~Current(p) => UNCHANGED sendState /\ None(a, UpTypes)
              \/ /\ p.type = "PUBCOMP" /\ ready' = ready /\ a = <<>>
                 /\ sendState' \in {sendState, "idle"}
              \/ /\ p.type \notin DownTypes \cup {"CONNACK"} /\ UNCHANGED <<ready, sendState>>
                 /\ None(a, UpTypes)
<1>t. toServer \in [Conns -> Seq(Packets)] /\ sendState \in {"idle", "published", "released"}
  BY DEF ClientTypes
<1>0. toServer' = toServer => ToServer(c, <<>>) /\ <<>> \in Seq(Packets)
  BY <1>t DEF ToServer
<1>p. Head(mSendTasks[c]) = p
  OBVIOUS
<1>1. CASE p.type = "CONNACK" /\ OnConnack(c, p)
  <2>. DEFINE head == IF subscribed THEN <<>> ELSE <<Subscription>>
              tail == CASE sendState = "idle" -> <<>>
                        [] sendState = "published" -> <<PublishPacket(TRUE)>>
                        [] sendState = "released" -> <<Control("PUBREL", SendId)>>
  <2>1. /\ Subscription \in Packets /\ PublishPacket(TRUE) \in Packets
        /\ Control("PUBREL", SendId) \in Packets
    BY Zenon, ClientPackets
  <2>2. /\ Subscription.type \notin UpTypes
        /\ sendState = "published" => Current(PublishPacket(TRUE))
        /\ sendState = "released" => Current(Control("PUBREL", SendId))
    BY DEF Subscription, Packet, PublishPacket, Control, UpTypes, Current
  <2>. HIDE DEF Current
  <2>3. head \in Seq(Packets) /\ None(head, UpTypes)
    BY <2>1, <2>2 DEF None
  <2>4. /\ tail \in Seq(Packets) /\ Single(tail, UpTypes)
        /\ \A n \in DOMAIN tail : Current(tail[n])
    <3>1. CASE sendState = "idle"
      BY <3>1 DEF Single
    <3>2. CASE sendState = "published"
      <4>1. PICK r \in Packets : r = PublishPacket(TRUE) /\ Current(r)
        BY Zenon, <2>1, <2>2, <3>2
      <4>2. tail = <<r>>
        BY Zenon, <3>2, <4>1
      <4>a. <<r>> \in Seq(Packets) /\ \A n \in DOMAIN <<r>> : n = 1 /\ <<r>>[n] = r
        OBVIOUS
      <4>3. /\ <<r>> \in Seq(Packets) /\ Single(<<r>>, UpTypes)
            /\ \A n \in DOMAIN <<r>> : Current(<<r>>[n])
        <5>. HIDE DEF tail, head
        <5>. QED
          BY Zenon, <4>1, <4>a DEF Single
      <4>. HIDE DEF tail, Single
      <4>. QED
        BY <4>2, <4>3
    <3>3. CASE sendState = "released"
      BY <2>1, <2>2, <3>3 DEF Single
    <3>. QED
      BY Zenon, <1>t, <3>1, <3>2, <3>3
  <2>5. ToServer(c, head \o tail) /\ ready' /\ UNCHANGED sendState
    BY Zenon, <1>1 DEF OnConnack
  <2>. HIDE DEF head, tail
  <2>6. head \o tail \in Seq(Packets)
    BY <2>3, <2>4
  <2>7. \A n \in DOMAIN (head \o tail) : (head \o tail)[n].type \in UpTypes => Current((head \o tail)[n])
    BY <2>3, <2>4, TypesConcat DEF None
  <2>8. Single(head \o tail, UpTypes)
    <3>. HIDE DEF None, Single
    <3>. QED
      BY <2>3, <2>4, TypesConcat
  <2>9. Goal(head \o tail)
    BY Zenon, <1>1, <2>5, <2>7, <2>8
  <2>. QED
    BY Zenon, <2>5, <2>6, <2>9
<1>a. ASSUME NEW type \in {"PUBACK", "PUBREC", "PUBREL", "PUBCOMP"}, NEW r, r = Control(type, p.id)
      PROVE  /\ <<r>> \in Seq(Packets) /\ r.type = type /\ r.id = p.id
             /\ Single(<<r>>, UpTypes) /\ (type # "PUBREL" => None(<<r>>, UpTypes))
             /\ \A n \in DOMAIN <<r>> : <<r>>[n] = r
  <2>1. r \in Packets
    <3>1. p.id \in BitIds
      BY DEF Packets, BitIds
    <3>. QED
      BY <1>a, <3>1, ClientPackets
  <2>2. r.type = type /\ r.id = p.id
    BY <1>a DEF Control, Packet
  <2>. QED
    BY <2>1, <2>2 DEF Single, None, UpTypes
<1>2. CASE p.type = "PUBLISH" /\ OnPublish(c, p)
  <2>1. PICK type \in {"PUBACK", "PUBREC"} : ToServer(c, <<Control(type, p.id)>>)
    BY <1>2 DEF OnPublish
  <2>2. UNCHANGED <<ready, sendState>> /\ p.type \notin DownTypes \cup {"CONNACK"}
    BY <1>2 DEF OnPublish, DownTypes
  <2>3. PICK r : r = Control(type, p.id)
    OBVIOUS
  <2>4. <<r>> \in Seq(Packets) /\ None(<<r>>, UpTypes)
    BY <1>a, <2>3
  <2>5. Goal(<<r>>)
    BY SMTT(60), <2>2, <2>4
  <2>. QED
    BY Zenon, <2>1, <2>3, <2>4, <2>5
<1>3. CASE p.type = "PUBREL" /\ OnPubrel(c, p)
  <2>1. ToServer(c, <<Control("PUBCOMP", p.id)>>)
    BY <1>3 DEF OnPubrel
  <2>2. UNCHANGED <<ready, sendState>> /\ p.type \notin DownTypes \cup {"CONNACK"}
    BY <1>3 DEF OnPubrel, DownTypes
  <2>3. PICK r : r = Control("PUBCOMP", p.id)
    OBVIOUS
  <2>4. <<r>> \in Seq(Packets) /\ None(<<r>>, UpTypes)
    BY <1>a, <2>3
  <2>5. Goal(<<r>>)
    BY <2>2, <2>4
  <2>. QED
    BY Zenon, <2>1, <2>3, <2>4, <2>5
<1>4. CASE p.type = "PUBREC" /\ OnPubrec(c, p)
  <2>0. Current(p) <=> sendState # "idle" /\ p.id = SendId
    BY SMTT(60), <1>4 DEF Current
  <2>1. CASE Current(p)
    <3>1. sendState' = "released" /\ ToServer(c, <<Control("PUBREL", p.id)>>) /\ ready' = ready
      BY <1>4, <2>0, <2>1 DEF OnPubrec
    <3>2. PICK r : r = Control("PUBREL", p.id)
      OBVIOUS
    <3>3. /\ <<r>> \in Seq(Packets) /\ r.type = "PUBREL" /\ r.id = p.id /\ Single(<<r>>, UpTypes)
          /\ \A n \in DOMAIN <<r>> : <<r>>[n] = r
      BY <1>a, <3>2
    <3>4. Goal(<<r>>)
      BY <1>4, <2>1, <3>1, <3>3
    <3>. QED
      BY Zenon, <3>1, <3>2, <3>3, <3>4
  <2>2. CASE ~Current(p)
    <3>1. UNCHANGED <<sendState, toServer, ready>>
      BY <1>4, <2>0, <2>2 DEF OnPubrec
    <3>2. Goal(<<>>)
      BY <1>4, <2>2, <3>1 DEF None
    <3>. QED
      BY Zenon, <1>0, <3>1, <3>2
  <2>. QED
    BY <2>1, <2>2
<1>5. CASE p.type = "PUBCOMP" /\ OnPubcomp(p)
  <2>1. UNCHANGED <<toServer, ready>> /\ sendState' \in {sendState, "idle"}
    BY <1>5 DEF OnPubcomp
  <2>2. Goal(<<>>)
    BY <1>5, <2>1
  <2>. QED
    BY Zenon, <1>0, <2>1, <2>2
<1>6. CASE p.type = "SUBACK" /\ OnSuback
  <2>1. UNCHANGED <<toServer, ready, sendState>>
    BY <1>6 DEF OnSuback
  <2>2. Goal(<<>>)
    BY <1>6, <2>1 DEF None, DownTypes
  <2>. QED
    BY Zenon, <1>0, <2>1, <2>2
<1>. QED
  BY <1>p, <1>1, <1>2, <1>3, <1>4, <1>5, <1>6 DEF ClientRead

(* The client reads a packet. *)
LEMMA ReadHandshake ==
    ASSUME BaseInv, HandshakeInv, NEW c \in Conns, ClientRead(c)
    PROVE  HandshakeInv'
<1>t. /\ toServer \in [Conns -> Seq(Packets)] /\ mSendTasks \in [Conns -> Seq(Packets)] /\ ClientTypes
  BY Zenon DEF BaseInv, Inv, TypeOK, ClientTypes
<1>1. /\ conn = c /\ mSendTasks[c] # <<>> /\ mSendTasks' = [mSendTasks EXCEPT ![c] = Tail(@)]
      /\ UNCHANGED <<conn, sendCount, recv, mState, mPersistentClientState>>
  BY DEF ClientRead, connVars
<1>2. mState[c] = "CONNECTED" /\ OneOnWay(c) /\ UpCurrent(c) /\ c # Null
  BY <1>1, ConstantsAssumption DEF BaseInv, PeerInv, HandshakeInv
<1>3. PICK s \in Seq(Packets) : s = mSendTasks[c]
  BY <1>t
<1>4. PICK u \in Seq(Packets) : u = toServer[c]
  BY <1>t
<1>5. PICK p \in Packets : p = Head(mSendTasks[c]) /\ p = s[1] /\ 1 \in DOMAIN s
  BY <1>1, <1>3, SeqFacts
<1>6. mSendTasks'[c] = Tail(s) /\ s # <<>>
  BY <1>1, <1>3, <1>t
<1>7. PICK a \in Seq(Packets) :
        /\ ToServer(c, a)
        /\ \/ /\ p.type = "CONNACK" /\ ready' /\ UNCHANGED sendState
              /\ Single(a, UpTypes)
              /\ \A n \in DOMAIN a : a[n].type \in UpTypes => Current(a[n])
           \/ /\ p.type = "PUBREC" /\ ready' = ready
              /\ Current(p) =>
                    /\ sendState' = "released" /\ Single(a, UpTypes)
                    /\ \A n \in DOMAIN a : a[n].type = "PUBREL" /\ a[n].id = p.id
              /\ ~Current(p) => UNCHANGED sendState /\ None(a, UpTypes)
           \/ /\ p.type = "PUBCOMP" /\ ready' = ready /\ a = <<>>
              /\ sendState' \in {sendState, "idle"}
           \/ /\ p.type \notin DownTypes \cup {"CONNACK"} /\ UNCHANGED <<ready, sendState>>
              /\ None(a, UpTypes)
  BY Zenon, <1>5, <1>t, ReadKinds
<1>8. toServer'[c] = u \o a /\ \A d \in Conns : d # c => toServer'[d] = toServer[d]
  BY <1>4, <1>7, <1>t DEF ToServer
<1>9. p.type \in DownTypes => Current(p) /\ NoneUp(c)
  BY <1>2, <1>3, <1>5 DEF OneOnWay, NoneDown, None
<1>10. p.type = "CONNACK" => ~ready /\ NoneUp(c) /\ NoneDown(c)
  BY <1>2, <1>3, <1>5 DEF OneOnWay, None
<1>11. p.type \in DownTypes => None(Tail(s), DownTypes) /\ ready
  <2>1. p.type \in DownTypes => Single(s, DownTypes) /\ ~NoneDown(c)
    BY <1>2, <1>3, <1>5 DEF OneOnWay, NoneDown, None
  <2>. HIDE DEF None, Single, NoneDown
  <2>. QED
    BY <1>2, <1>5, <1>6, <2>1, TypesTail DEF OneOnWay
<1>12. /\ None(s, DownTypes) => None(Tail(s), DownTypes)
       /\ Single(s, DownTypes) => Single(Tail(s), DownTypes)
       /\ Single(s, {"CONNACK"}) => Single(Tail(s), {"CONNACK"})
       /\ None(s, {"CONNACK"}) => None(Tail(s), {"CONNACK"})
       /\ Single(s, {"CONNACK"}) /\ p.type = "CONNACK" => None(Tail(s), {"CONNACK"})
       /\ \A n \in DOMAIN Tail(s) : \E l \in DOMAIN s : Tail(s)[n] = s[l]
  <2>1. \A n \in DOMAIN Tail(s) : \E l \in DOMAIN s : Tail(s)[n] = s[l]
    BY <1>6, SeqFacts
  <2>. HIDE DEF None, Single
  <2>. QED
    BY <1>5, <1>6, <2>1, TypesTail
<1>13. Single(mSendTasks[c], {"CONNACK"})' /\ (ready => None(mSendTasks[c], {"CONNACK"}))'
  <2>1. Single(s, {"CONNACK"}) /\ (ready => None(s, {"CONNACK"}))
    BY <1>2, <1>3 DEF OneOnWay
  <2>2. Single(Tail(s), {"CONNACK"}) /\ (ready' => None(Tail(s), {"CONNACK"}))
    <3>. HIDE DEF None, Single
    <3>. QED
      BY <1>7, <1>12, <2>1
  <2>. QED
    BY <1>6, <2>2 DEF Single, None
<1>14. InHand(c)' = InHand(c) /\ recv'[c] = recv[c]
  BY <1>1 DEF InHand
<1>15. /\ None(u, UpTypes) /\ None(a, UpTypes) => None(u \o a, UpTypes)
       /\ None(u, UpTypes) /\ Single(a, UpTypes) => Single(u \o a, UpTypes)
       /\ Single(u, UpTypes) /\ None(a, UpTypes) => Single(u \o a, UpTypes)
  <2>. HIDE DEF None, Single
  <2>. QED
    BY TypesConcat
<1>16. \A n \in DOMAIN (u \o a) : (\E l \in DOMAIN u : (u \o a)[n] = u[l]) \/ (\E l \in DOMAIN a : (u \o a)[n] = a[l])
  BY SMTT(60), TypesConcat
<1>n. ASSUME NoneUp(c), None(Tail(s), DownTypes), Single(a, UpTypes), ready',
             \A n \in DOMAIN a : a[n].type \in UpTypes => Current(a[n])'
      PROVE  OneOnWay(c)' /\ UpCurrent(c)'
  <2>1. ~InHand(c)' /\ None(u, UpTypes)
    BY <1>4, <1>14, <1>n DEF NoneUp
  <2>2. Single(toServer[c], UpTypes)'
    BY <1>15, <1>8, <1>n, <2>1 DEF Single
  <2>3. NoneDown(c)' /\ Single(mSendTasks[c], DownTypes)'
    BY <1>6, <1>n DEF NoneDown, None, Single
  <2>4. \A n \in DOMAIN mSendTasks'[c] : mSendTasks'[c][n].type \notin DownTypes
    BY <2>3 DEF NoneDown, None
  <2>5. OneOnWay(c)'
    BY <1>13, <1>n, <2>1, <2>2, <2>3, <2>4 DEF OneOnWay
  <2>. HIDE DEF Current
  <2>6. \A n \in DOMAIN (u \o a) : (u \o a)[n].type \in UpTypes => Current((u \o a)[n])'
    BY <1>16, <1>n, <2>1 DEF None
  <2>. QED
    BY <1>8, <2>1, <2>5, <2>6 DEF UpCurrent
<1>17. OneOnWay(c)' /\ UpCurrent(c)'
  <2>1. CASE p.type = "CONNACK"
    <3>1. \A q : Current(q) => Current(q)'
      BY <1>1, <1>7, <2>1, CurrentKept DEF DownTypes
    <3>2. /\ Single(a, UpTypes) /\ ready'
          /\ \A n \in DOMAIN a : a[n].type \in UpTypes => Current(a[n])
      BY <1>7, <2>1
    <3>3. NoneUp(c) /\ None(Tail(s), DownTypes)
      BY <1>3, <1>10, <1>12, <2>1 DEF NoneDown
    <3>. HIDE DEF Current
    <3>. QED
      BY <1>n, <3>1, <3>2, <3>3
  <2>2. CASE p.type = "PUBREC"
    <3>1. Current(p) /\ NoneUp(c) /\ None(Tail(s), DownTypes) /\ ready
      BY <1>9, <1>11, <2>2 DEF DownTypes
    <3>2. /\ sendState' = "released" /\ Single(a, UpTypes) /\ ready'
          /\ \A n \in DOMAIN a : a[n].type = "PUBREL" /\ a[n].id = p.id
      BY <1>7, <2>2, <3>1 DEF DownTypes
    <3>3. p.id = SendId' 
      BY <1>1, <3>1 DEF Current, SendId
    <3>4. \A n \in DOMAIN a : Current(a[n])'
      BY <3>2, <3>3 DEF Current
    <3>. HIDE DEF Current
    <3>. QED
      BY <1>n, <3>1, <3>2, <3>4
  <2>3. CASE p.type = "PUBCOMP"
    <3>1. NoneUp(c) /\ None(Tail(s), DownTypes) /\ ready
      BY <1>9, <1>11, <2>3 DEF DownTypes
    <3>2. a = <<>> /\ ready'
      BY <1>7, <2>3, <3>1 DEF DownTypes
    <3>3. Single(a, UpTypes) /\ \A n \in DOMAIN a : a[n].type \notin UpTypes
      BY <3>2 DEF Single
    <3>. HIDE DEF Current
    <3>. QED
      BY <1>n, <3>1, <3>2, <3>3
  <2>4. CASE p.type \notin DownTypes \cup {"CONNACK"}
    <3>1. UNCHANGED <<ready, sendState>> /\ None(a, UpTypes)
      BY <1>7, <2>4 DEF DownTypes
    <3>2. \A q : Current(q) => Current(q)'
      BY <1>1, <3>1, CurrentKept
    <3>. HIDE DEF Current
    <3>3. NoneUp(c) => NoneUp(c)'
      BY <1>4, <1>8, <1>14, <1>15, <3>1 DEF NoneUp, None
    <3>4. NoneDown(c) => NoneDown(c)'
      BY <1>3, <1>6, <1>12 DEF NoneDown, None
    <3>5. Single(toServer[c], UpTypes)' /\ (InHand(c) => None(toServer[c], UpTypes))'
      BY ZenonT(60), <1>2, <1>4, <1>8, <1>14, <1>15, <3>1 DEF OneOnWay, Single, None
    <3>6. Single(mSendTasks[c], DownTypes)'
      BY Zenon, <1>2, <1>3, <1>6, <1>12 DEF OneOnWay, Single
    <3>7. \A n \in DOMAIN Tail(s) : Tail(s)[n].type \in DownTypes => Current(Tail(s)[n])'
      BY <1>2, <1>3, <1>12, <3>2 DEF OneOnWay
    <3>8. OneOnWay(c)'
      BY <1>2, <1>6, <1>13, <3>1, <3>3, <3>4, <3>5, <3>6, <3>7 DEF OneOnWay
    <3>9. \A n \in DOMAIN (u \o a) : (u \o a)[n].type \in UpTypes => Current((u \o a)[n])'
      BY <1>2, <1>4, <1>16, <3>1, <3>2 DEF UpCurrent, None
    <3>. QED
      BY <1>2, <1>8, <1>14, <3>2, <3>8, <3>9 DEF UpCurrent
  <2>. QED
    BY <2>1, <2>2, <2>3, <2>4 DEF DownTypes
<1>18. ASSUME NEW d \in Conns, d # c, mPersistentClientState[d] # Null PROVE UpCurrent(d)' /\ NoneUp(d)'
  <2>1. NoneUp(d)
    BY <1>1, <1>2, <1>18 DEF HandshakeInv
  <2>. QED
    BY <1>1, <1>8, <1>18, <2>1 DEF NoneUp, None, UpCurrent, InHand
<1>19. OneOnWay(conn)'
  BY <1>1, <1>17 DEF OneOnWay, NoneUp, NoneDown, InHand
<1>20. (sendState # "idle" => sendCount >= 1)'
  BY <1>1, <1>7, <1>9 DEF HandshakeInv, Current, DownTypes
<1>. QED
  BY <1>1, <1>17, <1>18, <1>19, <1>20 DEF HandshakeInv

(* Of a logout the handshake sees nothing but the link that is given up. *)
LEMMA LogoutQuiet ==
    ASSUME BaseInv, NEW c \in Conns, LogoutClient(c), ClientSame, UNCHANGED <<toServer, conn>>
    PROVE  Quiet
<1>t. mPersistentClientState \in [Conns -> Conns \cup {Null}]
  BY Zenon DEF BaseInv, Inv, TypeOK
<1>1. UNCHANGED <<mState, mSendTasks, recv>>
  BY LogoutEffect
<1>2. \A d \in Conns : mPersistentClientState'[d] \in {Null, mPersistentClientState[d]}
  BY Zenon, <1>t DEF LogoutClient, DropCurrentClient
<1>. QED
  BY <1>1, <1>2, KeepsServed

(* The worker executes a request other than a login. *)
LEMMA ExecuteQuiet ==
    ASSUME BaseInv, ServerExecute, ~ExecuteLogin
    PROVE  Quiet
<1>1. ClientSame /\ UNCHANGED <<toServer, conn>>
  BY DEF ServerExecute, envVars, clientVars, ClientSame
<1>2. CASE ExecuteLogout
  <2>1. Head(mQueue).client \in Conns
    BY <1>2, HeadRequest DEF ExecuteLogout
  <2>2. CASE LogoutClient(Head(mQueue).client)
    BY <1>1, <2>1, <2>2, LogoutQuiet
  <2>3. CASE UNCHANGED <<connVars, mSendTasks, recv>>
    BY <1>1, <2>3, KeepsServed DEF connVars
  <2>. QED
    BY <1>2, <2>2, <2>3 DEF ExecuteLogout
<1>3. CASE ExecuteSubscribe
  <2>1. UNCHANGED <<mState, mPersistentClientState, recv>>
    BY <1>3 DEF ExecuteSubscribe, connVars
  <2>2. mSendTasks' = mSendTasks \/ \E subs, q, m : Deliver(subs, q, m)
    BY Zenon, <1>3 DEF ExecuteSubscribe
  <2>. QED
    BY <1>1, <2>1, <2>2, KeepsServed
<1>4. CASE ExecuteUnsubscribe
  BY <1>4, HeadRequest DEF ExecuteUnsubscribe
<1>. QED
  BY <1>2, <1>3, <1>4 DEF ServerExecute, Execute

(* The worker executes a login. *)
LEMMA ExecuteLoginHandshake ==
    ASSUME BaseInv, BaseInv', HandshakeInv, ServerExecute, ExecuteLogin
    PROVE  HandshakeInv'
<1>e. UNCHANGED envVars /\ ClientSame /\ UNCHANGED <<toServer, conn, sendCount, sendState>>
  BY DEF ServerExecute, envVars, clientVars, ClientSame
<1>1. CASE UNCHANGED <<mState, mPersistentClientState, mSendTasks>>
  <2>1. UNCHANGED recv
    BY LoginWays
  <2>2. Quiet
    BY <1>1, <1>e, <2>1, KeepsServed
  <2>. QED
    BY <2>2, HandshakeKept DEF Quiet
<1>2. CASE /\ mState' = [mState EXCEPT ![Head(mQueue).client] = "CONNECTED"]
           /\ \/ Sess = Null /\ LoginNewSession(Head(mQueue).client, FALSE)
              \/ Sess \in Conns /\ LoginResumeSession(Head(mQueue).client, Sess)
  <2>1. Head(mQueue).client \in Conns /\ mState[Head(mQueue).client] = "CONNECTING"
    BY Zenon, HeadRequest DEF ExecuteLogin
  <2>2. PICK c \in Conns : c = Head(mQueue).client
    BY <2>1
  <2>3. UNCHANGED <<mSubscriptions, mGlobalOrderCount, recv, reading>>
    BY LoginWays
  <2>4. LogsIn(c)
    BY Zenon, <1>2, <1>e, <2>1, <2>2, <2>3 DEF LogsIn
  <2>5. mState \in [Conns -> {"NONE", "INITIAL", "CONNECTING", "CONNECTED", "INVALID_PROTOCOL_VERSION"}]
    BY Zenon DEF BaseInv, Inv, TypeOK
  <2>6. \A d \in Conns : d # c => mState'[d] = mState[d]
    BY <1>2, <2>2, <2>5
  <2>. QED
    BY <2>4, <2>6, LoginHandshake
<1>. QED
  BY Zenon, <1>1, <1>2, LoginWays

(* What is on its way stays part of the client's handshake. *)
LEMMA HandshakeStep ==
    ASSUME BaseInv, BaseInv', HandshakeInv, [DNext]_allVars PROVE HandshakeInv'
<1>. USE DEF connVars
<1>t. /\ toServer \in [Conns -> Seq(Packets)] /\ mSendTasks \in [Conns -> Seq(Packets)]
      /\ recv \in [Conns -> [pc: {"idle", "apply", "store", "storeLocked", "forward"},
                             packet: Packets, state: Conns \cup {Null}, word: SUBSET BitIds]]
      /\ mState \in [Conns -> {"NONE", "INITIAL", "CONNECTING", "CONNECTED", "INVALID_PROTOCOL_VERSION"}]
  BY Zenon DEF BaseInv, Inv, ClientTypes, TypeOK
<1>q. ASSUME Quiet PROVE HandshakeInv'
  BY <1>q, HandshakeKept DEF Quiet
<1>1. ASSUME NEW c \in Conns, ClientConnect(c) PROVE HandshakeInv'
  BY <1>1, ConnectHandshake
<1>2. ASSUME NEW c \in Conns, ClientRead(c) PROVE HandshakeInv'
  BY <1>2, ReadHandshake
<1>3. ASSUME NEW c \in Conns, conn = c, BreakConnection(c) PROVE HandshakeInv'
  BY <1>3, BreakHandshake
<1>4. ASSUME NEW c \in Conns, Accept(c) PROVE HandshakeInv'
  <2>1. /\ ClientSame /\ UNCHANGED <<toServer, conn, recv, mSendTasks, mPersistentClientState>>
        /\ mState' = [mState EXCEPT ![c] = "INITIAL"]
    BY <1>4 DEF Accept, AcceptConnection, envVars, clientVars, ClientSame
  <2>2. \A d \in Conns : mState'[d] = "CONNECTED" => mState[d] = "CONNECTED"
    BY <1>t, <2>1
  <2>. QED
    BY <1>q, <2>1, <2>2, KeepsServed
<1>5. ASSUME NEW c \in Conns, ServerRead(c) PROVE HandshakeInv'
  <2>1. /\ ClientSame /\ UNCHANGED <<conn, sendCount, sendState>>
    BY <1>5 DEF ServerRead, clientVars, ClientSame
  <2>2. /\ UNCHANGED <<mSendTasks, mPersistentClientState>>
        /\ toServer' = [toServer EXCEPT ![c] = Tail(@)]
        /\ mState' = mState \/ mState' = [mState EXCEPT ![c] = "CONNECTING"]
        /\ \/ recv' = recv
           \/ recv' = [recv EXCEPT ![c] = [pc |-> "apply", packet |-> Head(toServer[c]),
                                           state |-> mPersistentClientState[c], word |-> {}]]
    BY Zenon, <1>5 DEF ServerRead, RecvConnect, LoadSession
  <2>3. ASSUME NEW d \in Conns PROVE Keeps(d)
    <3>1. CASE d = c
      BY <1>5, <2>1, <3>1, KeepsRead
    <3>2. CASE d # c
      <4>1. toServer'[d] = toServer[d] /\ recv'[d] = recv[d] /\ mSendTasks'[d] = mSendTasks[d]
        BY <1>t, <2>2, <3>2
      <4>2. UpSame(d)
        BY <4>1 DEF UpSame, InHand
      <4>. QED
        BY <2>1, <4>1, <4>2, KeepsSame
    <3>. QED
      BY <3>1, <3>2
  <2>4. \A d \in Conns : mState'[d] = "CONNECTED" => mState[d] = "CONNECTED"
    BY <1>t, <2>2
  <2>. QED
    BY <1>q, <2>1, <2>2, <2>3, <2>4 DEF Quiet
<1>6. ASSUME NEW c \in Conns, ServerReadsEof(c) PROVE HandshakeInv'
  <2>1. ClientSame /\ UNCHANGED <<toServer, conn, recv, mSendTasks, mState, mPersistentClientState>>
    BY <1>6 DEF ServerReadsEof, RecvError, envVars, clientVars, ClientSame
  <2>. QED
    BY <1>q, <2>1, KeepsServed
<1>7. ASSUME NEW c \in Conns, ServerHandle(c) PROVE HandshakeInv'
  <2>1. UNCHANGED envVars
    BY <1>7 DEF ServerHandle
  <2>2. PICK o \in Conns : Handle(c, o)
    BY <1>7 DEF ServerHandle
  <2>. QED
    BY <1>q, <2>1, <2>2, KeepsHandled
<1>8. ASSUME NEW c \in Conns, ServerForward(c) PROVE HandshakeInv'
  <2>1. /\ ClientSame /\ UNCHANGED <<toServer, conn, mSendTasks, mState, mPersistentClientState>>
        /\ recv' = [recv EXCEPT ![c] = Idle]
    BY <1>8 DEF ServerForward, Forward, clientVars, ClientSame
  <2>2. \A d \in Conns : InHand(d)' => recv'[d] = recv[d]
    BY <1>t, <2>1 DEF InHand, Idle
  <2>. QED
    BY <1>q, <2>1, <2>2, KeepsServed
<1>9. ASSUME ServerExecute PROVE HandshakeInv'
  BY <1>9, <1>q, ExecuteQuiet, ExecuteLoginHandshake
<1>10. ASSUME NEW qos \in PublishQoS, ServerPublish(qos) PROVE HandshakeInv'
  <2>1. ClientSame /\ UNCHANGED <<toServer, conn, recv, mState, mPersistentClientState>>
    BY <1>10 DEF ServerPublish, Publish, clientVars, ClientSame
  <2>2. \E subs, q, m : Deliver(subs, q, m)
    BY Zenon, <1>10 DEF ServerPublish, Publish
  <2>. QED
    BY <1>q, <2>1, <2>2, KeepsServed
<1>11. ASSUME NEW c \in Conns, ServerTimeout(c) \/ ServerSendError(c) PROVE HandshakeInv'
  <2>1. LogoutClient(c) /\ ClientSame /\ UNCHANGED <<toServer, conn>>
    BY <1>11 DEF ServerTimeout, TimeoutLogout, ServerSendError, SendErrorLogout, envVars, clientVars,
                 ClientSame
  <2>. QED
    BY <1>q, <2>1, LogoutQuiet
<1>12. ASSUME UNCHANGED allVars PROVE HandshakeInv'
  <2>1. ClientSame /\ UNCHANGED <<toServer, conn, recv, mSendTasks, mState, mPersistentClientState>>
    BY <1>12 DEF allVars, vars, envVars, clientVars, ClientSame
  <2>. QED
    BY <1>q, <2>1, KeepsServed
<1>13. ASSUME ClientPublish PROVE HandshakeInv'
  BY <1>13, PublishHandshake
<1>. HIDE DEF HandshakeInv
<1>. QED
  BY ZenonT(60), <1>1, <1>2, <1>3, <1>4, <1>5, <1>6, <1>7, <1>8, <1>9, <1>10, <1>11, <1>12, <1>13
  DEF DNext, ConnectionFails, ServerCloses

\* What tells that a message is forwarded is kept
KeepsForwarding ==
    /\ forwarded' \in Seq(0..MaxPublish)
    /\ \A m : Forwarding(m) => Forwarding(m)'

\* No answer of the handshake is sent to the client
DownFrom ==
    conn' # Null => \A n \in DOMAIN mSendTasks'[conn'] : mSendTasks'[conn'][n].type \in DownTypes =>
        conn # Null /\ \E l \in DOMAIN mSendTasks[conn] : mSendTasks'[conn'][n] = mSendTasks[conn][l]

\* What a step does that neither marks nor answers anything
Unmarked == KeepsForwarding /\ Marks' \subseteq Marks /\ DownFrom /\ UNCHANGED <<sendCount, sendState>>

(* What is being forwarded stays so as long as no receiver drops it. *)
LEMMA ForwardingKept ==
    ASSUME forwarded \in Seq(0..MaxPublish), forwarded' = forwarded,
           \A c \in Conns : recv[c].pc = "forward" => recv'[c] = recv[c]
    PROVE  KeepsForwarding
BY DEF KeepsForwarding, Forwarding

(* Steps that neither mark nor answer keep the meaning of the marks. *)
LEMMA MarkKept ==
    ASSUME MarkInv, Unmarked
    PROVE  MarkInv'
<1>1. PICK k : k = sendCount /\ k = sendCount'
  BY DEF Unmarked
<1>2. \A m : Forwarding(m) => Forwarding(m)'
  BY DEF Unmarked, KeepsForwarding
<1>3. (\A i \in Marks : i = SendId /\ sendState # "idle" /\ Forwarding(sendCount))'
  <2>. HIDE DEF Marks, Forwarding
  <2>1. \A i \in Marks' : i = SendId /\ sendState # "idle" /\ Forwarding(k)'
    BY <1>1, <1>2 DEF MarkInv, Unmarked
  <2>2. SendId' = SendId /\ sendState' = sendState
    BY DEF Unmarked, SendId
  <2>. QED
    BY <1>1, <2>1, <2>2 DEF Forwarding
<1>4. (conn # Null => \A n \in DOMAIN mSendTasks[conn] :
          /\ mSendTasks[conn][n].type = "PUBREC" => Forwarding(sendCount)
          /\ mSendTasks[conn][n].type = "PUBCOMP" => Marks = {})'
  <2>. HIDE DEF Marks, Forwarding
  <2>1. ASSUME conn' # Null, NEW n \in DOMAIN mSendTasks'[conn'], NEW r, r = mSendTasks'[conn'][n],
               r.type \in DownTypes
        PROVE  (r.type = "PUBREC" => Forwarding(k)') /\ (r.type = "PUBCOMP" => Marks' = {})
    <3>1. PICK l \in DOMAIN mSendTasks[conn] : r = mSendTasks[conn][l] /\ conn # Null
      BY <2>1 DEF Unmarked, DownFrom
    <3>2. (r.type = "PUBREC" => Forwarding(k)) /\ (r.type = "PUBCOMP" => Marks = {})
      BY <1>1, <3>1 DEF MarkInv
    <3>. QED
      BY <1>2, <3>2 DEF Unmarked
  <2>. QED
    BY <1>1, <2>1 DEF DownTypes, Forwarding
<1>5. InboundNoLoss'
  <2>1. ASSUME NEW m \in 1..sendCount', m < sendCount' \/ sendState' \in {"released", "idle"}
        PROVE  Forwarding(m)'
    <3>1. Forwarding(m)
      BY <2>1 DEF MarkInv, InboundNoLoss, Unmarked, Forwarding
    <3>. QED
      BY <1>2, <3>1
  <2>. QED
    BY <2>1 DEF InboundNoLoss, Forwarding
<1>. QED
  BY <1>3, <1>4, <1>5 DEF MarkInv

(* Deliveries are no answers. *)
LEMMA ServedDown ==
    ASSUME BaseInv, conn' = conn, mSendTasks' = mSendTasks \/ \E subs, q, m : Deliver(subs, q, m)
    PROVE  DownFrom
<1>t. mSendTasks \in [Conns -> Seq(Packets)] /\ TypeOK /\ conn \in Conns \cup {Null}
  BY Zenon DEF BaseInv, Inv, TypeOK, ClientTypes
<1>1. CASE conn = Null
  BY <1>1 DEF DownFrom
<1>2. CASE conn # Null /\ mSendTasks'[conn] = mSendTasks[conn]
  BY <1>2 DEF DownFrom
<1>3. ASSUME NEW c \in Conns, conn = c, c # Null, mSendTasks'[c] # mSendTasks[c] PROVE DownFrom
  <2>1. PICK p : p.type = "PUBLISH" /\ mSendTasks'[c] = Append(mSendTasks[c], p)
    <3>1. PICK subs, q, m : Deliver(subs, q, m)
      BY <1>3
    <3>. QED
      BY <1>3, <1>t, <3>1, DeliverAppends
  <2>2. mSendTasks[c] \in Seq(Packets \cup {p})
    BY <1>t
  <2>3. \A n \in DOMAIN mSendTasks'[c] :
           mSendTasks'[c][n] = p \/ \E l \in DOMAIN mSendTasks[c] : mSendTasks'[c][n] = mSendTasks[c][l]
    BY <2>1, <2>2
  <2>. QED
    BY <1>3, <2>1, <2>3 DEF DownFrom, DownTypes
<1>. QED
  BY <1>1, <1>2, <1>3, <1>t

(* Sending one packet. *)
LEMMA SendsOne ==
    ASSUME TypeOK, NEW c \in Conns, NEW p \in Packets, Send(c, <<p>>), NEW d \in Conns,
           NEW n \in DOMAIN mSendTasks'[d]
    PROVE  \/ \E l \in DOMAIN mSendTasks[d] : mSendTasks'[d][n] = mSendTasks[d][l]
           \/ d = c /\ mSendTasks'[d][n] = p
<1>1. mSendTasks \in [Conns -> Seq(Packets)]
  BY Zenon DEF TypeOK
<1>2. CASE mSendTasks'[d] = mSendTasks[d]
  BY <1>2
<1>3. CASE mSendTasks'[d] # mSendTasks[d]
  <2>1. d = c /\ mSendTasks'[d] = mSendTasks[d] \o <<p>>
    BY Zenon, <1>3, SendsOn
  <2>2. <<p>> \in Seq(Packets) /\ \A m \in DOMAIN <<p>> : <<p>>[m] = p
    OBVIOUS
  <2>3. PICK a \in Seq(Packets) : a = <<p>> /\ \A m \in DOMAIN a : a[m] = p
    BY Zenon, <2>2
  <2>4. PICK s \in Seq(Packets) : s = mSendTasks[d]
    BY <1>1
  <2>5. mSendTasks'[d] = s \o a
    BY <2>1, <2>3, <2>4
  <2>. QED
    BY SMTT(60), <2>1, <2>3, <2>4, <2>5, TypesConcat
<1>. QED
  BY <1>2, <1>3

(* The handlers, apart from those for PUBLISH and PUBREL. *)
LEMMA HandleUnmarked ==
    ASSUME BaseInv, forwarded \in Seq(0..MaxPublish), NEW c \in Conns, NEW o \in Conns, Handle(c, o),
           ~HandlePublishQoS2(c, o), ~HandlePubrel(c, o), UNCHANGED envVars
    PROVE  Unmarked
<1>. USE DEF flightVars, appVars, mapVars
<1>t. /\ recv \in [Conns -> [pc: {"idle", "apply", "store", "storeLocked", "forward"},
                           packet: Packets, state: Conns \cup {Null}, word: SUBSET BitIds]]
      /\ TypeOK /\ conn \in Conns \cup {Null}
  BY Zenon DEF BaseInv, Inv, TypeOK, ClientTypes
<1>e. UNCHANGED <<forwarded, conn, sendCount, sendState>>
  BY DEF envVars, clientVars
<1>1. recv[c].pc \in {"apply", "store", "storeLocked"}
  BY DEF Handle, HandlePuback, HandlePubrec, HandlePubcomp, StorePubrecBit,
         HandleSubscribe, HandleUnsubscribe, Applies
<1>2. \A d \in Conns : d # c => recv'[d] = recv[d]
  <2>1. CASE recv' = [recv EXCEPT ![c] = Idle]
    BY <1>t, <2>1
  <2>2. CASE HandlePubrec(c, o)
    <3>1. PICK pc : recv' = [recv EXCEPT ![c].word = mQos2pubrecReceived[o], ![c].pc = pc]
      BY Zenon, <2>2 DEF HandlePubrec
    <3>. QED
      BY <1>t, <3>1
  <2>3. CASE HandlePubcomp(c, o)
    BY <1>t, <2>3 DEF HandlePubcomp
  <2>. QED
    BY <2>1, <2>2, <2>3 DEF Handle, HandlePuback, StorePubrecBit, HandleSubscribe, HandleUnsubscribe
<1>3. KeepsForwarding
  BY <1>1, <1>2, <1>e, ForwardingKept
<1>4. Marks' = Marks
  <2>1. UNCHANGED <<mQoS2receivingPacketIds, mPersistentClientStates>>
    BY DEF Handle, HandlePuback, HandlePubrec, HandlePubcomp, StorePubrecBit, HandleSubscribe,
           HandleUnsubscribe
  <2>. QED
    BY <2>1 DEF Marks, Sess
<1>5. DownFrom
  <2>1. CASE mSendTasks' = mSendTasks
    BY <1>e, <2>1 DEF DownFrom
  <2>2. ASSUME NEW type \in {"PUBREL", "SUBACK", "UNSUBACK"},
               Send(c, <<Control(type, recv[c].packet.id)>>)
        PROVE  DownFrom
    <3>1. PICK p : p = Control(type, recv[c].packet.id)
      OBVIOUS
    <3>2. p \in Packets
      <4>1. recv[c].packet.id \in BitIds
        BY <1>t DEF Packets, BitIds
      <4>. QED
        BY <3>1, <4>1, PacketTypesOK DEF PacketTypes
    <3>3. p.type \notin DownTypes
      BY <3>1 DEF Control, Packet, DownTypes
    <3>. QED
      BY SMTT(60), <1>e, <1>t, <2>2, <3>1, <3>2, <3>3, SendsOne DEF DownFrom
  <2>. QED
    BY <2>1, <2>2 DEF Handle, HandlePuback, HandlePubrec, HandlePubcomp, StorePubrecBit,
         HandleSubscribe, HandleUnsubscribe
<1>. QED
  BY <1>3, <1>4, <1>5, <1>e DEF Unmarked

(* The handler of a PUBLISH marks the message that the client is sending, or one   *)
(* that is marked already.                                                         *)
LEMMA PublishMarks ==
    ASSUME BaseInv, HandshakeInv, MarkInv, forwarded \in Seq(0..MaxPublish), NEW c \in Conns,
           Sess \in Conns, HandlePublishQoS2(c, Sess), UNCHANGED envVars, ~MarksDetached(c)
    PROVE  MarkInv' /\ KeepsForwarding
<1>. USE ConstantsAssumption
<1>t. /\ recv \in [Conns -> [pc: {"idle", "apply", "store", "storeLocked", "forward"},
                           packet: Packets, state: Conns \cup {Null}, word: SUBSET BitIds]]
      /\ mQoS2receivingPacketIds \in [Conns -> SUBSET BitIds] /\ TypeOK
      /\ conn \in Conns \cup {Null}
  BY Zenon DEF BaseInv, Inv, TypeOK, ClientTypes
<1>e. UNCHANGED <<forwarded, conn, sendCount, sendState>>
  BY DEF envVars, clientVars
<1>p. PICK p \in Packets : p = recv[c].packet
  BY <1>t
<1>1. /\ recv[c].pc = "apply" /\ p.type = "PUBLISH" /\ recv[c].state = Sess /\ Sess' = Sess
      /\ mQoS2receivingPacketIds' = [mQoS2receivingPacketIds EXCEPT ![Sess] = @ \cup {p.id}]
      /\ Send(c, <<Control("PUBREC", p.id)>>)
      /\ recv' = [recv EXCEPT ![c] = IF p.id \in mQoS2receivingPacketIds[Sess] THEN Idle
                                     ELSE [Idle EXCEPT !.pc = "forward", !.packet = p]]
  BY <1>p DEF HandlePublishQoS2, Applies, appVars, mapVars, Sess
<1>2. /\ Marks = mQoS2receivingPacketIds[Sess] /\ Marks' = Marks \cup {p.id}
  BY <1>1, <1>t DEF Marks
<1>3. /\ \A d \in Conns : d # c => recv'[d] = recv[d]
      /\ p.id \notin Marks => recv'[c].pc = "forward" /\ recv'[c].packet = p
  BY <1>1, <1>2, <1>t DEF Idle
<1>4. KeepsForwarding
  BY <1>1, <1>3, <1>e, ForwardingKept
<1>5. PICK k : k = sendCount /\ k = sendCount'
  BY <1>e
<1>6. InHand(c)
  BY <1>1, <1>p DEF InHand, UpTypes
<1>7. p.id \notin Marks => Current(p)
  <2>1. ASSUME p.id \notin Marks PROVE mPersistentClientState[c] # Null
    BY <1>1, <1>2, <1>p, <2>1 DEF MarksDetached
  <2>. QED
    BY <1>6, <1>p, <2>1 DEF HandshakeInv, UpCurrent
<1>8. p.id = SendId /\ sendState # "idle" /\ Forwarding(k)'
  <2>1. CASE p.id \in Marks
    <3>1. p.id = SendId /\ sendState # "idle" /\ Forwarding(k)
      BY <1>5, <2>1 DEF MarkInv
    <3>. QED
      BY <1>4, <3>1 DEF KeepsForwarding
  <2>2. CASE p.id \notin Marks
    <3>1. p.id = SendId /\ sendState # "idle" /\ p.msg = k
      BY <1>1, <1>5, <1>7, <2>2 DEF Current
    <3>2. recv'[c].pc = "forward" /\ recv'[c].packet.msg = k
      BY <1>3, <2>2, <3>1
    <3>3. Forwarding(k)'
      BY <3>2 DEF Forwarding
    <3>. QED
      BY <3>1, <3>3
  <2>. QED
    BY <2>1, <2>2
<1>9. (\A i \in Marks : i = SendId /\ sendState # "idle" /\ Forwarding(sendCount))'
  <2>1. \A i \in Marks' : i = SendId /\ sendState # "idle"
    BY <1>2, <1>8 DEF MarkInv
  <2>2. SendId' = SendId
    BY <1>e DEF SendId
  <2>3. Forwarding(sendCount)'
    BY <1>5, <1>8 DEF Forwarding
  <2>. QED
    BY <1>e, <2>1, <2>2, <2>3
<1>10. ASSUME conn # Null, NEW l \in DOMAIN mSendTasks[conn] PROVE mSendTasks[conn][l].type # "PUBCOMP"
  <2>1. CASE p.id \in Marks
    BY <1>10, <2>1 DEF MarkInv
  <2>2. CASE p.id \notin Marks
    <3>1. mPersistentClientState[c] # Null /\ ~NoneUp(c)
      BY <1>1, <1>2, <1>6, <1>p, <2>2 DEF MarksDetached, NoneUp
    <3>2. CASE c = conn
      BY <1>10, <3>1, <3>2 DEF HandshakeInv, OneOnWay, NoneDown, None, DownTypes
    <3>3. CASE c # conn
      <4>1. mState[conn] # "CONNECTED"
        BY <1>10, <3>1, <3>3 DEF HandshakeInv
      <4>2. mSendTasks[conn] = <<>>
        BY <1>10, <1>t, <4>1 DEF BaseInv, PeerInv
      <4>. QED
        BY <1>10, <4>2
    <3>. QED
      BY <3>2, <3>3
  <2>. QED
    BY <2>1, <2>2
<1>11. (conn # Null => \A n \in DOMAIN mSendTasks[conn] :
          /\ mSendTasks[conn][n].type = "PUBREC" => Forwarding(sendCount)
          /\ mSendTasks[conn][n].type = "PUBCOMP" => Marks = {})'
  <2>1. Forwarding(sendCount)'
    BY <1>5, <1>8 DEF Forwarding
  <2>2. PICK r : r = Control("PUBREC", p.id)
    OBVIOUS
  <2>3. r \in Packets
    <3>1. p.id \in BitIds
      BY DEF Packets, BitIds
    <3>. QED
      BY <2>2, <3>1, PacketTypesOK DEF PacketTypes
  <2>4. r.type = "PUBREC"
    BY <2>2 DEF Control, Packet
  <2>5. ASSUME conn # Null, NEW n \in DOMAIN mSendTasks'[conn] PROVE mSendTasks'[conn][n].type # "PUBCOMP"
    BY SMTT(60), <1>1, <1>10, <1>t, <2>2, <2>3, <2>4, <2>5, SendsOne
  <2>. HIDE DEF Forwarding, Marks
  <2>. QED
    BY <1>e, <2>1, <2>5
<1>12. InboundNoLoss'
  <2>1. ASSUME NEW m \in 1..sendCount', m < sendCount' \/ sendState' \in {"released", "idle"}
        PROVE  Forwarding(m)'
    <3>1. Forwarding(m)
      BY <1>e, <2>1 DEF MarkInv, InboundNoLoss, Forwarding
    <3>. QED
      BY <1>4, <3>1 DEF KeepsForwarding
  <2>. QED
    BY <2>1 DEF InboundNoLoss, Forwarding
<1>. QED
  BY <1>4, <1>9, <1>11, <1>12 DEF MarkInv

(* The handler of a PUBREL takes the mark away before it answers. *)
LEMMA PubrelMarks ==
    ASSUME BaseInv, HandshakeInv, forwarded \in Seq(0..MaxPublish), NEW c \in Conns,
           Sess \in Conns, HandlePubrel(c, Sess), UNCHANGED envVars
    PROVE  KeepsForwarding /\ (MarkInv => MarkInv')
<1>. USE ConstantsAssumption
<1>t. /\ recv \in [Conns -> [pc: {"idle", "apply", "store", "storeLocked", "forward"},
                           packet: Packets, state: Conns \cup {Null}, word: SUBSET BitIds]]
      /\ mQoS2receivingPacketIds \in [Conns -> SUBSET BitIds] /\ TypeOK
      /\ conn \in Conns \cup {Null}
  BY Zenon DEF BaseInv, Inv, TypeOK, ClientTypes
<1>e. UNCHANGED <<forwarded, conn, sendCount, sendState>>
  BY DEF envVars, clientVars
<1>p. PICK p \in Packets : p = recv[c].packet
  BY <1>t
<1>1. /\ recv[c].pc = "apply" /\ p.type = "PUBREL" /\ Sess' = Sess
      /\ mQoS2receivingPacketIds' = [mQoS2receivingPacketIds EXCEPT ![Sess] = @ \ {p.id}]
      /\ Send(c, <<Control("PUBCOMP", p.id)>>)
      /\ recv' = [recv EXCEPT ![c] = Idle]
  BY <1>p DEF HandlePubrel, Applies, appVars, mapVars, Sess
<1>2. Marks' = Marks \ {p.id}
  BY <1>1, <1>t DEF Marks
<1>3. \A d \in Conns : d # c => recv'[d] = recv[d]
  BY <1>1, <1>t
<1>4. KeepsForwarding
  BY <1>1, <1>3, <1>e, ForwardingKept
<1>5. PICK r : r = Control("PUBCOMP", p.id)
  OBVIOUS
<1>6. r \in Packets
  <2>1. p.id \in BitIds
    BY DEF Packets, BitIds
  <2>. QED
    BY <1>5, <2>1, PacketTypesOK DEF PacketTypes
<1>7. r.type = "PUBCOMP"
  BY <1>5 DEF Control, Packet
<1>8. ASSUME MarkInv PROVE MarkInv'
  <2>1. PICK k : k = sendCount /\ k = sendCount'
    BY <1>e
  <2>2. (\A i \in Marks : i = SendId /\ sendState # "idle" /\ Forwarding(sendCount))'
    <3>. HIDE DEF Marks, Forwarding
    <3>1. \A i \in Marks' : i = SendId /\ sendState # "idle" /\ Forwarding(k)'
      BY <1>2, <1>4, <1>8, <2>1 DEF MarkInv, KeepsForwarding
    <3>2. SendId' = SendId
      BY <1>e DEF SendId
    <3>. QED
      BY <1>e, <2>1, <3>1, <3>2 DEF Forwarding
  <2>3. c = conn => Marks' = {}
    <3>1. c = conn => p.id = SendId
      BY <1>1, <1>p DEF HandshakeInv, UpCurrent, InHand, UpTypes, Current
    <3>. HIDE DEF Marks
    <3>. QED
      BY <1>2, <1>8, <3>1 DEF MarkInv
  <2>4. (conn # Null => \A n \in DOMAIN mSendTasks[conn] :
            /\ mSendTasks[conn][n].type = "PUBREC" => Forwarding(sendCount)
            /\ mSendTasks[conn][n].type = "PUBCOMP" => Marks = {})'
    <3>. HIDE DEF Marks, Forwarding
    <3>1. ASSUME conn # Null, NEW n \in DOMAIN mSendTasks'[conn], NEW q, q = mSendTasks'[conn][n]
          PROVE  (q.type = "PUBREC" => Forwarding(k)') /\ (q.type = "PUBCOMP" => Marks' = {})
      <4>1. CASE \E l \in DOMAIN mSendTasks[conn] : q = mSendTasks[conn][l]
        <5>1. (q.type = "PUBREC" => Forwarding(k)) /\ (q.type = "PUBCOMP" => Marks = {})
          BY <1>8, <2>1, <3>1, <4>1 DEF MarkInv
        <5>. QED
          BY <1>2, <1>4, <5>1 DEF KeepsForwarding
      <4>2. CASE conn = c /\ q = r
        BY <1>7, <2>3, <4>2
      <4>. QED
        BY <1>1, <1>5, <1>6, <1>t, <3>1, <4>1, <4>2, SendsOne
    <3>. QED
      BY <1>e, <2>1, <3>1 DEF Forwarding
  <2>5. InboundNoLoss'
    <3>1. ASSUME NEW m \in 1..sendCount', m < sendCount' \/ sendState' \in {"released", "idle"}
          PROVE  Forwarding(m)'
      <4>1. Forwarding(m)
        BY <1>8, <1>e, <3>1 DEF MarkInv, InboundNoLoss, Forwarding
      <4>. QED
        BY <1>4, <4>1 DEF KeepsForwarding
    <3>. QED
      BY <3>1 DEF InboundNoLoss, Forwarding
  <2>. QED
    BY <2>2, <2>4, <2>5 DEF MarkInv
<1>. QED
  BY <1>4, <1>8

(* The client reads: PUBREC comes after the forwarding, PUBCOMP after the mark.    *)
LEMMA ReadMarks ==
    ASSUME BaseInv, HandshakeInv, MarkInv, forwarded \in Seq(0..MaxPublish), NEW c \in Conns, ClientRead(c)
    PROVE  MarkInv'
<1>. USE ConstantsAssumption
<1>t. /\ mSendTasks \in [Conns -> Seq(Packets)]
      /\ sendCount \in Nat /\ sendState \in {"idle", "published", "released"}
  <2>1. /\ mSendTasks \in [Conns -> Seq(Packets)] /\ sendCount \in 0..MaxSend
        /\ sendState \in {"idle", "published", "released"}
    BY Zenon DEF BaseInv, Inv, TypeOK, ClientTypes
  <2>. QED
    BY <2>1, DeliveryAssumption
<1>1. /\ conn = c /\ mSendTasks[c] # <<>> /\ mSendTasks' = [mSendTasks EXCEPT ![c] = Tail(@)]
      /\ UNCHANGED <<conn, sendCount, forwarded, recv, mQoS2receivingPacketIds, mPersistentClientStates>>
  BY DEF ClientRead, flightVars, appVars, mapVars
<1>2. /\ Head(mSendTasks[c]) = mSendTasks[c][1] /\ 1 \in DOMAIN mSendTasks[c]
      /\ \A n \in DOMAIN Tail(mSendTasks[c]) :
            \E l \in DOMAIN mSendTasks[c] : Tail(mSendTasks[c])[n] = mSendTasks[c][l]
  BY <1>1, <1>t, SeqFacts
<1>3. KeepsForwarding /\ Marks' = Marks
  <2>1. KeepsForwarding
    BY <1>1, ForwardingKept
  <2>. QED
    BY <1>1, <2>1 DEF Marks, Sess
<1>4. DownFrom
  BY <1>1, <1>2, <1>t DEF DownFrom
<1>5. PICK p : p = Head(mSendTasks[c])
  OBVIOUS
<1>6. \/ UNCHANGED sendState
      \/ p.type = "PUBREC" /\ sendState # "idle" /\ sendState' = "released"
      \/ p.type = "PUBCOMP" /\ sendState = "released" /\ sendState' = "idle"
  BY <1>5 DEF ClientRead, OnConnack, OnPublish, OnPubrel, OnPubrec, OnPubcomp, OnSuback
<1>7. CASE UNCHANGED sendState
  <2>1. Unmarked
    BY <1>1, <1>3, <1>4, <1>7 DEF Unmarked
  <2>. QED
    BY <2>1, MarkKept
<1>8. PICK k : k = sendCount /\ k = sendCount'
  BY <1>1
<1>9. c # Null
  OBVIOUS
<1>10. CASE sendState' # sendState
  <2>1. /\ p.type = "PUBREC" => Forwarding(k)
        /\ p.type = "PUBCOMP" => Marks = {}
    BY <1>1, <1>2, <1>5, <1>8, <1>9 DEF MarkInv
  <2>2. sendState # "idle" /\ k \in 1..sendCount
    BY <1>6, <1>8, <1>10, <1>t DEF HandshakeInv
  <2>3. Forwarding(k)
    <3>1. sendState = "released" => Forwarding(k)
      BY <2>2 DEF MarkInv, InboundNoLoss, Forwarding
    <3>. QED
      BY <1>6, <1>10, <2>1, <3>1
  <2>4. Forwarding(sendCount)'
    <3>1. Forwarding(k)'
      BY <1>3, <2>3 DEF KeepsForwarding
    <3>. QED
      BY <1>8, <3>1 DEF Forwarding
  <2>. HIDE DEF Forwarding, Marks
  <2>5. \A i \in Marks' : i = SendId' /\ sendState' # "idle" /\ Forwarding(sendCount)'
    <3>1. SendId' = SendId
      BY <1>1 DEF SendId
    <3>. QED
      BY <1>3, <1>6, <1>10, <2>1, <2>4, <3>1 DEF MarkInv
  <2>6. ASSUME conn' # Null, NEW n \in DOMAIN mSendTasks'[conn'], mSendTasks'[conn'][n].type = "PUBCOMP"
        PROVE  Marks' = {}
    <3>1. PICK l \in DOMAIN mSendTasks[conn] : mSendTasks'[conn'][n] = mSendTasks[conn][l] /\ conn # Null
      BY <1>4, <2>6 DEF DownFrom, DownTypes
    <3>. QED
      BY <1>3, <2>6, <3>1 DEF MarkInv
  <2>7. InboundNoLoss'
    <3>1. ASSUME NEW m \in 1..sendCount' PROVE Forwarding(m)'
      <4>1. CASE m = k
        BY <1>3, <2>3, <4>1 DEF KeepsForwarding
      <4>2. CASE m # k
        <5>1. m \in 1..sendCount /\ m < sendCount
          BY <1>8, <1>t, <4>2
        <5>2. Forwarding(m)
          BY <5>1 DEF MarkInv, InboundNoLoss, Forwarding
        <5>. QED
          BY <1>3, <5>2 DEF KeepsForwarding
      <4>. QED
        BY <4>1, <4>2
    <3>. QED
      BY <3>1 DEF InboundNoLoss, Forwarding
  <2>. QED
    BY <2>4, <2>5, <2>6, <2>7 DEF MarkInv
<1>. QED
  BY <1>7, <1>10

(* The client begins the next message: no mark is left over. *)
LEMMA BeginsUnmarked ==
    ASSUME BaseInv, HandshakeInv, MarkInv, forwarded \in Seq(0..MaxPublish), ClientPublish
    PROVE  MarkInv'
<1>t. sendCount \in Nat /\ conn \in Conns \cup {Null}
  <2>1. sendCount \in 0..MaxSend /\ conn \in Conns \cup {Null}
    BY Zenon DEF BaseInv, ClientTypes
  <2>. QED
    BY <2>1, DeliveryAssumption
<1>1. /\ conn # Null /\ sendState = "idle" /\ sendCount' = sendCount + 1 /\ sendState' = "published"
      /\ UNCHANGED <<conn, forwarded, recv, mSendTasks, mQoS2receivingPacketIds, mPersistentClientStates>>
  BY DEF ClientPublish, vars, flightVars, appVars, mapVars
<1>2. KeepsForwarding
  BY <1>1, ForwardingKept
<1>3. Marks' = {}
  <2>1. Marks = {}
    BY <1>1 DEF MarkInv
  <2>. QED
    BY <1>1, <2>1 DEF Marks, Sess
<1>4. \A n \in DOMAIN mSendTasks'[conn'] : mSendTasks'[conn'][n].type \notin DownTypes
  BY <1>1 DEF HandshakeInv, OneOnWay, Current
<1>5. InboundNoLoss'
  <2>1. ASSUME NEW m \in 1..sendCount', m < sendCount' PROVE Forwarding(m)'
    <3>1. m \in 1..sendCount
      BY <1>1, <1>t, <2>1
    <3>2. Forwarding(m)
      BY <1>1, <3>1 DEF MarkInv, InboundNoLoss, Forwarding
    <3>. QED
      BY <1>2, <3>2 DEF KeepsForwarding
  <2>. QED
    BY <1>1, <2>1 DEF InboundNoLoss, Forwarding
<1>. QED
  BY <1>3, <1>4, <1>5 DEF MarkInv, DownTypes

(* The worker executes a request. *)
LEMMA ExecuteUnmarked ==
    ASSUME BaseInv, HandshakeInv', forwarded \in Seq(0..MaxPublish), ServerExecute
    PROVE  Unmarked
<1>. USE DEF flightVars, appVars, mapVars
<1>e. UNCHANGED envVars /\ UNCHANGED <<forwarded, conn, ready, sendCount, sendState>>
  BY DEF ServerExecute, envVars, clientVars
<1>t. conn \in Conns \cup {Null} /\ TypeOK
  BY Zenon DEF BaseInv, ClientTypes, Inv
<1>f. ASSUME UNCHANGED recv PROVE KeepsForwarding
  BY <1>e, <1>f, ForwardingKept
<1>m. ASSUME UNCHANGED <<mQoS2receivingPacketIds, mPersistentClientStates>> PROVE Marks' = Marks
  BY <1>m DEF Marks, Sess
<1>u. ASSUME UNCHANGED <<recv, mSendTasks, mQoS2receivingPacketIds, mPersistentClientStates>> PROVE Unmarked
  <2>1. DownFrom
    BY <1>e, <1>u, ServedDown
  <2>. HIDE DEF Marks
  <2>. QED
    BY <1>e, <1>f, <1>m, <1>u, <2>1 DEF Unmarked
<1>1. CASE ExecuteLogin
  <2>1. CASE UNCHANGED <<mSendTasks, flightVars, appVars, recv>>
    BY <1>u, <2>1
  <2>2. ASSUME NEW c \in Conns, LogsIn(c) PROVE Unmarked
    <3>1. UNCHANGED recv /\ Marks' \subseteq Marks
      <4>1. UNCHANGED recv
        BY <2>2, LoginEffect
      <4>2. Marks' \subseteq Marks
        BY <2>2, LoginEffect DEF Marks, Sess
      <4>. QED
        BY <4>1, <4>2
    <3>2. DownFrom
      <4>1. CASE conn = Null
        BY <1>e, <4>1 DEF DownFrom
      <4>2. CASE conn = c
        <5>1. ~ready' /\ conn' # Null
          BY <1>e, <2>2, <4>2, ConstantsAssumption DEF LogsIn, BaseInv, PeerInv
        <5>2. NoneDown(conn)'
          BY <5>1 DEF HandshakeInv, OneOnWay
        <5>. QED
          BY <5>2 DEF DownFrom, NoneDown, None
      <4>3. CASE conn \in Conns /\ conn # c
        <5>1. \E s : Send(c, s)
          BY Zenon, <2>2 DEF LogsIn, LoginNewSession, LoginResumeSession
        <5>2. mSendTasks'[conn] = mSendTasks[conn]
          BY <1>t, <4>3, <5>1, SendsOn
        <5>. QED
          BY <1>e, <5>2 DEF DownFrom
      <4>. QED
        BY <1>t, <4>1, <4>2, <4>3
    <3>. QED
      BY <1>e, <1>f, <3>1, <3>2 DEF Unmarked
  <2>. QED
    BY <1>1, <1>e, <2>1, <2>2, LoginKind
<1>2. CASE ExecuteLogout
  <2>1. Head(mQueue).client \in Conns
    BY <1>2, HeadRequest DEF ExecuteLogout
  <2>2. CASE LogoutClient(Head(mQueue).client)
    BY <1>u, <2>1, <2>2, LogoutEffect
  <2>3. CASE UNCHANGED <<mSendTasks, flightVars, appVars, recv>>
    BY <1>u, <2>3
  <2>. QED
    BY <1>2, <2>2, <2>3 DEF ExecuteLogout
<1>3. CASE ExecuteSubscribe
  <2>1. UNCHANGED <<mQoS2receivingPacketIds, mPersistentClientStates, recv>>
    BY <1>3 DEF ExecuteSubscribe
  <2>2. mSendTasks' = mSendTasks \/ \E subs, q, m : Deliver(subs, q, m)
    BY Zenon, <1>3 DEF ExecuteSubscribe
  <2>3. DownFrom
    BY <1>e, <2>2, ServedDown
  <2>. HIDE DEF Marks
  <2>. QED
    BY <1>e, <1>f, <1>m, <2>1, <2>3 DEF Unmarked
<1>4. CASE ExecuteUnsubscribe
  BY <1>4, HeadRequest DEF ExecuteUnsubscribe
<1>. QED
  BY <1>1, <1>2, <1>3, <1>4 DEF ServerExecute, Execute

(* A receiver forwards a message. *)
LEMMA ForwardUnmarked ==
    ASSUME BaseInv, forwarded \in Seq(0..MaxPublish), NEW c \in Conns, ServerForward(c)
    PROVE  Unmarked
<1>t. /\ recv \in [Conns -> [pc: {"idle", "apply", "store", "storeLocked", "forward"},
                             packet: Packets, state: Conns \cup {Null}, word: SUBSET BitIds]]
  BY Zenon DEF BaseInv, Inv, TypeOK
<1>1. /\ UNCHANGED <<conn, sendCount, sendState, mSendTasks, mQoS2receivingPacketIds, mPersistentClientStates>>
      /\ recv' = [recv EXCEPT ![c] = Idle] /\ forwarded' = Append(forwarded, recv[c].packet.msg)
  BY DEF ServerForward, Forward, clientVars, flightVars, appVars, mapVars
<1>2. PICK e \in 0..MaxPublish : e = recv[c].packet.msg
  BY <1>t DEF Packets
<1>3. PICK s \in Seq(0..MaxPublish) : s = forwarded
  OBVIOUS
<1>4. /\ Append(s, e) \in Seq(0..MaxPublish) /\ Len(s) + 1 \in DOMAIN Append(s, e)
      /\ Append(s, e)[Len(s) + 1] = e
      /\ \A n \in DOMAIN s : n \in DOMAIN Append(s, e) /\ Append(s, e)[n] = s[n]
  OBVIOUS
<1>5. forwarded' = Append(s, e)
  BY <1>1, <1>2, <1>3
<1>6. e \in Elements(Append(s, e)) /\ \A m \in Elements(s) : m \in Elements(Append(s, e))
  BY <1>4 DEF Elements
<1>7. \A d \in Conns : d # c => recv'[d] = recv[d]
  BY <1>1, <1>t
<1>8. Elements(forwarded)' = Elements(forwarded')
  BY DEF Elements
<1>9. KeepsForwarding
  BY <1>2, <1>3, <1>4, <1>5, <1>6, <1>7, <1>8 DEF KeepsForwarding, Forwarding
<1>10. DownFrom
  BY <1>1, ServedDown
<1>11. Marks' = Marks
  BY <1>1 DEF Marks, Sess
<1>. HIDE DEF Marks
<1>. QED
  BY <1>1, <1>9, <1>10, <1>11 DEF Unmarked

(* The steps that neither mark nor answer. *)
LEMMA UnmarkedSteps ==
    ASSUME BaseInv, HandshakeInv, HandshakeInv', forwarded \in Seq(0..MaxPublish), [DNext]_allVars
    PROVE  \/ Unmarked /\ (remarked => remarked')
           \/ ClientPublish
           \/ \E c \in Conns : ClientRead(c)
           \/ \E c \in Conns : Sess \in Conns /\ ServerHandle(c) /\ HandlePublishQoS2(c, Sess)
           \/ \E c \in Conns : Sess \in Conns /\ ServerHandle(c) /\ HandlePubrel(c, Sess)
<1>. USE DEF flightVars, appVars, mapVars
<1>. DEFINE Goal == Unmarked /\ (remarked => remarked')
<1>t. /\ toServer \in [Conns -> Seq(Packets)] /\ mSendTasks \in [Conns -> Seq(Packets)]
      /\ recv \in [Conns -> [pc: {"idle", "apply", "store", "storeLocked", "forward"},
                             packet: Packets, state: Conns \cup {Null}, word: SUBSET BitIds]]
      /\ conn \in Conns \cup {Null}
  BY Zenon DEF BaseInv, Inv, ClientTypes, TypeOK
<1>u. ASSUME forwarded' = forwarded, \A d \in Conns : recv[d].pc = "forward" => recv'[d] = recv[d],
             UNCHANGED <<mQoS2receivingPacketIds, mPersistentClientStates, sendCount, sendState, remarked>>,
             DownFrom
      PROVE  Goal
  <2>1. KeepsForwarding
    BY <1>u, ForwardingKept
  <2>2. Marks' = Marks
    BY <1>u DEF Marks, Sess
  <2>. HIDE DEF Marks
  <2>. QED
    BY <1>u, <2>1, <2>2 DEF Unmarked
<1>1. ASSUME NEW c \in Conns, ClientConnect(c) PROVE Goal
  <2>1. /\ conn' = c /\ UNCHANGED <<forwarded, recv, mSendTasks, mQoS2receivingPacketIds, mPersistentClientStates>>
        /\ UNCHANGED <<sendCount, sendState, remarked>>
    BY <1>1 DEF ClientConnect
  <2>2. mSendTasks[c] = <<>>
    BY <1>1 DEF BaseInv, PeerInv, ClientConnect
  <2>3. DownFrom
    BY <2>1, <2>2 DEF DownFrom
  <2>. QED
    BY <1>u, <2>1, <2>3
<1>3. ASSUME NEW c \in Conns, BreakConnection(c) PROVE Goal
  <2>1. /\ conn' = Null /\ UNCHANGED <<forwarded, recv, mQoS2receivingPacketIds, mPersistentClientStates>>
        /\ UNCHANGED <<sendCount, sendState, remarked>>
    BY <1>3 DEF BreakConnection
  <2>2. DownFrom
    BY <2>1 DEF DownFrom
  <2>. QED
    BY <1>u, <2>1, <2>2
<1>4. ASSUME NEW c \in Conns, Accept(c) \/ ServerReadsEof(c) PROVE Goal
  <2>1. /\ UNCHANGED <<conn, forwarded, recv, mQoS2receivingPacketIds, mPersistentClientStates, mSendTasks>>
        /\ UNCHANGED <<sendCount, sendState, remarked>>
    BY <1>4 DEF Accept, AcceptConnection, ServerReadsEof, RecvError, envVars, clientVars
  <2>2. DownFrom
    BY <2>1, ServedDown
  <2>. QED
    BY <1>u, <2>1, <2>2
<1>5. ASSUME NEW c \in Conns, ServerRead(c) PROVE Goal
  <2>1. /\ UNCHANGED <<forwarded, conn, mSendTasks, mQoS2receivingPacketIds, mPersistentClientStates>>
        /\ UNCHANGED <<sendCount, sendState, remarked>>
        /\ recv[c] = Idle
        /\ \/ recv' = recv
           \/ recv' = [recv EXCEPT ![c] = [pc |-> "apply", packet |-> Head(toServer[c]),
                                           state |-> mPersistentClientState[c], word |-> {}]]
    BY Zenon, <1>5 DEF ServerRead, RecvConnect, LoadSession, MayHandle, clientVars
  <2>2. \A d \in Conns : recv[d].pc = "forward" => recv'[d] = recv[d]
    BY <1>t, <2>1 DEF Idle
  <2>3. DownFrom
    BY <2>1, ServedDown
  <2>. QED
    BY <1>u, <2>1, <2>2, <2>3
<1>7. ASSUME NEW c \in Conns, ServerHandle(c)
      PROVE  Goal \/ (Sess \in Conns /\ HandlePublishQoS2(c, Sess)) \/ (Sess \in Conns /\ HandlePubrel(c, Sess))
  <2>1. UNCHANGED envVars /\ UNCHANGED toServer /\ (remarked => remarked')
    BY Zenon, <1>7 DEF ServerHandle, envVars
  <2>2. PICK o \in Conns : Handle(c, o)
    BY <1>7 DEF ServerHandle
  <2>3. o = Sess
    BY <2>1, <2>2, HandleTrack
  <2>4. CASE ~HandlePublishQoS2(c, o) /\ ~HandlePubrel(c, o)
    BY <2>1, <2>2, <2>4, HandleUnmarked
  <2>. QED
    BY <2>2, <2>3, <2>4
<1>8. ASSUME NEW c \in Conns, ServerForward(c) PROVE Goal
  <2>1. UNCHANGED remarked
    BY <1>8 DEF ServerForward
  <2>. QED
    BY <1>8, <2>1, ForwardUnmarked
<1>9. ASSUME NEW c \in Conns, ServerTimeout(c) \/ ServerSendError(c) PROVE Goal
  <2>1. LogoutClient(c) /\ UNCHANGED <<conn, forwarded, sendCount, sendState, remarked>>
    BY <1>9 DEF ServerTimeout, TimeoutLogout, ServerSendError, SendErrorLogout, envVars, clientVars
  <2>2. UNCHANGED <<recv, mSendTasks, mQoS2receivingPacketIds, mPersistentClientStates>>
    BY <2>1, LogoutEffect
  <2>3. DownFrom
    BY <2>1, <2>2, ServedDown
  <2>. QED
    BY <1>u, <2>1, <2>2, <2>3
<1>10. ASSUME ServerExecute PROVE Goal
  <2>1. UNCHANGED remarked
    BY <1>10 DEF ServerExecute
  <2>. QED
    BY <1>10, <2>1, ExecuteUnmarked
<1>11. ASSUME NEW qos \in PublishQoS, ServerPublish(qos) PROVE Goal
  <2>1. /\ UNCHANGED <<conn, forwarded, recv, mQoS2receivingPacketIds, mPersistentClientStates>>
        /\ UNCHANGED <<sendCount, sendState, remarked>>
    BY <1>11 DEF ServerPublish, Publish, clientVars
  <2>2. \E subs, q, m : Deliver(subs, q, m)
    BY Zenon, <1>11 DEF ServerPublish, Publish
  <2>3. DownFrom
    BY <2>1, <2>2, ServedDown
  <2>. QED
    BY <1>u, <2>1, <2>3
<1>12. ASSUME UNCHANGED allVars PROVE Goal
  <2>1. /\ UNCHANGED <<conn, forwarded, recv, mQoS2receivingPacketIds, mPersistentClientStates, mSendTasks>>
        /\ UNCHANGED <<sendCount, sendState, remarked>>
    BY <1>12 DEF allVars, vars, envVars, clientVars
  <2>2. DownFrom
    BY <2>1, ServedDown
  <2>. QED
    BY <1>u, <2>1, <2>2
<1>. HIDE DEF Goal
<1>13. \/ Goal \/ ClientPublish
       \/ \E c \in Conns : ClientRead(c)
       \/ \E c \in Conns : Sess \in Conns /\ ServerHandle(c) /\ HandlePublishQoS2(c, Sess)
       \/ \E c \in Conns : Sess \in Conns /\ ServerHandle(c) /\ HandlePubrel(c, Sess)
  BY ZenonT(60), <1>1, <1>3, <1>4, <1>5, <1>7, <1>8, <1>9, <1>10, <1>11, <1>12
  DEF DNext, ConnectionFails, ServerCloses
<1>. QED
  BY <1>13 DEF Goal

(* The inductive invariant for the messages of the client. *)
InboundInv == forwarded \in Seq(0..MaxPublish) /\ HandshakeInv /\ (remarked \/ MarkInv)

(* Initially nothing is published. *)
LEMMA InboundInit == DInit => InboundInv
<1>. SUFFICES ASSUME DInit PROVE InboundInv
  OBVIOUS
<1>1. forwarded \in Seq(0..MaxPublish)
  BY DEF DInit
<1>2. HandshakeInv
  BY DEF DInit, Init, HandshakeInv, UpCurrent, InHand, Idle
<1>3. MarkInv
  BY DEF DInit, Init, MarkInv, Marks, Sess, InboundNoLoss
<1>. QED
  BY <1>1, <1>2, <1>3 DEF InboundInv

(* The invariant is kept. *)
LEMMA InboundStep == ASSUME BaseInv, BaseInv', InboundInv, [DNext]_allVars PROVE InboundInv'
<1>i. forwarded \in Seq(0..MaxPublish) /\ HandshakeInv /\ (remarked \/ MarkInv)
  BY DEF InboundInv
<1>h. HandshakeInv'
  BY <1>i, HandshakeStep
<1>1. CASE Unmarked /\ (remarked => remarked')
  <2>1. forwarded' \in Seq(0..MaxPublish)
    BY <1>1 DEF Unmarked, KeepsForwarding
  <2>2. MarkInv => MarkInv'
    BY <1>1, MarkKept
  <2>. QED
    BY <1>1, <1>h, <1>i, <2>1, <2>2 DEF InboundInv
<1>2. CASE ClientPublish
  <2>1. UNCHANGED <<forwarded, remarked>>
    BY <1>2 DEF ClientPublish
  <2>2. MarkInv => MarkInv'
    BY <1>2, <1>i, BeginsUnmarked
  <2>. QED
    BY <1>h, <1>i, <2>1, <2>2 DEF InboundInv
<1>3. ASSUME NEW c \in Conns, ClientRead(c) PROVE InboundInv'
  <2>1. UNCHANGED <<forwarded, remarked>>
    BY <1>3 DEF ClientRead
  <2>2. MarkInv => MarkInv'
    BY <1>3, <1>i, ReadMarks
  <2>. QED
    BY <1>h, <1>i, <2>1, <2>2 DEF InboundInv
<1>4. ASSUME NEW c \in Conns, Sess \in Conns, ServerHandle(c), HandlePublishQoS2(c, Sess)
      PROVE  InboundInv'
  <2>1. UNCHANGED envVars /\ forwarded' = forwarded /\ remarked' = (remarked \/ MarksDetached(c))
    BY <1>4 DEF ServerHandle, envVars
  <2>2. MarkInv /\ ~MarksDetached(c) => MarkInv'
    BY <1>4, <1>i, <2>1, PublishMarks
  <2>. QED
    BY Zenon, <1>h, <1>i, <2>1, <2>2 DEF InboundInv
<1>5. ASSUME NEW c \in Conns, Sess \in Conns, ServerHandle(c), HandlePubrel(c, Sess)
      PROVE  InboundInv'
  <2>1. UNCHANGED envVars /\ forwarded' = forwarded /\ remarked' = (remarked \/ MarksDetached(c))
    BY <1>5 DEF ServerHandle, envVars
  <2>2. MarkInv => MarkInv'
    BY <1>5, <1>i, <2>1, PubrelMarks
  <2>. QED
    BY Zenon, <1>h, <1>i, <2>1, <2>2 DEF InboundInv
<1>. HIDE DEF InboundInv
<1>. QED
  BY <1>1, <1>2, <1>3, <1>4, <1>5, <1>h, <1>i, UnmarkedSteps

(* Messages of the client are lost by a late mark only: unless a receiver has set  *)
(* a mark for a connection that no longer has the session, every message whose     *)
(* PUBREC the client has seen was passed to app.publish, or a receiver is about to *)
(* do so, for any number of messages, packet ids used again, connections and       *)
(* failures between the mark, PUBREC and the publish.                              *)
THEOREM InboundKept == DSpec => []LostOnlyByMark
<1>1. DInit => BaseInv /\ InboundInv
  BY BaseInit, InboundInit
<1>2. BaseInv /\ InboundInv /\ [DNext]_allVars => (BaseInv /\ InboundInv)'
  BY BaseStep, InboundStep
<1>3. BaseInv /\ InboundInv => LostOnlyByMark
  BY DEF InboundInv, MarkInv, LostOnlyByMark
<1>. QED
  BY <1>1, <1>2, <1>3, PTL DEF DSpec

=============================================================================
