---------------------------- MODULE SessionProofs ----------------------------
(***************************************************************************)
(* Proofs about Session, for any connections, packet ids, queue capacity   *)
(* and packets: who owns the session of a client id, however CONNECTs,     *)
(* takeovers, errors, time-outs and late packets of several connections    *)
(* are interleaved.                                                        *)
(***************************************************************************)
EXTENDS Session, FiniteSetTheorems, SequenceTheorems, TLAPS

(* A connection that has begun its login has at most one Login request in the      *)
(* queue, and none once it is CONNECTED; CONNECTED is who has a client id.         *)
LoginInv ==
    /\ \A i \in DOMAIN mQueue : mQueue[i].type = "Login" => mState[mQueue[i].client] = "CONNECTING"
    /\ \A i, j \in DOMAIN mQueue :
          /\ mQueue[i].type = "Login" /\ mQueue[j].type = "Login"
          /\ mQueue[i].client = mQueue[j].client
          => i = j
    /\ \A c \in Conns : mProperClientIdSet[c] => mState[c] = "CONNECTED"
    /\ LoginOnce

(* A session object exists once the connection it is named after has logged in,    *)
(* and a connection has a session only after its login.                            *)
MadeInv ==
    /\ \A o \in Conns : mPersistentClientStates = o \/ o \in mDeletedPersistentClientStates
                          => mState[o] = "CONNECTED"
    /\ \A c \in Conns : mPersistentClientState[c] # Null => mState[c] = "CONNECTED"

\* Who owns the session
OwnerInv == MadeInv /\ SessionLink /\ SingleLogin /\ CleanSessionAttached /\ StaleOnlyAfterLogout

\* The inductive invariant
Inv == TypeOK /\ LoginInv /\ OwnerInv


-----------------------------------------------------------------------------
(* The kinds of steps *)

(* A step that leaves alone who owns the session. *)
Calm ==
    /\ UNCHANGED <<mLoggedOut, mPersistentClientState, mProperClientIdSet, linkVars, mapVars>>
    /\ \A c \in Conns : mState'[c] = "CONNECTED" <=> mState[c] = "CONNECTED"
    /\ \A c \in Conns : recv'[c].state \in {Null, recv[c].state, mPersistentClientState[c]}
    /\ fault' \in {fault, "null client"}

(* What a step does to the Login requests: nothing, a receiver's CONNECT adds one, *)
(* or the worker takes a request.                                                  *)
QueueKept == mQueue' = mQueue /\ \A c \in Conns : mState[c] = "CONNECTING" => mState'[c] = mState[c]
QueueGrows ==
    UNCHANGED mState /\ \E r \in Requests : r.type # "Login" /\ mQueue' = Append(mQueue, r)
QueueTaken == mQueue # <<>> /\ mQueue' = Tail(mQueue) /\ UNCHANGED mState
Connects ==
    \E c \in Conns, clean \in BOOLEAN :
        /\ mState[c] = "INITIAL" /\ mState' = [mState EXCEPT ![c] = "CONNECTING"]
        /\ mQueue' = Append(mQueue, LoginRequest(c, clean))

\* The same steps for peers that may send every packet and CONNECT with every flag
AnyNext ==
    \/ \E c \in Conns :
         \/ AcceptConnection(c)
         \/ \E clean, will \in BOOLEAN : RecvConnect(c, clean, will)
         \/ RecvConnectInvalidVersion(c) \/ RecvConnectMalformed(c)
         \/ RecvError(c) \/ RecvDisconnect(c) \/ RecvPing(c)
         \/ \E p \in Packets : Receive(c, p)
         \/ \E o \in Conns : Handle(c, o)
         \/ Forward(c)
         \/ TimeoutLogout(c) \/ SendErrorLogout(c)
    \/ Execute
    \/ \E qos \in PublishQoS : Publish(qos)

(* The constants only restrict the peers. *)
LEMMA NextAny == ASSUME [Next]_vars PROVE [AnyNext]_vars
BY ConstantsAssumption, Zenon DEF Next, AnyNext

(* Only a login or a logout changes who owns the session. *)
LEMMA StepKinds ==
    ASSUME TypeOK, [AnyNext]_vars
    PROVE  \/ Calm /\ (QueueKept \/ QueueGrows \/ QueueTaken \/ Connects)
           \/ ExecuteLogin
           \/ /\ QueueKept \/ QueueTaken
              /\ \E c \in Conns : ~mLoggedOut[c] /\ LogoutClient(c)
<1>. DEFINE Kind == \/ Calm /\ (QueueKept \/ QueueGrows \/ QueueTaken \/ Connects)
                    \/ ExecuteLogin
                    \/ /\ QueueKept \/ QueueTaken
                       /\ \E c \in Conns : ~mLoggedOut[c] /\ LogoutClient(c)
<1>. SUFFICES Kind
  OBVIOUS
<1>. USE ConstantsAssumption DEF TypeOK, connVars, appVars, mapVars, linkVars, flightVars
<1>1. ASSUME NEW c \in Conns, AcceptConnection(c) PROVE Kind
  BY <1>1 DEF AcceptConnection, Calm, QueueKept, Idle, Applies
<1>2. ASSUME NEW c \in Conns, NEW clean \in BOOLEAN, NEW will \in BOOLEAN,
             RecvConnect(c, clean, will)
      PROVE Kind
  BY <1>2 DEF RecvConnect, RequestChange, Calm, Connects
<1>3. ASSUME NEW c \in Conns, RecvConnectInvalidVersion(c) PROVE Kind
  BY <1>3 DEF RecvConnectInvalidVersion, Calm, QueueKept, Idle, Applies
<1>4. ASSUME NEW c \in Conns, RecvConnectMalformed(c) PROVE Kind
  <2>1. Calm /\ UNCHANGED mState
    BY <1>4 DEF RecvConnectMalformed, Calm, Applies
  <2>2. QueueGrows
    <3>1. LogoutRequest(c) \in Requests /\ LogoutRequest(c).type # "Login"
      BY <1>4 DEF Requests, LogoutRequest, SubscribeRequest, UnsubscribeRequest, Packets
    <3>. QED
      BY <1>4, <2>1, <3>1 DEF RecvConnectMalformed, RequestChange, QueueGrows
  <2>. QED
    BY <2>1, <2>2
<1>5. ASSUME NEW c \in Conns, RecvError(c) PROVE Kind
  <2>1. Calm /\ UNCHANGED mState
    BY <1>5 DEF RecvError, Calm, Applies
  <2>2. QueueGrows
    <3>1. LogoutRequest(c) \in Requests /\ LogoutRequest(c).type # "Login"
      BY <1>5 DEF Requests, LogoutRequest, SubscribeRequest, UnsubscribeRequest, Packets
    <3>. QED
      BY <1>5, <2>1, <3>1 DEF RecvError, RequestChange, QueueGrows
  <2>. QED
    BY <2>1, <2>2
<1>6. ASSUME NEW c \in Conns, RecvDisconnect(c) PROVE Kind
  <2>1. Calm /\ UNCHANGED mState
    BY <1>6 DEF RecvDisconnect, Calm, Applies
  <2>2. QueueGrows
    <3>1. LogoutRequest(c) \in Requests /\ LogoutRequest(c).type # "Login"
      BY <1>6 DEF Requests, LogoutRequest, SubscribeRequest, UnsubscribeRequest, Packets
    <3>. QED
      BY <1>6, <2>1, <3>1 DEF RecvDisconnect, RequestChange, QueueGrows
  <2>. QED
    BY <2>1, <2>2
<1>7. ASSUME NEW c \in Conns, RecvPing(c) PROVE Kind
  BY <1>7 DEF RecvPing, Calm, QueueKept, Idle, Applies
<1>8. ASSUME NEW c \in Conns, NEW p \in Packets, RecvPublishLowQoS(c, p) PROVE Kind
  BY <1>8 DEF RecvPublishLowQoS, Calm, QueueKept, Idle, Applies
<1>9. ASSUME NEW c \in Conns, NEW p \in Packets, LoadSession(c, p) PROVE Kind
  <2>1. Calm /\ UNCHANGED mState
    <3>1. \A d \in Conns : recv'[d].state \in {Null, recv[d].state, mPersistentClientState[d]}
      <4>1. CASE recv' = recv
        BY <4>1
      <4>2. CASE recv' = [recv EXCEPT ![c] = [pc |-> "apply", packet |-> p,
                                              state |-> mPersistentClientState[c], word |-> {}]]
        BY <4>2
      <4>. QED
        BY <1>9, <4>1, <4>2 DEF LoadSession
    <3>. QED
      BY <1>9, <3>1 DEF LoadSession, Calm
  <2>2. QueueKept \/ QueueGrows
    <3>1. LogoutRequest(c) \in Requests /\ LogoutRequest(c).type # "Login"
      BY DEF Requests, LogoutRequest
    <3>. QED
      BY <1>9, <2>1, <3>1 DEF LoadSession, RequestChange, QueueGrows, QueueKept
  <2>. QED
    BY <2>1, <2>2
<1>10. ASSUME NEW c \in Conns, NEW o \in Conns, HandlePuback(c, o) PROVE Kind
  BY ZenonT(60), <1>10 DEF HandlePuback, Calm, QueueKept, Idle, Applies
<1>11. ASSUME NEW c \in Conns, NEW o \in Conns, HandlePubrec(c, o) PROVE Kind
  <2>1. \A d \in Conns : recv'[d].state = recv[d].state
    <3>1. PICK pc : recv' = [recv EXCEPT ![c].word = mQos2pubrecReceived[o], ![c].pc = pc]
      BY <1>11 DEF HandlePubrec
    <3>. QED
      BY ZenonT(60), <3>1
  <2>. QED
    BY <1>11, <2>1 DEF HandlePubrec, Calm, QueueKept
<1>12. ASSUME NEW c \in Conns, NEW o \in Conns, HandlePubcomp(c, o) PROVE Kind
  <2>1. \A d \in Conns : recv'[d].state = recv[d].state
    BY ZenonT(60), <1>12 DEF HandlePubcomp
  <2>. QED
    BY <1>12, <2>1 DEF HandlePubcomp, Calm, QueueKept
<1>13. ASSUME NEW c \in Conns, NEW o \in Conns, StorePubrecBit(c, o) PROVE Kind
  BY <1>13 DEF StorePubrecBit, Calm, QueueKept, Idle, Applies
<1>14. ASSUME NEW c \in Conns, NEW o \in Conns, HandlePublishQoS2(c, o) PROVE Kind
  BY ZenonT(60), <1>14 DEF HandlePublishQoS2, Calm, QueueKept, Idle, Applies
<1>15. ASSUME NEW c \in Conns, NEW o \in Conns, HandlePubrel(c, o) PROVE Kind
  BY ZenonT(60), <1>15 DEF HandlePubrel, Calm, QueueKept, Idle, Applies
<1>16. ASSUME NEW c \in Conns, NEW o \in Conns, HandleSubscribe(c, o) PROVE Kind
  <2>1. Calm /\ UNCHANGED mState
    BY ZenonT(60), <1>16 DEF HandleSubscribe, Idle, Calm, Applies
  <2>2. QueueGrows
    <3>1. SubscribeRequest(o, recv[c].packet.qos) \in Requests /\ SubscribeRequest(o, recv[c].packet.qos).type # "Login"
      BY <1>16 DEF Requests, LogoutRequest, SubscribeRequest, UnsubscribeRequest, Packets
    <3>. QED
      BY <1>16, <2>1, <3>1 DEF HandleSubscribe, RequestChange, QueueGrows
  <2>. QED
    BY <2>1, <2>2
<1>17. ASSUME NEW c \in Conns, NEW o \in Conns, HandleUnsubscribe(c, o) PROVE Kind
  <2>1. Calm /\ UNCHANGED mState
    BY ZenonT(60), <1>17 DEF HandleUnsubscribe, Idle, Calm, Applies
  <2>2. QueueGrows
    <3>1. UnsubscribeRequest(o) \in Requests /\ UnsubscribeRequest(o).type # "Login"
      BY <1>17 DEF Requests, LogoutRequest, SubscribeRequest, UnsubscribeRequest, Packets
    <3>. QED
      BY <1>17, <2>1, <3>1 DEF HandleUnsubscribe, RequestChange, QueueGrows
  <2>. QED
    BY <2>1, <2>2
<1>18. ASSUME NEW c \in Conns, Forward(c) PROVE Kind
  BY <1>18 DEF Forward, Calm, QueueKept, Idle, Applies
<1>19. ASSUME NEW c \in Conns, TimeoutLogout(c) PROVE Kind
  BY <1>19 DEF TimeoutLogout, LogoutClient, QueueKept
<1>20. ASSUME NEW c \in Conns, SendErrorLogout(c) PROVE Kind
  BY <1>20 DEF SendErrorLogout, LogoutClient, QueueKept
<1>21. CASE ExecuteLogin
  BY <1>21
<1>22. CASE ExecuteLogout
  <2>1. Head(mQueue).client \in Conns
    <3>1. Head(mQueue) \in Requests
      <4>1. mQueue \in Seq(Requests) /\ mQueue # <<>>
        BY <1>22 DEF ExecuteLogout
      <4>. QED
        BY <4>1, HeadTailProperties
    <3>. QED
      BY <1>22, <3>1 DEF ExecuteLogout, Requests
  <2>2. QueueTaken
    BY <1>22 DEF ExecuteLogout, LogoutClient, QueueTaken
  <2>. QED
    BY <1>22, <2>1, <2>2 DEF ExecuteLogout, Calm
<1>23. CASE ExecuteSubscribe
  BY <1>23 DEF ExecuteSubscribe, Deliver, Calm, QueueTaken
<1>24. CASE ExecuteUnsubscribe
  BY <1>24 DEF ExecuteUnsubscribe, Calm, QueueTaken
<1>25. ASSUME NEW qos \in PublishQoS, Publish(qos) PROVE Kind
  BY <1>25 DEF Publish, Deliver, Calm, QueueKept
<1>26. CASE UNCHANGED vars
  BY <1>26 DEF vars, Calm, QueueKept, Idle, Applies
<1>. HIDE DEF Kind, TypeOK, connVars, appVars, mapVars, linkVars, flightVars
<1>. QED
  BY ZenonT(60), <1>1, <1>2, <1>3, <1>4, <1>5, <1>6, <1>7, <1>8, <1>9, <1>10, <1>11, <1>12, <1>13,
     <1>14, <1>15, <1>16, <1>17, <1>18, <1>19, <1>20, <1>21, <1>22, <1>23, <1>24, <1>25, <1>26
  DEF AnyNext, Receive, Handle, Execute

-----------------------------------------------------------------------------
(* The types *)

(* Control packets and requests are what their names say. *)
LEMMA PacketTypesOK ==
    /\ \A type \in PacketTypes, id \in BitIds : Control(type, id) \in Packets
    /\ \A flag \in BOOLEAN : Packet("CONNACK", 0, 0, 0, flag) \in Packets
    /\ \A id \in BitIds, m \in 0..MaxPublish, q \in QoS, flag \in BOOLEAN :
          Packet("PUBLISH", id, m, q, flag) \in Packets
    /\ Free \in Slots /\ NoPkt \in Packets
    /\ \A c \in Conns, clean \in BOOLEAN : LoginRequest(c, clean) \in Requests
    /\ \A c \in Conns : LogoutRequest(c) \in Requests /\ UnsubscribeRequest(c) \in Requests
    /\ \A c \in Conns, q \in QoS : SubscribeRequest(c, q) \in Requests
BY ConstantsAssumption
DEF Control, Packet, Packets, PacketTypes, BitIds, QoS, Free, Slots, NoPkt, Requests, LoginRequest,
    LogoutRequest, SubscribeRequest, UnsubscribeRequest

(* What sendData appends are packets. *)
LEMMA SendType ==
    ASSUME TypeOK, NEW c \in Conns, NEW s \in Seq(Packets), Send(c, s)
    PROVE  mSendTasks' \in [Conns -> Seq(Packets)]
<1>1. mSendTasks \in [Conns -> Seq(Packets)]
  BY DEF TypeOK
<1>2. mSendTasks[c] \o s \in Seq(Packets)
  BY <1>1
<1>. QED
  BY <1>1, <1>2 DEF Send

(* The packets that the session's resumption sends. *)
LEMMA ResumeType ==
    ASSUME TypeOK, NEW c \in Conns, NEW o \in Conns, LoginResumeSession(c, o)
    PROVE  mSendTasks' \in [Conns -> Seq(Packets)]
<1>. USE ConstantsAssumption
<1>1. InFlight(o) \subseteq Ids /\ PubrelsResent(o) \subseteq BitIds
  BY DEF InFlight, PubrelsResent, TypeOK
<1>2. IsFiniteSet(InFlight(o)) /\ IsFiniteSet(PubrelsResent(o))
  <2>1. IsFiniteSet(Ids) /\ IsFiniteSet(BitIds)
    BY FS_Interval DEF Ids, BitIds
  <2>. QED
    BY <1>1, <2>1, FS_Subset
<1>3. Cardinality(InFlight(o)) \in Nat /\ Cardinality(PubrelsResent(o)) \in Nat
  BY <1>2, FS_CardinalityType
<1>4. PICK ids \in Ascending(InFlight(o), [i \in Ids |-> GlobalOrder(o, i)]),
           rels \in Ascending(PubrelsResent(o), [i \in BitIds |-> i]) :
         Send(c, <<Packet("CONNACK", 0, 0, 0, TRUE)>>
                  \o [k \in 1..Len(ids) |->
                        Packet("PUBLISH", ids[k], mHighQoSSendingPackets[o][ids[k]].msg,
                               mHighQoSSendingPackets[o][ids[k]].qos, TRUE)]
                  \o [k \in 1..Len(rels) |-> Control("PUBREL", rels[k])])
  BY DEF LoginResumeSession
<1>5. ids \in Seq(Ids) /\ rels \in Seq(BitIds)
  <2>1. PICK n \in 0..Cardinality(InFlight(o)) : ids \in [1..n -> InFlight(o)]
    BY SMTT(60), <1>4 DEF Ascending
  <2>2. PICK m \in 0..Cardinality(PubrelsResent(o)) : rels \in [1..m -> PubrelsResent(o)]
    BY ZenonT(60), <1>4 DEF Ascending
  <2>3. n \in Nat /\ m \in Nat
    BY <1>3, <2>1, <2>2
  <2>4. ids \in [1..n -> Ids] /\ rels \in [1..m -> BitIds]
    BY <1>1, <2>1, <2>2
  <2>. QED
    BY <2>3, <2>4
<1>. DEFINE first == <<Packet("CONNACK", 0, 0, 0, TRUE)>>
            pubs == [k \in 1..Len(ids) |->
                        Packet("PUBLISH", ids[k], mHighQoSSendingPackets[o][ids[k]].msg,
                               mHighQoSSendingPackets[o][ids[k]].qos, TRUE)]
            ends == [k \in 1..Len(rels) |-> Control("PUBREL", rels[k])]
<1>6. first \in Seq(Packets)
  <2>1. Packet("CONNACK", 0, 0, 0, TRUE) \in Packets
    BY PacketTypesOK
  <2>2. \A p \in Packets : <<p>> \in Seq(Packets)
    OBVIOUS
  <2>. QED
    BY <2>1, <2>2
<1>7. pubs \in Seq(Packets)
  <2>1. ASSUME NEW k \in 1..Len(ids) PROVE pubs[k] \in Packets
    <3>1. ids[k] \in Ids /\ ids[k] \in BitIds
      BY <1>5 DEF Ids, BitIds
    <3>2. mHighQoSSendingPackets[o][ids[k]] \in Slots
      <4>1. mHighQoSSendingPackets \in [Conns -> [Ids -> Slots]]
        BY DEF TypeOK
      <4>. QED
        BY <3>1, <4>1
    <3>3. /\ mHighQoSSendingPackets[o][ids[k]].msg \in 0..MaxPublish
          /\ mHighQoSSendingPackets[o][ids[k]].qos \in QoS
      BY <3>2 DEF Slots
    <3>4. Packet("PUBLISH", ids[k], mHighQoSSendingPackets[o][ids[k]].msg,
                 mHighQoSSendingPackets[o][ids[k]].qos, TRUE) \in Packets
      BY <3>1, <3>3, PacketTypesOK
    <3>. QED
      BY <3>4
  <2>2. pubs \in [1..Len(ids) -> Packets]
    BY <2>1
  <2>3. Len(ids) \in Nat
    BY <1>5
  <2>. HIDE DEF pubs
  <2>. QED
    BY <2>2, <2>3
<1>8. ends \in Seq(Packets)
  <2>1. \A k \in 1..Len(rels) : Control("PUBREL", rels[k]) \in Packets
    BY <1>5, PacketTypesOK DEF PacketTypes
  <2>2. Len(rels) \in Nat
    BY <1>5
  <2>. QED
    BY <2>1, <2>2
<1>. HIDE DEF first, pubs, ends
<1>9. first \o pubs \o ends \in Seq(Packets)
  BY <1>6, <1>7, <1>8
<1>. QED
  BY <1>4, <1>9, SendType DEF first, pubs, ends

(* A message that is delivered to some of the subscribers. *)
LEMMA DeliverType ==
    ASSUME TypeOK, NEW subs \in SUBSET Conns, NEW q \in [subs -> QoS],
           Deliver(subs, q, mGlobalOrderCount + 1)
    PROVE  /\ mGlobalOrderCount' \in 0..MaxPublish /\ fault' \in {fault, "null client"}
           /\ mHighQoSSendingPackets' \in [Conns -> [Ids -> Slots]]
           /\ mPacketIdCounter' \in [Conns -> Ids]
           /\ mSendTasks' \in [Conns -> Seq(Packets)]
<1>. USE ConstantsAssumption
<1>. DEFINE m == mGlobalOrderCount + 1
<1>1. m \in 0..MaxPublish /\ mGlobalOrderCount' = m
  <2>1. mGlobalOrderCount \in 0..MaxPublish
    BY DEF TypeOK
  <2>2. mGlobalOrderCount < MaxPublish /\ mGlobalOrderCount' = m
    BY DEF Deliver
  <2>. QED
    BY <2>1, <2>2
<1>2. \A n \in Ids : NextPacketId(n) \in Ids
  BY DEF Ids, NextPacketId
<1>3. CASE DereferencesNull(subs, q)
  BY ZenonT(60), <1>1, <1>3 DEF Deliver, TypeOK
<1>4. CASE ~DereferencesNull(subs, q)
  <2>1. mPacketIdCounter' \in [Conns -> Ids]
    <3>1. mPacketIdCounter \in [Conns -> Ids]
      BY DEF TypeOK
    <3>2. mPacketIdCounter' =
            [o \in Conns |-> IF o \in subs /\ q[o] > 0
                             THEN NextPacketId(mPacketIdCounter[o]) ELSE mPacketIdCounter[o]]
      BY <1>4 DEF Deliver
    <3>. QED
      BY <1>2, <3>1, <3>2
  <2>2. ASSUME NEW o \in Conns, NEW id, NEW slot \in Slots
        PROVE  Emplace(o, id, slot) \in [Ids -> Slots]
    <3>1. mHighQoSSendingPackets[o] \in [Ids -> Slots]
      BY DEF TypeOK
    <3>. QED
      BY <3>1 DEF Emplace
  <2>3. \A o \in subs : [msg |-> m, qos |-> q[o]] \in Slots
    BY <1>1 DEF Slots
  <2>. HIDE DEF m
  <2>4. mHighQoSSendingPackets' =
                 [o \in Conns |-> IF o \in subs /\ q[o] > 0
                                  THEN Emplace(o, NextPacketId(mPacketIdCounter[o]),
                                               [msg |-> m, qos |-> q[o]])
                                  ELSE mHighQoSSendingPackets[o]]
    BY <1>4 DEF Deliver, m
  <2>5. mHighQoSSendingPackets' \in [Conns -> [Ids -> Slots]]
    <3>1. mHighQoSSendingPackets \in [Conns -> [Ids -> Slots]]
      BY DEF TypeOK
    <3>2. ASSUME NEW o \in Conns PROVE mHighQoSSendingPackets'[o] \in [Ids -> Slots]
      <4>1. CASE o \in subs /\ q[o] > 0
        BY <2>2, <2>3, <2>4, <4>1
      <4>2. CASE ~(o \in subs /\ q[o] > 0)
        BY <2>4, <3>1, <4>2
      <4>. QED
        BY <4>1, <4>2
    <3>. QED
      BY <2>4, <3>2
  <2>6. ASSUME NEW o \in subs PROVE PublishPacketFor(o, m, q[o]) \in Packets
    <3>1. (IF q[o] > 0 THEN NextPacketId(mPacketIdCounter[o]) ELSE 0) \in BitIds
      <4>1. NextPacketId(mPacketIdCounter[o]) \in Ids
        BY <1>2 DEF TypeOK
      <4>. QED
        BY <4>1 DEF Ids, BitIds
    <3>2. m \in 0..MaxPublish /\ q[o] \in QoS
      BY <1>1 DEF m
    <3>. QED
      BY <3>1, <3>2, PacketTypesOK DEF PublishPacketFor
  <2>7. mSendTasks' \in [Conns -> Seq(Packets)]
    <3>1. mSendTasks \in [Conns -> Seq(Packets)]
      BY DEF TypeOK
    <3>. DEFINE chosen(c) == CHOOSE o \in subs : mCurrentClient[o] = c
    <3>2. mSendTasks' =
                 [c \in Conns |->
                    IF c \in reading /\ \E o \in subs : mCurrentClient[o] = c
                    THEN Append(mSendTasks[c], PublishPacketFor(chosen(c), m, q[chosen(c)]))
                    ELSE mSendTasks[c]]
      BY <1>4 DEF Deliver, m
    <3>3. ASSUME NEW c \in Conns, \E o \in subs : mCurrentClient[o] = c
          PROVE  chosen(c) \in subs
      BY <3>3
    <3>. HIDE DEF chosen
    <3>4. ASSUME NEW c \in Conns PROVE mSendTasks'[c] \in Seq(Packets)
      <4>1. CASE c \in reading /\ \E o \in subs : mCurrentClient[o] = c
        <5>1. PublishPacketFor(chosen(c), m, q[chosen(c)]) \in Packets
          BY <2>6, <3>3, <4>1
        <5>2. mSendTasks'[c] = Append(mSendTasks[c], PublishPacketFor(chosen(c), m, q[chosen(c)]))
          BY <3>2, <4>1
        <5>3. mSendTasks[c] \in Seq(Packets)
          BY <3>1
        <5>. QED
          BY <5>1, <5>2, <5>3
      <4>2. CASE ~(c \in reading /\ \E o \in subs : mCurrentClient[o] = c)
        BY <3>1, <3>2, <4>2
      <4>. QED
        BY <4>1, <4>2
    <3>. QED
      BY <3>2, <3>4
  <2>. QED
    BY <1>1, <1>4, <2>1, <2>5, <2>7 DEF Deliver
<1>. QED
  BY <1>3, <1>4

(* No step leaves the types. *)
LEMMA TypeStep == TypeOK /\ [AnyNext]_vars => TypeOK'
<1>. SUFFICES ASSUME TypeOK, [AnyNext]_vars PROVE TypeOK'
  OBVIOUS
<1>. USE ConstantsAssumption DEF connVars, appVars, mapVars, linkVars, flightVars
<1>. DEFINE Recvs == [pc: {"idle", "apply", "store", "storeLocked", "forward"},
                      packet: Packets, state: Conns \cup {Null}, word: SUBSET BitIds]
<1>a. /\ \A r \in Requests : Append(mQueue, r) \in Seq(Requests)
      /\ mQueue # <<>> => Head(mQueue) \in Requests /\ Tail(mQueue) \in Seq(Requests)
  <2>1. mQueue \in Seq(Requests)
    BY DEF TypeOK
  <2>. QED
    BY <2>1
<1>b. Idle \in Recvs /\ \A p \in Packets : [Idle EXCEPT !.pc = "forward", !.packet = p] \in Recvs
  BY PacketTypesOK DEF Idle, BitIds
<1>c. /\ <<>> \in Seq(Packets) /\ \A p \in Packets : <<p>> \in Seq(Packets)
      /\ \A type \in PacketTypes, id \in BitIds : <<Control(type, id)>> \in Seq(Packets)
      /\ \A flag \in BOOLEAN : <<Packet("CONNACK", 0, 0, 0, flag)>> \in Seq(Packets)
  <2>1. <<>> \in Seq(Packets) /\ \A p \in Packets : <<p>> \in Seq(Packets)
    OBVIOUS
  <2>. QED
    BY <2>1, PacketTypesOK
<1>d. \A c \in Conns : /\ recv[c] \in Recvs /\ recv[c].packet \in Packets
                       /\ recv[c].packet.id \in BitIds /\ recv[c].packet.qos \in QoS
                       /\ recv[c].word \in SUBSET BitIds
  <2>1. \A c \in Conns : recv[c] \in Recvs
    BY DEF TypeOK
  <2>2. \A p \in Packets : p.id \in BitIds /\ p.qos \in QoS
    BY DEF Packets, BitIds
  <2>. QED
    BY <2>1, <2>2
<1>e. ASSUME NEW c \in Conns, LogoutClient(c)
      PROVE  /\ mLoggedOut' \in [Conns -> BOOLEAN] /\ mWill' \in [Conns -> {"none", "set", "moved"}]
             /\ mPersistentClientState' \in [Conns -> Conns \cup {Null}]
             /\ mCurrentClient' \in [Conns -> Conns \cup {Null}]
             /\ mSubscriptions' \in [Conns -> QoS \cup {NoSub}]
             /\ mPersistentClientStates' \in Conns \cup {Null}
             /\ mDeletedPersistentClientStates' \in SUBSET Conns
             /\ fault' \in {"none", "null client", "client id set twice"}
             /\ UNCHANGED <<mState, mProperClientIdSet, mSendTasks, mCleanSession, flightVars,
                            mGlobalOrderCount, recv, reading>>
  <2>1. CASE mPersistentClientState[c] = Null
    BY ZenonT(60), <1>e, <2>1 DEF LogoutClient, TypeOK
  <2>2. CASE mPersistentClientState[c] # Null
    <3>. DEFINE o == mPersistentClientState[c]
    <3>1. o \in Conns
      BY <2>2 DEF TypeOK
    <3>2. PerformWill(c, o) /\ DropCurrentClient(o) /\ EraseIfClean(o)
      BY <1>e, <2>2 DEF LogoutClient
    <3>3. mWill' \in [Conns -> {"none", "set", "moved"}]
      BY <3>2 DEF PerformWill, TypeOK
    <3>4. /\ mPersistentClientState' \in [Conns -> Conns \cup {Null}]
          /\ mCurrentClient' \in [Conns -> Conns \cup {Null}]
          /\ fault' \in {"none", "null client", "client id set twice"}
      BY ZenonT(60), <3>2 DEF DropCurrentClient, TypeOK
    <3>5. /\ mSubscriptions' \in [Conns -> QoS \cup {NoSub}]
          /\ mPersistentClientStates' \in Conns \cup {Null}
          /\ mDeletedPersistentClientStates' \in SUBSET Conns
      <4>1. /\ mSubscriptions \in [Conns -> QoS \cup {NoSub}]
            /\ mPersistentClientStates \in Conns \cup {Null}
            /\ mDeletedPersistentClientStates \in SUBSET Conns
        BY DEF TypeOK
      <4>. HIDE DEF o
      <4>2. CASE mCleanSession[o] /\ mPersistentClientStates = o
        BY <3>1, <3>2, <4>1, <4>2 DEF EraseIfClean
      <4>3. CASE ~(mCleanSession[o] /\ mPersistentClientStates = o)
        BY <3>2, <4>1, <4>3 DEF EraseIfClean
      <4>. QED
        BY <4>2, <4>3
    <3>. QED
      BY <1>e, <3>3, <3>4, <3>5 DEF LogoutClient, TypeOK
  <2>. QED
    BY <2>1, <2>2
<1>1. ASSUME NEW c \in Conns, AcceptConnection(c) PROVE TypeOK'
  BY <1>1 DEF AcceptConnection, TypeOK
<1>2. ASSUME NEW c \in Conns, NEW clean \in BOOLEAN, NEW will \in BOOLEAN,
             RecvConnect(c, clean, will)
      PROVE TypeOK'
  <2>1. mQueue' \in Seq(Requests)
    BY <1>2, <1>a, PacketTypesOK DEF RecvConnect, RequestChange
  <2>. QED
    BY <1>2, <2>1 DEF RecvConnect, TypeOK
<1>3. ASSUME NEW c \in Conns, RecvConnectInvalidVersion(c) PROVE TypeOK'
  <2>1. <<Packet("CONNACK", 0, 0, 0, FALSE)>> \in Seq(Packets)
    BY <1>3, <1>c, <1>d DEF PacketTypes, BitIds
  <2>2. mSendTasks' \in [Conns -> Seq(Packets)]
    BY <1>3, <2>1, SendType DEF RecvConnectInvalidVersion
  <2>. QED
    BY <1>3, <1>d, <2>2 DEF RecvConnectInvalidVersion, TypeOK
<1>4. ASSUME NEW c \in Conns, RecvConnectMalformed(c) PROVE TypeOK'
  <2>1. mQueue' \in Seq(Requests)
    BY <1>4, <1>a, <1>d, PacketTypesOK DEF RecvConnectMalformed, RequestChange
  <2>. QED
    BY <1>4, <2>1 DEF RecvConnectMalformed, TypeOK
<1>5. ASSUME NEW c \in Conns, RecvError(c) PROVE TypeOK'
  <2>1. mQueue' \in Seq(Requests)
    BY <1>5, <1>a, <1>d, PacketTypesOK DEF RecvError, RequestChange
  <2>. QED
    BY <1>5, <2>1 DEF RecvError, TypeOK
<1>6. ASSUME NEW c \in Conns, RecvDisconnect(c) PROVE TypeOK'
  <2>1. mQueue' \in Seq(Requests)
    BY <1>6, <1>a, <1>d, PacketTypesOK DEF RecvDisconnect, RequestChange
  <2>. QED
    BY <1>6, <2>1 DEF RecvDisconnect, TypeOK
<1>7. ASSUME NEW c \in Conns, RecvPing(c) PROVE TypeOK'
  <2>1. <<Control("PINGRESP", 0)>> \in Seq(Packets)
    BY <1>7, <1>c, <1>d DEF PacketTypes, BitIds
  <2>2. mSendTasks' \in [Conns -> Seq(Packets)]
    BY <1>7, <2>1, SendType DEF RecvPing
  <2>. QED
    BY <1>7, <1>d, <2>2 DEF RecvPing, TypeOK
<1>8. ASSUME NEW c \in Conns, NEW p \in Packets, RecvPublishLowQoS(c, p) PROVE TypeOK'
  <2>1. p \in Packets /\ p.id \in BitIds
    BY DEF Packets, BitIds
  <2>2. (IF p.qos = 1 THEN <<Control("PUBACK", p.id)>> ELSE <<>>) \in Seq(Packets)
    BY <1>c, <2>1 DEF PacketTypes
  <2>3. mSendTasks' \in [Conns -> Seq(Packets)]
    BY <1>8, <2>2, SendType DEF RecvPublishLowQoS
  <2>4. recv' \in [Conns -> Recvs]
    BY <1>8, <1>b, <2>1 DEF RecvPublishLowQoS, TypeOK
  <2>. QED
    BY <1>8, <2>3, <2>4 DEF RecvPublishLowQoS, TypeOK
<1>9. ASSUME NEW c \in Conns, NEW p \in Packets, LoadSession(c, p) PROVE TypeOK'
  <2>1. mQueue' \in Seq(Requests)
    <3>1. mQueue \in Seq(Requests)
      BY DEF TypeOK
    <3>. QED
      BY <1>9, <1>a, <3>1, PacketTypesOK DEF LoadSession, RequestChange
  <2>2. recv' \in [Conns -> Recvs]
    <3>1. [pc |-> "apply", packet |-> p, state |-> mPersistentClientState[c], word |-> {}] \in Recvs
      BY DEF TypeOK
    <3>2. recv \in [Conns -> Recvs]
      BY DEF TypeOK
    <3>. HIDE DEF Recvs
    <3>. QED
      BY <1>9, <3>1, <3>2 DEF LoadSession
  <2>. QED
    BY <1>9, <2>1, <2>2 DEF LoadSession, TypeOK
<1>10. ASSUME NEW c \in Conns, NEW o \in Conns, HandlePuback(c, o) PROVE TypeOK'
  <2>1. mHighQoSSendingPackets' \in [Conns -> [Ids -> Slots]]
    <3>1. \A i : [j \in Ids |-> IF j = i THEN Free ELSE mHighQoSSendingPackets[o][j]] \in [Ids -> Slots]
      <4>1. mHighQoSSendingPackets[o] \in [Ids -> Slots] /\ Free \in Slots
        BY PacketTypesOK DEF TypeOK
      <4>. QED
        BY <4>1
    <3>. QED
      BY ZenonT(60), <1>10, <3>1 DEF HandlePuback, Erase, TypeOK
  <2>2. recv' \in [Conns -> Recvs]
    BY <1>10, <1>b DEF HandlePuback, TypeOK
  <2>. QED
    BY <1>10, <2>1, <2>2 DEF HandlePuback, TypeOK
<1>11. ASSUME NEW c \in Conns, NEW o \in Conns, HandlePubrec(c, o) PROVE TypeOK'
  <2>1. mHighQoSSendingPackets' \in [Conns -> [Ids -> Slots]]
    <3>1. \A i : [j \in Ids |-> IF j = i THEN Free ELSE mHighQoSSendingPackets[o][j]] \in [Ids -> Slots]
      <4>1. mHighQoSSendingPackets[o] \in [Ids -> Slots] /\ Free \in Slots
        BY PacketTypesOK DEF TypeOK
      <4>. QED
        BY <4>1
    <3>. QED
      BY ZenonT(60), <1>11, <3>1 DEF HandlePubrec, Erase, TypeOK
  <2>2. recv' \in [Conns -> Recvs]
    <3>1. PICK pc \in {"store", "storeLocked"} :
             recv' = [recv EXCEPT ![c].word = mQos2pubrecReceived[o], ![c].pc = pc]
      BY <1>11 DEF HandlePubrec
    <3>2. mQos2pubrecReceived[o] \in SUBSET BitIds /\ recv \in [Conns -> Recvs]
      BY DEF TypeOK
    <3>. QED
      BY ZenonT(60), <3>1, <3>2
  <2>. QED
    BY <1>11, <2>1, <2>2 DEF HandlePubrec, TypeOK
<1>12. ASSUME NEW c \in Conns, NEW o \in Conns, HandlePubcomp(c, o) PROVE TypeOK'
  <2>1. recv' \in [Conns -> Recvs]
    <3>1. PICK pc \in {"store", "storeLocked"} :
             recv' = [recv EXCEPT ![c].word = mQos2pubrecReceived[o], ![c].pc = pc]
      BY <1>12 DEF HandlePubcomp
    <3>2. mQos2pubrecReceived[o] \in SUBSET BitIds /\ recv \in [Conns -> Recvs]
      BY DEF TypeOK
    <3>. QED
      BY ZenonT(60), <3>1, <3>2
  <2>. QED
    BY <1>12, <2>1 DEF HandlePubcomp, TypeOK
<1>13. ASSUME NEW c \in Conns, NEW o \in Conns, StorePubrecBit(c, o) PROVE TypeOK'
  <2>1. mSendTasks' \in [Conns -> Seq(Packets)]
    <3>1. <<Control("PUBREL", recv[c].packet.id)>> \in Seq(Packets)
      BY <1>c, <1>d DEF PacketTypes
    <3>2. CASE Send(c, <<Control("PUBREL", recv[c].packet.id)>>)
      BY <3>1, <3>2, SendType
    <3>3. CASE UNCHANGED mSendTasks
      BY <3>3 DEF TypeOK
    <3>. QED
      BY <1>13, <3>2, <3>3 DEF StorePubrecBit
  <2>2. mQos2pubrecReceived' \in [Conns -> SUBSET BitIds]
    <3>1. PICK word \in SUBSET BitIds : mQos2pubrecReceived' = [mQos2pubrecReceived EXCEPT ![o] = word]
      <4>1. /\ recv[c].word \cup {recv[c].packet.id} \in SUBSET BitIds
            /\ recv[c].word \ {recv[c].packet.id} \in SUBSET BitIds
        BY <1>d
      <4>. QED
        BY <1>13, <4>1 DEF StorePubrecBit
    <3>. QED
      BY <3>1 DEF TypeOK
  <2>3. recv' \in [Conns -> Recvs]
    BY <1>13, <1>b DEF StorePubrecBit, TypeOK
  <2>. QED
    BY <1>13, <2>1, <2>2, <2>3 DEF StorePubrecBit, TypeOK
<1>14. ASSUME NEW c \in Conns, NEW o \in Conns, HandlePublishQoS2(c, o) PROVE TypeOK'
  <2>1. <<Control("PUBREC", recv[c].packet.id)>> \in Seq(Packets)
    BY <1>14, <1>c, <1>d DEF PacketTypes, BitIds
  <2>2. mSendTasks' \in [Conns -> Seq(Packets)]
    BY <1>14, <2>1, SendType DEF HandlePublishQoS2
  <2>3. recv' \in [Conns -> Recvs]
    BY <1>14, <1>b, <1>d DEF HandlePublishQoS2, TypeOK
  <2>4. mQoS2receivingPacketIds' \in [Conns -> SUBSET BitIds]
    <3>1. mQoS2receivingPacketIds[o] \cup {recv[c].packet.id} \in SUBSET BitIds
      BY ZenonT(60), <1>d DEF TypeOK
    <3>. QED
      BY <1>14, <3>1 DEF HandlePublishQoS2, TypeOK
  <2>. QED
    BY <1>14, <2>2, <2>3, <2>4 DEF HandlePublishQoS2, TypeOK
<1>15. ASSUME NEW c \in Conns, NEW o \in Conns, HandlePubrel(c, o) PROVE TypeOK'
  <2>1. <<Control("PUBCOMP", recv[c].packet.id)>> \in Seq(Packets)
    BY <1>15, <1>c, <1>d DEF PacketTypes, BitIds
  <2>2. mSendTasks' \in [Conns -> Seq(Packets)]
    BY <1>15, <2>1, SendType DEF HandlePubrel
  <2>3. recv' \in [Conns -> Recvs]
    BY <1>15, <1>b, <1>d DEF HandlePubrel, TypeOK
  <2>. QED
    BY <1>15, <1>d, <2>2, <2>3 DEF HandlePubrel, TypeOK
<1>16. ASSUME NEW c \in Conns, NEW o \in Conns, HandleSubscribe(c, o) PROVE TypeOK'
  <2>1. <<Control("SUBACK", recv[c].packet.id)>> \in Seq(Packets)
    BY <1>16, <1>c, <1>d DEF PacketTypes, BitIds
  <2>2. mSendTasks' \in [Conns -> Seq(Packets)]
    BY <1>16, <2>1, SendType DEF HandleSubscribe
  <2>3. recv' \in [Conns -> Recvs]
    BY <1>16, <1>b, <1>d DEF HandleSubscribe, TypeOK
  <2>4. mQueue' \in Seq(Requests)
    BY <1>16, <1>a, <1>d, PacketTypesOK DEF HandleSubscribe, RequestChange
  <2>. QED
    BY <1>16, <1>d, <2>2, <2>3, <2>4 DEF HandleSubscribe, TypeOK
<1>17. ASSUME NEW c \in Conns, NEW o \in Conns, HandleUnsubscribe(c, o) PROVE TypeOK'
  <2>1. <<Control("UNSUBACK", recv[c].packet.id)>> \in Seq(Packets)
    BY <1>17, <1>c, <1>d DEF PacketTypes, BitIds
  <2>2. mSendTasks' \in [Conns -> Seq(Packets)]
    BY <1>17, <2>1, SendType DEF HandleUnsubscribe
  <2>3. recv' \in [Conns -> Recvs]
    BY <1>17, <1>b, <1>d DEF HandleUnsubscribe, TypeOK
  <2>4. mQueue' \in Seq(Requests)
    BY <1>17, <1>a, <1>d, PacketTypesOK DEF HandleUnsubscribe, RequestChange
  <2>. QED
    BY <1>17, <1>d, <2>2, <2>3, <2>4 DEF HandleUnsubscribe, TypeOK
<1>18. ASSUME NEW c \in Conns, Forward(c) PROVE TypeOK'
  <2>1. recv' \in [Conns -> Recvs]
    BY <1>18, <1>b DEF Forward, TypeOK
  <2>. QED
    BY <1>18, <2>1 DEF Forward, TypeOK
<1>19. ASSUME NEW c \in Conns, TimeoutLogout(c) PROVE TypeOK'
  BY ZenonT(60), <1>19, <1>e DEF TimeoutLogout, TypeOK
<1>20. ASSUME NEW c \in Conns, SendErrorLogout(c) PROVE TypeOK'
  BY ZenonT(60), <1>20, <1>e DEF SendErrorLogout, TypeOK
<1>21. CASE ExecuteLogin
  <2>. DEFINE c == Head(mQueue).client
              clean == Head(mQueue).clean
              o == mPersistentClientStates
  <2>1. c \in Conns /\ clean \in BOOLEAN /\ mQueue' \in Seq(Requests)
    BY <1>21, <1>a DEF ExecuteLogin, Requests
  <2>2. UNCHANGED <<mWill, mSubscriptions, mGlobalOrderCount, recv, reading>>
    BY <1>21 DEF ExecuteLogin
  <2>3. CASE mLoggedOut[c]
    BY ZenonT(60), <1>21, <2>1, <2>2, <2>3 DEF ExecuteLogin, TypeOK
  <2>4. CASE ~mLoggedOut[c]
    <3>1. mState' = [mState EXCEPT ![c] = "CONNECTED"]
      BY <1>21, <2>4 DEF ExecuteLogin
    <3>2. \A x \in Conns, b \in BOOLEAN : ReplaceCurrentClient(x, c, b) =>
             /\ mPersistentClientState' \in [Conns -> Conns \cup {Null}]
             /\ mCurrentClient' \in [Conns -> Conns \cup {Null}]
             /\ mCleanSession' \in [Conns -> BOOLEAN] /\ mProperClientIdSet' \in [Conns -> BOOLEAN]
             /\ fault' \in {"none", "null client", "client id set twice"}
      <4>1. /\ mPersistentClientState \in [Conns -> Conns \cup {Null}]
            /\ mCurrentClient \in [Conns -> Conns \cup {Null}]
            /\ mCleanSession \in [Conns -> BOOLEAN] /\ mProperClientIdSet \in [Conns -> BOOLEAN]
            /\ fault \in {"none", "null client", "client id set twice"}
        BY DEF TypeOK
      <4>. HIDE DEF c
      <4>2. ASSUME NEW x \in Conns, NEW b \in BOOLEAN, ReplaceCurrentClient(x, c, b)
            PROVE  /\ mPersistentClientState' \in [Conns -> Conns \cup {Null}]
                   /\ mCurrentClient' \in [Conns -> Conns \cup {Null}]
                   /\ mCleanSession' \in [Conns -> BOOLEAN]
                   /\ mProperClientIdSet' \in [Conns -> BOOLEAN]
                   /\ fault' \in {"none", "null client", "client id set twice"}
        <5>1. mPersistentClientState' \in [Conns -> Conns \cup {Null}]
          BY <2>1, <4>1, <4>2 DEF ReplaceCurrentClient
        <5>2. /\ mCurrentClient' \in [Conns -> Conns \cup {Null}]
              /\ mCleanSession' \in [Conns -> BOOLEAN]
              /\ mProperClientIdSet' \in [Conns -> BOOLEAN]
          BY <2>1, <4>1, <4>2 DEF ReplaceCurrentClient
        <5>3. fault' \in {fault, "client id set twice"}
          BY <4>2 DEF ReplaceCurrentClient
        <5>. QED
          BY <4>1, <5>1, <5>2, <5>3
      <4>. QED
        BY <4>2
    <3>3. \A x \in Conns : ResetSession(x) =>
             /\ mHighQoSSendingPackets' \in [Conns -> [Ids -> Slots]]
             /\ mQos2pubrecReceived' \in [Conns -> SUBSET BitIds]
             /\ mQoS2receivingPacketIds' \in [Conns -> SUBSET BitIds]
             /\ mPacketIdCounter' \in [Conns -> Ids]
      <4>1. [i \in Ids |-> Free] \in [Ids -> Slots] /\ 1 \in Ids
        BY PacketTypesOK DEF Ids
      <4>2. /\ mHighQoSSendingPackets \in [Conns -> [Ids -> Slots]]
            /\ mQos2pubrecReceived \in [Conns -> SUBSET BitIds]
            /\ mQoS2receivingPacketIds \in [Conns -> SUBSET BitIds]
            /\ mPacketIdCounter \in [Conns -> Ids]
        BY DEF TypeOK
      <4>. QED
        BY <4>1, <4>2 DEF ResetSession
    <3>4. \A x \in Conns : LogoutReplaced(x) => mLoggedOut' \in [Conns -> BOOLEAN]
      BY ZenonT(60) DEF LogoutReplaced, TypeOK
    <3>5. <<Packet("CONNACK", 0, 0, 0, FALSE)>> \in Seq(Packets)
      BY <1>c
    <3>. HIDE DEF c, clean, o
    <3>6. CASE o = Null /\ LoginNewSession(c, clean)
      <4>1. mSendTasks' \in [Conns -> Seq(Packets)]
        BY <2>1, <3>5, <3>6, SendType DEF LoginNewSession
      <4>2. ReplaceCurrentClient(c, c, clean) /\ ResetSession(c)
        BY <3>6 DEF LoginNewSession
      <4>3. /\ mPersistentClientStates' = c
            /\ UNCHANGED <<mLoggedOut, mDeletedPersistentClientStates>>
        BY <3>6 DEF LoginNewSession
      <4>4. /\ mPersistentClientState' \in [Conns -> Conns \cup {Null}]
            /\ mCurrentClient' \in [Conns -> Conns \cup {Null}]
            /\ mCleanSession' \in [Conns -> BOOLEAN] /\ mProperClientIdSet' \in [Conns -> BOOLEAN]
            /\ fault' \in {"none", "null client", "client id set twice"}
        BY <2>1, <3>2, <4>2
      <4>5. /\ mHighQoSSendingPackets' \in [Conns -> [Ids -> Slots]]
            /\ mQos2pubrecReceived' \in [Conns -> SUBSET BitIds]
            /\ mQoS2receivingPacketIds' \in [Conns -> SUBSET BitIds]
            /\ mPacketIdCounter' \in [Conns -> Ids]
        BY <2>1, <3>3, <4>2
      <4>. QED
        BY <2>1, <2>2, <3>1, <4>1, <4>3, <4>4, <4>5 DEF TypeOK
    <3>7. CASE o # Null /\ LoginCleanSession(c, clean, o)
      <4>1. o \in Conns
        BY <3>7 DEF TypeOK, o
      <4>. QED
        BY ZenonT(60), <2>1, <2>2, <3>1, <3>2, <3>3, <3>4, <3>5, <3>7, <4>1, SendType
        DEF LoginCleanSession, TypeOK
    <3>8. CASE o # Null /\ LoginResumeSession(c, o)
      <4>1. o \in Conns
        BY <3>8 DEF TypeOK, o
      <4>2. mSendTasks' \in [Conns -> Seq(Packets)]
        BY <2>1, <3>8, <4>1, ResumeType
      <4>. QED
        BY <2>1, <2>2, <3>1, <3>2, <3>4, <3>8, <4>1, <4>2 DEF LoginResumeSession, TypeOK
    <3>. QED
      BY <1>21, <2>4, <3>6, <3>7, <3>8 DEF ExecuteLogin, c, clean, o
  <2>. QED
    BY <2>3, <2>4
<1>22. CASE ExecuteLogout
  <2>1. Head(mQueue).client \in Conns /\ mQueue' \in Seq(Requests)
    BY <1>22, <1>a DEF ExecuteLogout, Requests
  <2>2. CASE UNCHANGED <<connVars, mSendTasks, linkVars, flightVars, appVars, recv, fault, reading>>
    BY <2>1, <2>2 DEF TypeOK
  <2>. QED
    BY ZenonT(60), <1>22, <1>e, <2>1, <2>2 DEF ExecuteLogout, TypeOK
<1>23. CASE ExecuteSubscribe
  <2>. DEFINE o == Head(mQueue).state
              qos == Head(mQueue).qos
              q == [x \in {o} |-> MinQoS(RetainedQoS, qos)]
  <2>1. o \in Conns /\ qos \in QoS /\ mQueue' \in Seq(Requests)
    BY <1>23, <1>a DEF ExecuteSubscribe, Requests
  <2>2. UNCHANGED <<connVars, linkVars, mQos2pubrecReceived, mQoS2receivingPacketIds, mapVars, recv,
                    reading>> /\ AddSubscription(o, qos)
    BY <1>23 DEF ExecuteSubscribe
  <2>. HIDE DEF o, qos
  <2>3. mSubscriptions' \in [Conns -> QoS \cup {NoSub}]
    <3>1. mSubscriptions \in [Conns -> QoS \cup {NoSub}]
      BY DEF TypeOK
    <3>2. PICK x \in QoS : mSubscriptions' = [mSubscriptions EXCEPT ![o] = x]
      BY <2>1, <2>2, <3>1 DEF AddSubscription
    <3>. QED
      BY <3>1, <3>2
  <2>4. CASE UNCHANGED <<mHighQoSSendingPackets, mPacketIdCounter, mSendTasks, mGlobalOrderCount, fault>>
    BY <2>1, <2>2, <2>3, <2>4 DEF TypeOK
  <2>5. CASE RetainedQoS # NoSub /\ Deliver({o}, q, mGlobalOrderCount + 1)
    <3>1. q \in [{o} -> QoS] /\ {o} \in SUBSET Conns
      BY <2>1, <2>5 DEF MinQoS
    <3>. HIDE DEF q
    <3>. QED
      BY <2>1, <2>2, <2>3, <2>5, <3>1, DeliverType DEF TypeOK
  <2>. QED
    BY <1>23, <2>4, <2>5 DEF ExecuteSubscribe, o, qos
<1>24. CASE ExecuteUnsubscribe
  <2>1. Head(mQueue).state \in Conns /\ mQueue' \in Seq(Requests)
    BY <1>24, <1>a DEF ExecuteUnsubscribe, Requests
  <2>. QED
    BY <1>24, <2>1 DEF ExecuteUnsubscribe, TypeOK
<1>25. ASSUME NEW qos \in PublishQoS, Publish(qos) PROVE TypeOK'
  <2>. DEFINE q == [o \in Subscribers |-> MinQoS(mSubscriptions[o], qos)]
  <2>1. q \in [Subscribers -> QoS] /\ Subscribers \in SUBSET Conns
    BY DEF Subscribers, MinQoS, TypeOK, QoS
  <2>2. Deliver(Subscribers, q, mGlobalOrderCount + 1)
    BY <1>25 DEF Publish
  <2>. HIDE DEF q
  <2>. QED
    BY <1>25, <2>1, <2>2, DeliverType DEF Publish, TypeOK
<1>26. CASE UNCHANGED vars
  BY <1>26 DEF vars, TypeOK
<1>. QED
  BY <1>1, <1>2, <1>3, <1>4, <1>5, <1>6, <1>7, <1>8, <1>9, <1>10, <1>11, <1>12, <1>13,
     <1>14, <1>15, <1>16, <1>17, <1>18, <1>19, <1>20, <1>21, <1>22, <1>23, <1>24, <1>25, <1>26
  DEF AnyNext, Receive, Handle, Execute

-----------------------------------------------------------------------------
(* The steps of the induction *)

(* At the start nobody is connected. *)
LEMMA InitInv == Init => Inv
<1>. SUFFICES ASSUME Init PROVE Inv
  OBVIOUS
<1>. USE ConstantsAssumption DEF Init
<1>1. TypeOK
  <2>1. mSendTasks \in [Conns -> Seq(Packets)] /\ mQueue \in Seq(Requests)
    OBVIOUS
  <2>2. mHighQoSSendingPackets \in [Conns -> [Ids -> Slots]] /\ mPacketIdCounter \in [Conns -> Ids]
    BY PacketTypesOK DEF Ids
  <2>3. recv \in [Conns -> [pc: {"idle", "apply", "store", "storeLocked", "forward"},
                            packet: Packets, state: Conns \cup {Null}, word: SUBSET BitIds]]
    BY PacketTypesOK DEF Idle
  <2>. QED
    BY <2>1, <2>2, <2>3 DEF TypeOK
<1>2. LoginInv
  BY DEF LoginInv, LoginOnce
<1>3. OwnerInv
  BY DEF OwnerInv, MadeInv, SessionLink, SingleLogin, CleanSessionAttached, StaleOnlyAfterLogout, Idle
<1>. QED
  BY <1>1, <1>2, <1>3 DEF Inv

(* However the requests are queued, a connection is logged in once. *)
LEMMA LoginStep == TypeOK /\ LoginInv /\ [AnyNext]_vars => LoginInv'
<1>. SUFFICES ASSUME TypeOK, LoginInv, [AnyNext]_vars PROVE LoginInv'
  OBVIOUS
<1>. USE ConstantsAssumption
<1>. DEFINE Unique(q) == \A i, j \in DOMAIN q :
                /\ q[i].type = "Login" /\ q[j].type = "Login" /\ q[i].client = q[j].client => i = j
            Waiting(q, state) == \A i \in DOMAIN q : q[i].type = "Login" => state[q[i].client] = "CONNECTING"
            Named(ids, state) == \A c \in Conns : ids[c] => state[c] = "CONNECTED"
<1>0. /\ mQueue \in Seq(Requests) /\ Unique(mQueue) /\ Waiting(mQueue, mState)
      /\ Named(mProperClientIdSet, mState) /\ LoginOnce
      /\ \A r \in Requests : r.type = "Login" => r.client \in Conns
  BY DEF TypeOK, LoginInv, Requests
<1>1. ASSUME QueueKept PROVE Unique(mQueue') /\ Waiting(mQueue', mState')
  <2>1. \A i \in DOMAIN mQueue : mQueue[i].type = "Login" => mQueue[i].client \in Conns
    BY <1>0
  <2>. QED
    BY <1>0, <1>1, <2>1 DEF QueueKept
<1>2. ASSUME mQueue # <<>>, mQueue' = Tail(mQueue)
      PROVE  /\ Unique(mQueue') /\ Waiting(mQueue', mState)
             /\ Head(mQueue).type = "Login" =>
                   \A i \in DOMAIN mQueue' :
                      mQueue'[i].type = "Login" => mQueue'[i].client # Head(mQueue).client
  <2>1. /\ \A i \in DOMAIN mQueue' : i \in Nat /\ i + 1 \in DOMAIN mQueue /\ mQueue'[i] = mQueue[i + 1]
        /\ 1 \in DOMAIN mQueue /\ Head(mQueue) = mQueue[1]
    BY <1>0, <1>2
  <2>2. Unique(mQueue')
    <3>1. ASSUME NEW i \in DOMAIN mQueue', NEW j \in DOMAIN mQueue', mQueue'[i].type = "Login",
                 mQueue'[j].type = "Login", mQueue'[i].client = mQueue'[j].client
          PROVE  i = j
      <4>1. i + 1 = j + 1
        BY <1>0, <2>1, <3>1
      <4>. QED
        BY <2>1, <4>1
    <3>. QED
      BY <3>1
  <2>3. Waiting(mQueue', mState)
    BY <1>0, <2>1
  <2>4. ASSUME Head(mQueue).type = "Login", NEW i \in DOMAIN mQueue', mQueue'[i].type = "Login",
               mQueue'[i].client = Head(mQueue).client
        PROVE  FALSE
    <3>1. i + 1 = 1
      BY <1>0, <2>1, <2>4
    <3>2. i # 0
      BY <1>0, <1>2
    <3>. QED
      BY <2>1, <3>1, <3>2
  <2>. QED
    BY <2>2, <2>3, <2>4
<1>3. ASSUME NEW r, mQueue' = Append(mQueue, r)
      PROVE  \A i \in DOMAIN mQueue' : \/ i \in DOMAIN mQueue /\ mQueue'[i] = mQueue[i]
                                       \/ i = Len(mQueue) + 1 /\ mQueue'[i] = r
  BY <1>0, <1>3
<1>. HIDE DEF Unique, Waiting, Named
<1>4. CASE /\ UNCHANGED mProperClientIdSet /\ fault' \in {fault, "null client"}
           /\ \A c \in Conns : mState'[c] = "CONNECTED" <=> mState[c] = "CONNECTED"
           /\ QueueKept \/ QueueGrows \/ QueueTaken \/ Connects
  <2>1. Named(mProperClientIdSet', mState') /\ LoginOnce'
    BY <1>0, <1>4 DEF Named, LoginOnce
  <2>2. Unique(mQueue') /\ Waiting(mQueue', mState')
    <3>1. CASE QueueKept
      BY <1>1, <3>1
    <3>2. CASE QueueGrows
      <4>1. PICK r \in Requests : r.type # "Login" /\ mQueue' = Append(mQueue, r)
        BY <3>2 DEF QueueGrows
      <4>2. UNCHANGED mState
        BY <3>2 DEF QueueGrows
      <4>. QED
        BY <1>0, <1>3, <4>1, <4>2 DEF Unique, Waiting
    <3>3. CASE QueueTaken
      BY <1>2, <3>3 DEF QueueTaken
    <3>4. CASE Connects
      <4>1. PICK c \in Conns, clean \in BOOLEAN :
               /\ mState[c] = "INITIAL" /\ mState' = [mState EXCEPT ![c] = "CONNECTING"]
               /\ mQueue' = Append(mQueue, LoginRequest(c, clean))
        BY <3>4 DEF Connects
      <4>2. \A i \in DOMAIN mQueue : mQueue[i].type = "Login" =>
               mQueue[i].client \in Conns \ {c} /\ mState[mQueue[i].client] = "CONNECTING"
        BY <1>0, <4>1 DEF Waiting
      <4>3. LoginRequest(c, clean).client = c
        BY DEF LoginRequest
      <4>4. mState'[c] = "CONNECTING" /\ \A d \in Conns \ {c} : mState'[d] = mState[d]
        BY ZenonT(60), <4>1 DEF TypeOK
      <4>5. Unique(mQueue')
        BY <1>0, <1>3, <4>1, <4>2, <4>3 DEF Unique
      <4>6. Waiting(mQueue', mState')
        BY <1>3, <4>1, <4>2, <4>3, <4>4 DEF Waiting
      <4>. QED
        BY <4>5, <4>6
    <3>. QED
      BY <1>4, <3>1, <3>2, <3>3, <3>4
  <2>. QED
    BY <2>1, <2>2 DEF LoginInv, Unique, Waiting, Named
<1>5. CASE ExecuteLogin
  <2>. DEFINE c == Head(mQueue).client
  <2>1. /\ mQueue # <<>> /\ Head(mQueue).type = "Login" /\ mQueue' = Tail(mQueue)
        /\ mLoggedOut[c] => UNCHANGED <<mState, mProperClientIdSet, fault>>
        /\ ~mLoggedOut[c] =>
              /\ mState' = [mState EXCEPT ![c] = "CONNECTED"]
              /\ mProperClientIdSet' = [mProperClientIdSet EXCEPT ![c] = TRUE]
              /\ fault' = IF mProperClientIdSet[c] THEN "client id set twice" ELSE fault
    BY <1>5 DEF ExecuteLogin, LoginNewSession, LoginCleanSession, LoginResumeSession,
                ReplaceCurrentClient
  <2>2. c \in Conns /\ mState[c] = "CONNECTING"
    <3>1. 1 \in DOMAIN mQueue /\ Head(mQueue) = mQueue[1] /\ mQueue[1] \in Requests
      <4>1. mQueue \in Seq(Requests) /\ mQueue # <<>>
        BY <1>0, <2>1
      <4>. QED
        BY <4>1
    <3>. QED
      BY <1>0, <2>1, <3>1 DEF Waiting
  <2>3. /\ Unique(mQueue') /\ Waiting(mQueue', mState)
        /\ \A i \in DOMAIN mQueue' : mQueue'[i].type = "Login" => mQueue'[i].client # c
    BY <1>2, <2>1
  <2>4. ~mProperClientIdSet[c]
    BY <1>0, <2>2 DEF Named
  <2>5. mState'[c] = mState[c] \/ mState'[c] = "CONNECTED"
    BY ZenonT(60), <2>1, <2>2 DEF TypeOK
  <2>6. \A d \in Conns \ {c} : mState'[d] = mState[d] /\ mProperClientIdSet'[d] = mProperClientIdSet[d]
    BY ZenonT(60), <2>1 DEF TypeOK
  <2>7. mProperClientIdSet'[c] => mState'[c] = "CONNECTED"
    BY ZenonT(60), <2>1, <2>2, <2>4 DEF TypeOK
  <2>8. LoginOnce'
    BY <1>0, <2>1, <2>4 DEF LoginOnce
  <2>9. Named(mProperClientIdSet', mState')
    BY <1>0, <2>6, <2>7 DEF Named
  <2>10. Waiting(mQueue', mState')
    <3>1. \A i \in DOMAIN mQueue' : mQueue'[i].type = "Login" => mQueue'[i].client \in Conns
      <4>1. mQueue' \in Seq(Requests)
        <5>1. mQueue \in Seq(Requests) /\ mQueue # <<>> /\ mQueue' = Tail(mQueue)
          BY <1>0, <2>1
        <5>. QED
          BY <5>1
      <4>. QED
        BY <1>0, <4>1
    <3>. QED
      BY <2>3, <2>6, <3>1 DEF Waiting
  <2>. QED
    BY <2>3, <2>8, <2>9, <2>10 DEF LoginInv, Unique, Waiting, Named
<1>6. ASSUME NEW c \in Conns, ~mLoggedOut[c], LogoutClient(c)
      PROVE  UNCHANGED <<mState, mProperClientIdSet>> /\ fault' \in {fault, "null client"}
  BY <1>6 DEF LogoutClient, DropCurrentClient
<1>. QED
  <2>1. \/ Calm /\ (QueueKept \/ QueueGrows \/ QueueTaken \/ Connects)
        \/ ExecuteLogin
        \/ /\ QueueKept \/ QueueTaken
           /\ \E c \in Conns : ~mLoggedOut[c] /\ LogoutClient(c)
    BY StepKinds
  <2>. QED
    BY <1>4, <1>5, <1>6, <2>1 DEF Calm

(* A step that is neither a login nor a logout leaves the owner as it is. *)
LEMMA CalmOwner ==
    ASSUME TypeOK, OwnerInv, Calm
    PROVE  OwnerInv'
<1>. USE ConstantsAssumption DEF Calm, linkVars, mapVars, OwnerInv
<1>t. /\ mPersistentClientState \in [Conns -> Conns \cup {Null}]
      /\ mCurrentClient \in [Conns -> Conns \cup {Null}]
      /\ mPersistentClientStates \in Conns \cup {Null}
      /\ mDeletedPersistentClientStates \in SUBSET Conns
      /\ mLoggedOut \in [Conns -> BOOLEAN]
  BY DEF TypeOK
<1>1. MadeInv'
  BY <1>t DEF MadeInv
<1>2. SessionLink'
  BY ZenonT(60), <1>t DEF SessionLink
<1>3. SingleLogin' /\ CleanSessionAttached'
  BY <1>t DEF SingleLogin, CleanSessionAttached
<1>4. StaleOnlyAfterLogout'
  BY DEF StaleOnlyAfterLogout
<1>. QED
  BY <1>1, <1>2, <1>3, <1>4

(* A logout takes the session, if it is the connection's own, and a clean session  *)
(* out of the map.                                                                 *)
LEMMA LogoutOwner ==
    ASSUME TypeOK, OwnerInv, NEW c \in Conns, LogoutClient(c)
    PROVE  OwnerInv'
<1>. USE ConstantsAssumption
<1>. DEFINE o == mPersistentClientState[c]
<1>t. /\ mPersistentClientState \in [Conns -> Conns \cup {Null}]
      /\ mCurrentClient \in [Conns -> Conns \cup {Null}]
      /\ mPersistentClientStates \in Conns \cup {Null}
      /\ mDeletedPersistentClientStates \in SUBSET Conns
      /\ mLoggedOut \in [Conns -> BOOLEAN]
  BY DEF TypeOK
<1>1. /\ mLoggedOut' = [mLoggedOut EXCEPT ![c] = TRUE] /\ UNCHANGED <<mState, mCleanSession, recv>>
  BY DEF LogoutClient
<1>2. \A d \in Conns : mLoggedOut'[d] <=> (d = c \/ mLoggedOut[d])
  BY <1>1 DEF TypeOK
<1>3. CASE o = Null
  <2>1. UNCHANGED <<mPersistentClientState, mCurrentClient, mapVars>>
    BY <1>3 DEF LogoutClient
  <2>2. \A x \in Conns : mCurrentClient[x] # c
    BY <1>t, <1>3 DEF OwnerInv, SessionLink
  <2>3. MadeInv'
    BY <1>1, <2>1 DEF OwnerInv, MadeInv, mapVars
  <2>4. SessionLink'
    <3>1. \A x \in Conns : mCurrentClient[x] # Null => ~mLoggedOut'[mCurrentClient[x]]
      BY <1>t, <1>2, <2>2 DEF OwnerInv, SessionLink
    <3>. QED
      BY <2>1, <3>1 DEF OwnerInv, SessionLink, mapVars
  <2>5. SingleLogin' /\ CleanSessionAttached'
    BY <1>1, <1>2, <2>1 DEF OwnerInv, SingleLogin, CleanSessionAttached, mapVars, TypeOK
  <2>6. StaleOnlyAfterLogout'
    BY <1>1, <1>2, <2>1 DEF OwnerInv, StaleOnlyAfterLogout, TypeOK
  <2>. QED
    BY <2>3, <2>4, <2>5, <2>6 DEF OwnerInv
<1>4. CASE o # Null
  <2>1. o \in Conns /\ mCurrentClient[o] = c /\ mPersistentClientStates = o
    BY <1>t, <1>4 DEF OwnerInv, SessionLink
  <2>2. /\ \A d \in Conns : mPersistentClientState'[d] = IF d = c THEN Null ELSE mPersistentClientState[d]
        /\ \A x \in Conns : mCurrentClient'[x] = IF x = o THEN Null ELSE mCurrentClient[x]
    <3>1. DropCurrentClient(o) /\ mCurrentClient[o] # Null
      BY <1>4, <2>1 DEF LogoutClient
    <3>2. /\ mPersistentClientState' = [mPersistentClientState EXCEPT ![c] = Null]
          /\ mCurrentClient' = [mCurrentClient EXCEPT ![o] = Null]
      BY <2>1, <3>1 DEF DropCurrentClient
    <3>. HIDE DEF o
    <3>. QED
      BY <1>t, <2>1, <3>2
  <2>3. /\ mCleanSession[o] => /\ mPersistentClientStates' = Null
                               /\ mDeletedPersistentClientStates' = mDeletedPersistentClientStates \cup {o}
        /\ ~mCleanSession[o] => UNCHANGED mapVars
    BY <1>4, <2>1 DEF LogoutClient, EraseIfClean
  <2>4. \A x \in Conns : mCurrentClient'[x] = Null /\ (x # o => mCurrentClient[x] = Null)
    BY <2>1, <2>2 DEF OwnerInv, SessionLink
  <2>5. \A d \in Conns : mPersistentClientState'[d] = Null
    <3>1. ASSUME NEW d \in Conns, d # c PROVE mPersistentClientState[d] = Null
      <4>1. ASSUME mPersistentClientState[d] # Null PROVE FALSE
        <5>1. PICK x \in Conns : x = mPersistentClientState[d]
          BY <4>1 DEF TypeOK
        <5>2. mCurrentClient[x] = d
          BY <5>1 DEF OwnerInv, SessionLink
        <5>. QED
          BY <2>1, <2>4, <3>1, <5>2
      <4>. QED
        BY <4>1
    <3>. QED
      BY <2>2, <3>1
  <2>. HIDE DEF o
  <2>6. MadeInv'
    BY <1>1, <2>1, <2>3, <2>5 DEF OwnerInv, MadeInv, mapVars
  <2>7. SessionLink'
    <3>1. \A d, x \in Conns : mPersistentClientState'[d] = x <=> mCurrentClient'[x] = d
      BY <2>4, <2>5
    <3>2. mPersistentClientStates' \notin mDeletedPersistentClientStates'
      BY <1>t, <2>1, <2>3 DEF OwnerInv, SessionLink, mapVars
    <3>. QED
      BY <2>4, <3>1, <3>2 DEF SessionLink
  <2>8. SingleLogin'
    BY <1>1, <1>2, <2>1 DEF OwnerInv, SingleLogin, TypeOK
  <2>9. CleanSessionAttached'
    BY <1>1, <2>1, <2>3 DEF CleanSessionAttached, mapVars
  <2>10. StaleOnlyAfterLogout'
    BY <1>1, <1>2, <2>2 DEF OwnerInv, StaleOnlyAfterLogout, TypeOK
  <2>. QED
    BY <2>6, <2>7, <2>8, <2>9, <2>10 DEF OwnerInv
<1>. QED
  BY <1>3, <1>4

(* A login makes its connection the owner, and logs out the one it takes the       *)
(* session from.                                                                   *)
LEMMA LoginOwner ==
    ASSUME TypeOK, LoginInv, OwnerInv, ExecuteLogin
    PROVE  /\ OwnerInv'
           /\ \A d \in Conns : ~mLoggedOut[d] /\ mLoggedOut'[d] =>
                 \E e \in Conns \ {d} : mPersistentClientState'[e] = mPersistentClientState[d]
           /\ mPersistentClientStates # Null => UNCHANGED mPersistentClientStates
<1>. USE ConstantsAssumption
<1>. DEFINE c == Head(mQueue).client
            clean == Head(mQueue).clean
            o == mPersistentClientStates
<1>t. /\ mPersistentClientState \in [Conns -> Conns \cup {Null}]
      /\ mCurrentClient \in [Conns -> Conns \cup {Null}]
      /\ mPersistentClientStates \in Conns \cup {Null}
      /\ mDeletedPersistentClientStates \in SUBSET Conns
      /\ mLoggedOut \in [Conns -> BOOLEAN]
  BY DEF TypeOK
<1>1. c \in Conns /\ mState[c] = "CONNECTING"
  <2>1. mQueue \in Seq(Requests) /\ mQueue # <<>> /\ Head(mQueue).type = "Login"
    BY DEF TypeOK, ExecuteLogin
  <2>2. 1 \in DOMAIN mQueue /\ Head(mQueue) = mQueue[1] /\ mQueue[1] \in Requests
    BY <2>1
  <2>3. c \in Conns
    BY <2>1, <2>2 DEF Requests
  <2>. QED
    BY <2>1, <2>2, <2>3 DEF LoginInv
<1>2. UNCHANGED recv
  BY DEF ExecuteLogin
<1>3. CASE mLoggedOut[c]
  <2>1. UNCHANGED <<mState, mLoggedOut, mPersistentClientState, linkVars, mapVars>>
    BY <1>3 DEF ExecuteLogin
  <2>2. MadeInv' /\ SessionLink' /\ SingleLogin' /\ CleanSessionAttached' /\ StaleOnlyAfterLogout'
    BY <1>2, <2>1 DEF OwnerInv, MadeInv, SessionLink, SingleLogin, CleanSessionAttached,
                      StaleOnlyAfterLogout, linkVars, mapVars
  <2>. QED
    BY <2>1, <2>2 DEF OwnerInv, mapVars
<1>4. CASE ~mLoggedOut[c]
  \* the session object that c gets, and what happens to the others
  <2>. DEFINE x == IF o = Null THEN c ELSE o
  <2>1. x \in Conns /\ mState'[c] = "CONNECTED" /\ \A d \in Conns \ {c} : mState'[d] = mState[d]
    BY ZenonT(60), <1>1, <1>4 DEF ExecuteLogin, TypeOK
  <2>2. /\ mPersistentClientState[c] = Null /\ \A y \in Conns : mCurrentClient[y] # c
        /\ mPersistentClientStates # c /\ c \notin mDeletedPersistentClientStates
    <3>1. /\ mPersistentClientState[c] = Null
          /\ mPersistentClientStates # c /\ c \notin mDeletedPersistentClientStates
      BY <1>t, <1>1 DEF OwnerInv, MadeInv
    <3>. QED
      BY <1>1, <3>1 DEF OwnerInv, SessionLink
  <2>3. \A y \in Conns : y # o => mCurrentClient[y] = Null
    BY DEF OwnerInv, SessionLink
  <2>4. o = Null => mCurrentClient[x] = Null
    BY <1>1, <2>3
  <2>5. \E b \in BOOLEAN : ReplaceCurrentClient(x, c, b)
    <3>1. clean \in BOOLEAN
      <4>1. mQueue \in Seq(Requests) /\ mQueue # <<>> /\ Head(mQueue).type = "Login"
        BY DEF TypeOK, ExecuteLogin
      <4>2. Head(mQueue) \in Requests
        BY <4>1
      <4>. QED
        BY <4>1, <4>2 DEF Requests
    <3>. QED
      BY <1>4, <3>1 DEF ExecuteLogin, LoginNewSession, LoginCleanSession, LoginResumeSession
  <2>6. /\ mPersistentClientStates' = x /\ UNCHANGED mDeletedPersistentClientStates
    BY <1>4 DEF ExecuteLogin, LoginNewSession, LoginCleanSession, LoginResumeSession, mapVars
  <2>7. \A d \in Conns : mLoggedOut'[d] <=> (mLoggedOut[d] \/ d = mCurrentClient[x])
    <3>1. CASE o = Null
      <4>1. UNCHANGED mLoggedOut
        BY <1>4, <3>1 DEF ExecuteLogin, LoginNewSession
      <4>. QED
        BY <2>4, <3>1, <4>1
    <3>2. CASE o # Null
      <4>1. LogoutReplaced(o)
        BY <1>4, <3>2 DEF ExecuteLogin, LoginCleanSession, LoginResumeSession
      <4>. QED
        BY <3>2, <4>1 DEF LogoutReplaced, TypeOK
    <3>. QED
      BY <3>1, <3>2
  <2>. HIDE DEF x, c, o, clean
  <2>8. /\ \A d \in Conns : mPersistentClientState'[d] =
               IF d = c THEN x ELSE IF d = mCurrentClient[x] THEN Null ELSE mPersistentClientState[d]
        /\ mCurrentClient'[x] = c /\ \A y \in Conns \ {x} : mCurrentClient'[y] = mCurrentClient[y]
    BY ZenonT(60), <1>t, <2>1, <2>5 DEF ReplaceCurrentClient
  <2>9. \A y \in Conns \ {x} : mCurrentClient[y] = Null
    BY <2>3 DEF x
  <2>10. \A d \in Conns \ {c} : mPersistentClientState'[d] = Null
    <3>1. ASSUME NEW d \in Conns, d # c, mPersistentClientState[d] # Null PROVE d = mCurrentClient[x]
      <4>1. PICK y \in Conns : y = mPersistentClientState[d]
        BY <3>1 DEF TypeOK
      <4>2. mCurrentClient[y] = d
        BY <4>1 DEF OwnerInv, SessionLink
      <4>. QED
        BY <2>9, <4>2
    <3>. QED
      BY <2>8, <3>1
  <2>11. MadeInv'
    <3>1. \A y \in Conns : x = y \/ y \in mDeletedPersistentClientStates => mState'[y] = "CONNECTED"
      BY <1>1, <2>1 DEF OwnerInv, MadeInv, x, o
    <3>2. \A d \in Conns : mPersistentClientState'[d] # Null => mState'[d] = "CONNECTED"
      BY <2>1, <2>10
    <3>. QED
      BY <2>6, <3>1, <3>2 DEF MadeInv
  <2>12. SessionLink'
    <3>1. \A d, y \in Conns : mPersistentClientState'[d] = y <=> mCurrentClient'[y] = d
      BY <1>1, <2>1, <2>8, <2>9, <2>10
    <3>2. ~mLoggedOut'[c]
      BY <1>1, <1>4, <2>1, <2>2, <2>7 DEF c
    <3>3. x \notin mDeletedPersistentClientStates
      BY <2>2 DEF OwnerInv, SessionLink, x, o
    <3>. QED
      BY <2>6, <2>8, <2>9, <3>1, <3>2, <3>3 DEF SessionLink
  <2>13. SingleLogin'
    <3>1. ASSUME NEW d \in Conns, d # c, mState'[d] = "CONNECTED", ~mLoggedOut'[d] PROVE FALSE
      <4>1. mState[d] = "CONNECTED" /\ ~mLoggedOut[d] /\ d # mCurrentClient[x]
        BY <2>1, <2>7, <3>1
      <4>. QED
        BY <4>1 DEF OwnerInv, SingleLogin, x, o
    <3>. QED
      BY <2>1, <2>6, <2>8, <3>1 DEF SingleLogin
  <2>14. CleanSessionAttached'
    BY <1>1, <2>6, <2>8 DEF CleanSessionAttached
  <2>15. StaleOnlyAfterLogout'
    <3>1. ASSUME NEW d \in Conns, recv[d].state # Null
          PROVE  mPersistentClientState'[d] = recv[d].state \/ mLoggedOut'[d]
      <4>1. CASE mLoggedOut[d]
        BY <2>7, <4>1
      <4>2. CASE ~mLoggedOut[d]
        <5>1. mPersistentClientState[d] = recv[d].state
          BY <3>1, <4>2 DEF OwnerInv, StaleOnlyAfterLogout
        <5>. QED
          BY <2>2, <2>7, <2>8, <3>1, <5>1
      <4>. QED
        BY <4>1, <4>2
    <3>. QED
      BY <1>2, <3>1 DEF StaleOnlyAfterLogout
  <2>16. ASSUME NEW d \in Conns, ~mLoggedOut[d], mLoggedOut'[d]
         PROVE  \E e \in Conns \ {d} : mPersistentClientState'[e] = mPersistentClientState[d]
    <3>1. d = mCurrentClient[x]
      BY <2>7, <2>16
    <3>2. mPersistentClientState[d] = x /\ d # c
      BY <2>1, <2>2, <3>1 DEF OwnerInv, SessionLink
    <3>. QED
      BY <1>1, <2>8, <3>2
  <2>. QED
    BY <2>6, <2>11, <2>12, <2>13, <2>14, <2>15, <2>16 DEF OwnerInv, x, o
<1>. QED
  BY <1>3, <1>4

(* The owner is consistent after every step. *)
LEMMA OwnerStep == Inv /\ [AnyNext]_vars => OwnerInv'
BY StepKinds, CalmOwner, LogoutOwner, LoginOwner DEF Inv

-----------------------------------------------------------------------------
(* The theorems *)

(* Every step preserves the invariant, whatever the peers send. *)
LEMMA StepInv == Inv /\ [AnyNext]_vars => Inv'
BY TypeStep, LoginStep, OwnerStep DEF Inv

(* The invariant holds in every reachable state. *)
THEOREM Invariance == Spec => []Inv
<1>1. Inv /\ [Next]_vars => Inv'
  BY NextAny, StepInv
<1>. QED
  BY InitInv, <1>1, PTL DEF Spec

(* The variables of the session layer keep their types. *)
THEOREM TypeCorrect == Spec => []TypeOK
<1>1. Inv => TypeOK
  BY DEF Inv
<1>. QED
  BY Invariance, <1>1, PTL

(* dropCurrentClient and replaceCurrentClient never leave one half of the link     *)
(* between a connection and its session.                                           *)
THEOREM LinkSound == Spec => []SessionLink
<1>1. Inv => SessionLink
  BY DEF Inv, OwnerInv
<1>. QED
  BY Invariance, <1>1, PTL

(* Whatever the worker and the timer execute in whatever order, at most one        *)
(* connection is logged in for the client id.                                      *)
THEOREM OneLogin == Spec => []SingleLogin
<1>1. Inv => SingleLogin
  BY DEF Inv, OwnerInv
<1>. QED
  BY Invariance, <1>1, PTL

(* logoutClient erases a clean session with its connection. *)
THEOREM CleanSessionEnds == Spec => []CleanSessionAttached
<1>1. Inv => CleanSessionAttached
  BY DEF Inv, OwnerInv
<1>. QED
  BY Invariance, <1>1, PTL

(* The assertion in setClientId holds. *)
THEOREM ClientIdSetOnce == Spec => []LoginOnce
<1>1. Inv => LoginOnce
  BY DEF Inv, LoginInv
<1>. QED
  BY Invariance, <1>1, PTL

(* A handler that holds a session pointer that is not its connection's any more    *)
(* belongs to a connection that is logged out.                                     *)
THEOREM StalePointerLoggedOut == Spec => []StaleOnlyAfterLogout
<1>1. Inv => StaleOnlyAfterLogout
  BY DEF Inv, OwnerInv
<1>. QED
  BY Invariance, <1>1, PTL

(* Whoever ends a logged-in connection publishes its will, unless the session is   *)
(* taken over.                                                                     *)
THEOREM WillSent == Spec => WillPublished
<1>. DEFINE Sent == \A c \in Conns :
         /\ mState[c] = "CONNECTED" /\ ~mLoggedOut[c] /\ mLoggedOut'[c] /\ mWill[c] = "set"
         => \/ mWill'[c] = "moved"
            \/ \E d \in Conns \ {c} : mPersistentClientState'[d] = mPersistentClientState[c]
<1>1. Inv /\ [Next]_vars => [Sent]_vars
  <2>. SUFFICES ASSUME Inv, [Next]_vars, NEW c \in Conns, mState[c] = "CONNECTED", ~mLoggedOut[c],
                       mLoggedOut'[c], mWill[c] = "set"
                PROVE  \/ mWill'[c] = "moved"
                       \/ \E d \in Conns \ {c} : mPersistentClientState'[d] = mPersistentClientState[c]
    OBVIOUS
  <2>1. CASE Calm
    BY <2>1 DEF Calm
  <2>2. CASE ExecuteLogin
    BY <2>2, LoginOwner DEF Inv
  <2>3. CASE \E d \in Conns : LogoutClient(d)
    <3>1. PICK d \in Conns : LogoutClient(d)
      BY <2>3
    <3>2. d = c
      BY <3>1 DEF LogoutClient, Inv, TypeOK
    <3>3. mPersistentClientState[c] # Null
      <4>1. mPersistentClientStates \in Conns /\ mCurrentClient[mPersistentClientStates] = c
        BY DEF Inv, TypeOK, OwnerInv, SingleLogin
      <4>. QED
        BY <4>1, ConstantsAssumption DEF Inv, OwnerInv, SessionLink
    <3>. QED
      BY <3>1, <3>2, <3>3 DEF LogoutClient, PerformWill, Inv, TypeOK
  <2>. QED
    BY <2>1, <2>2, <2>3, NextAny, StepKinds DEF Inv
<1>. QED
  BY Invariance, <1>1, PTL DEF Spec, WillPublished

(* No logout, late or repeated, removes a persistent session. *)
THEOREM SessionKept == Spec => PersistentSessionKept
<1>. DEFINE Kept == mPersistentClientStates # Null /\ ~mCleanSession[mPersistentClientStates]
                      => mPersistentClientStates' = mPersistentClientStates
<1>1. Inv /\ [Next]_vars => [Kept]_vars
  <2>. SUFFICES ASSUME Inv, [Next]_vars PROVE Kept
    OBVIOUS
  <2>1. CASE Calm
    BY <2>1 DEF Calm, mapVars
  <2>2. CASE ExecuteLogin
    BY <2>2, LoginOwner DEF Inv
  <2>3. CASE \E d \in Conns : LogoutClient(d)
    BY <2>3 DEF LogoutClient, EraseIfClean, mapVars
  <2>. QED
    BY <2>1, <2>2, <2>3, NextAny, StepKinds DEF Inv
<1>. QED
  BY Invariance, <1>1, PTL DEF Spec, PersistentSessionKept

=============================================================================
