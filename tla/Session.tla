------------------------------- MODULE Session -------------------------------
(***************************************************************************)
(* The session layer of the broker: what ApplicationState, the receiver    *)
(* threads and PersistentClientState do together for ONE MQTT client id.   *)
(*                                                                         *)
(* Several TCP connections may present the same client id, one after the   *)
(* other or overlapping.  Each is served by a receiver thread, which keeps *)
(* the session pointer it loaded while it handles a packet; logins,        *)
(* logouts and (un)subscriptions travel through mQueue and are executed by *)
(* the worker thread while it holds ApplicationState::mMutex exclusively;  *)
(* publishers hold that mutex shared.  The peers are arbitrary here: any   *)
(* packet of InPackets may arrive on any connection at any time.           *)
(*                                                                         *)
(* Abstractions.  One topic.  A message is the number of the publish that  *)
(* made it, which is also its global order.  All packet ids lie in one     *)
(* machine word of the std::bitset members.  The will is published to, and *)
(* the client itself publishes to, topics the session does not subscribe.  *)
(***************************************************************************)
EXTENDS Integers, Sequences, FiniteSets

CONSTANTS
    Conns,          \* TCP connections, each used for one CONNECT
    Null,           \* nullptr
    MaxPacketId,    \* stands for 65535: packet ids are 1..MaxPacketId
    MaxPublish,     \* bound on the number of messages published to the topic
    QueueCapacity,  \* stands for the 4096 slots of mQueue
    CleanChoices,   \* the clean-session flags CONNECT packets may carry
    WillChoices,    \* whether CONNECT packets may carry a will
    PublishQoS,     \* the QoS levels of published messages
    RetainedQoS,    \* QoS of the message retained on the topic, NoSub if none
    InPackets       \* what peers may send after CONNECT

NoSub == -1
QoS == 0..2
Ids == 1..MaxPacketId
BitIds == 0..MaxPacketId     \* a peer may name id 0, the broker never uses it
PacketTypes == {"PUBLISH", "PUBACK", "PUBREC", "PUBREL", "PUBCOMP", "SUBSCRIBE", "SUBACK",
                "UNSUBSCRIBE", "UNSUBACK", "PINGREQ", "PINGRESP", "DISCONNECT", "CONNECT", "CONNACK"}

\* flag is the dup flag of a PUBLISH, the session present flag of a CONNACK
Packet(type, id, msg, qos, flag) ==
    [type |-> type, id |-> id, msg |-> msg, qos |-> qos, flag |-> flag]
Packets == [type: PacketTypes, id: 0..MaxPacketId, msg: 0..MaxPublish, qos: QoS, flag: BOOLEAN]
Control(type, id) == Packet(type, id, 0, 0, FALSE)
NoPkt == Control("PINGREQ", 0)

\* A slot of mHighQoSSendingPackets; message 0 means that the id is free
Slots == [msg: 0..MaxPublish, qos: QoS]
Free == [msg |-> 0, qos |-> 0]

ASSUME ConstantsAssumption ==
    /\ Null \notin Conns
    /\ MaxPacketId \in Nat \ {0, 1}
    /\ MaxPublish \in Nat
    /\ QueueCapacity \in Nat \ {0}
    /\ CleanChoices \subseteq BOOLEAN
    /\ WillChoices \subseteq BOOLEAN
    /\ PublishQoS \subseteq QoS
    /\ RetainedQoS \in QoS \cup {NoSub}
    /\ InPackets \subseteq Packets

VARIABLES
    \* MQTTClientConnection
    mState,                     \* connection state; "NONE" before accept
    mLoggedOut,
    mPersistentClientState,     \* the connection's session, or Null
    mProperClientIdSet,
    mWill,                      \* "none", "set" or "moved" (published)
    mSendTasks,                 \* packets on their way to a peer that reads them
    reading,                    \* connections whose peer reads; none as long as the
                                \* peers are arbitrary
    \* PersistentClientState objects, named by the connection whose login made them
    mCurrentClient, mCleanSession, mHighQoSSendingPackets,
    mQos2pubrecReceived, mQoS2receivingPacketIds, mPacketIdCounter,
    \* ApplicationState
    mQueue,
    mPersistentClientStates,            \* the map's entry for the client id, or Null
    mDeletedPersistentClientStates,
    mSubscriptions,                     \* QoS of each session object's subscription
    mGlobalOrderCount,
    \* handlePacketReceived in progress, per connection (serialised by mRecvMutex)
    recv,
    \* an undefined operation that was reached, "none" as long as there is none; what
    \* the model does after it means nothing
    fault

connVars == <<mState, mLoggedOut, mPersistentClientState, mProperClientIdSet, mWill>>
linkVars == <<mCurrentClient, mCleanSession>>
flightVars == <<mHighQoSSendingPackets, mQos2pubrecReceived, mQoS2receivingPacketIds,
                mPacketIdCounter>>
mapVars == <<mPersistentClientStates, mDeletedPersistentClientStates>>
appVars == <<mapVars, mSubscriptions, mGlobalOrderCount>>
vars == <<connVars, mSendTasks, reading, linkVars, flightVars, mQueue, appVars, recv, fault>>

Idle == [pc |-> "idle", packet |-> NoPkt, state |-> Null, word |-> {}]

Requests ==
    [type: {"Login"}, client: Conns, clean: BOOLEAN]
    \cup [type: {"Logout"}, client: Conns]
    \cup [type: {"Subscribe"}, state: Conns, qos: QoS]
    \cup [type: {"Unsubscribe"}, state: Conns]

(* What every variable may hold. *)
TypeOK ==
    /\ mState \in [Conns -> {"NONE", "INITIAL", "CONNECTING", "CONNECTED",
                            "INVALID_PROTOCOL_VERSION"}]
    /\ mLoggedOut \in [Conns -> BOOLEAN]
    /\ mPersistentClientState \in [Conns -> Conns \cup {Null}]
    /\ mProperClientIdSet \in [Conns -> BOOLEAN]
    /\ mWill \in [Conns -> {"none", "set", "moved"}]
    /\ mSendTasks \in [Conns -> Seq(Packets)]
    /\ reading \subseteq Conns
    /\ mCurrentClient \in [Conns -> Conns \cup {Null}]
    /\ mCleanSession \in [Conns -> BOOLEAN]
    /\ mHighQoSSendingPackets \in [Conns -> [Ids -> Slots]]
    /\ mQos2pubrecReceived \in [Conns -> SUBSET BitIds]
    /\ mQoS2receivingPacketIds \in [Conns -> SUBSET BitIds]
    /\ mPacketIdCounter \in [Conns -> Ids]
    /\ mQueue \in Seq(Requests)
    /\ mPersistentClientStates \in Conns \cup {Null}
    /\ mDeletedPersistentClientStates \in SUBSET Conns
    /\ mSubscriptions \in [Conns -> QoS \cup {NoSub}]
    /\ mGlobalOrderCount \in 0..MaxPublish
    /\ recv \in [Conns -> [pc: {"idle", "apply", "store", "storeLocked", "forward"},
                           packet: Packets, state: Conns \cup {Null}, word: SUBSET BitIds]]
    /\ fault \in {"none", "null client", "client id set twice"}

Init ==
    /\ mState = [c \in Conns |-> "NONE"]
    /\ mLoggedOut = [c \in Conns |-> FALSE]
    /\ mPersistentClientState = [c \in Conns |-> Null]
    /\ mProperClientIdSet = [c \in Conns |-> FALSE]
    /\ mWill = [c \in Conns |-> "none"]
    /\ mSendTasks = [c \in Conns |-> <<>>]
    /\ reading = {}
    /\ mCurrentClient = [o \in Conns |-> Null]
    /\ mCleanSession = [o \in Conns |-> TRUE]
    /\ mHighQoSSendingPackets = [o \in Conns |-> [i \in Ids |-> Free]]
    /\ mQos2pubrecReceived = [o \in Conns |-> {}]
    /\ mQoS2receivingPacketIds = [o \in Conns |-> {}]
    /\ mPacketIdCounter = [o \in Conns |-> 1]
    /\ mQueue = <<>>
    /\ mPersistentClientStates = Null
    /\ mDeletedPersistentClientStates = {}
    /\ mSubscriptions = [o \in Conns |-> NoSub]
    /\ mGlobalOrderCount = 0
    /\ recv = [c \in Conns |-> Idle]
    /\ fault = "none"

-----------------------------------------------------------------------------
(* Helpers *)

MinQoS(a, b) == IF a < b THEN a ELSE b

\* PersistentClientState::mMutex is held across the two halves of a bitset update
Locked(o) == \E c \in Conns : recv[c].pc = "storeLocked" /\ recv[c].state = o

BugUsesZero(n) == (n + 1) % (MaxPacketId + 1)

\* mPacketIdCounter += 1 on a uint16_t, repeated when it wrapped to 0
NextPacketId(n) == IF n = MaxPacketId THEN 1 ELSE n + 1

\* sendData: packets leave a connection in the order of the calls
Send(c, packets) ==
    mSendTasks' = [mSendTasks EXCEPT ![c] = IF c \in reading THEN @ \o packets ELSE @]

\* requestChange(..., ASYNC) by a thread that does not hold mMutex: mQueue.push
\* waits while the queue is full
RequestChange(req) ==
    /\ Len(mQueue) < QueueCapacity
    /\ mQueue' = Append(mQueue, req)

LoginRequest(c, clean) == [type |-> "Login", client |-> c, clean |-> clean]
LogoutRequest(c) == [type |-> "Logout", client |-> c]
SubscribeRequest(o, qos) == [type |-> "Subscribe", state |-> o, qos |-> qos]
UnsubscribeRequest(o) == [type |-> "Unsubscribe", state |-> o]

\* The sequences that list the elements of S once each, in ascending order of key
Ascending(S, key) ==
    {s \in UNION {[1..n -> S] : n \in 0..Cardinality(S)} :
        /\ \A e \in S : \E i \in DOMAIN s : s[i] = e
        /\ \A i, j \in DOMAIN s : i < j => key[s[i]] < key[s[j]]}

-----------------------------------------------------------------------------
(* Connections and the receiver threads *)

\* handleNewClientConnection
AcceptConnection(c) ==
    /\ mState[c] = "NONE"
    /\ mState' = [mState EXCEPT ![c] = "INITIAL"]
    /\ UNCHANGED <<mLoggedOut, mPersistentClientState, mProperClientIdSet, mWill, mSendTasks,
                   linkVars, flightVars, mQueue, appVars, recv, fault, reading>>

BugStaysInitial(c, clean, will) ==
    /\ mState[c] = "INITIAL" /\ recv[c] = Idle
    /\ RequestChange(LoginRequest(c, clean))
    /\ UNCHANGED <<connVars, mSendTasks, linkVars, flightVars, appVars, recv, fault, reading>>

\* CONNECT, the only packet allowed in state INITIAL
RecvConnect(c, clean, will) ==
    /\ mState[c] = "INITIAL"
    /\ recv[c] = Idle
    /\ mWill' = [mWill EXCEPT ![c] = IF will THEN "set" ELSE @]
    /\ mState' = [mState EXCEPT ![c] = "CONNECTING"]
    /\ RequestChange(LoginRequest(c, clean))
    /\ UNCHANGED <<mLoggedOut, mPersistentClientState, mProperClientIdSet, mSendTasks,
                   linkVars, flightVars, appVars, recv, fault, reading>>

\* CONNECT with an unknown protocol level: it is answered, and what follows ignored
RecvConnectInvalidVersion(c) ==
    /\ mState[c] = "INITIAL"
    /\ recv[c] = Idle
    /\ mState' = [mState EXCEPT ![c] = "INVALID_PROTOCOL_VERSION"]
    /\ Send(c, <<Packet("CONNACK", 0, 0, 0, FALSE)>>)
    /\ UNCHANGED <<mLoggedOut, mPersistentClientState, mProperClientIdSet, mWill,
                   linkVars, flightVars, mQueue, appVars, recv, fault, reading>>

\* CONNECT that turns out to be malformed behind the will, which was stored by then
RecvConnectMalformed(c) ==
    /\ mState[c] = "INITIAL"
    /\ recv[c] = Idle
    /\ TRUE \in WillChoices
    /\ mWill' = [mWill EXCEPT ![c] = "set"]
    /\ RequestChange(LogoutRequest(c))
    /\ UNCHANGED <<mState, mLoggedOut, mPersistentClientState, mProperClientIdSet, mSendTasks,
                   linkVars, flightVars, appVars, recv, fault, reading>>

\* A handler runs in state CONNECTED, and also in state CONNECTING: packets held
\* back during the login are handled as soon as the socket becomes readable again.
\* A connection that was logged out still finishes the packets already read.
MayHandle(c) == mState[c] \in {"CONNECTING", "CONNECTED"} /\ recv[c] = Idle

\* An exception in the receiver: connection lost, or a protocol violation
RecvError(c) ==
    /\ mState[c] # "NONE"
    /\ recv[c] = Idle
    /\ RequestChange(LogoutRequest(c))
    /\ UNCHANGED <<connVars, mSendTasks, linkVars, flightVars, appVars, recv, fault, reading>>

\* DISCONNECT: the will is discarded, then CleanDisconnectException
RecvDisconnect(c) ==
    /\ MayHandle(c)
    /\ \E p \in InPackets : p.type = "DISCONNECT"
    /\ mWill' = [mWill EXCEPT ![c] = "none"]
    /\ RequestChange(LogoutRequest(c))
    /\ UNCHANGED <<mState, mLoggedOut, mPersistentClientState, mProperClientIdSet, mSendTasks,
                   linkVars, flightVars, appVars, recv, fault, reading>>

RecvPing(c) ==
    /\ MayHandle(c)
    /\ \E p \in InPackets : p.type = "PINGREQ"
    /\ Send(c, <<Control("PINGRESP", 0)>>)
    /\ UNCHANGED <<connVars, linkVars, flightVars, mQueue, appVars, recv, fault, reading>>

\* PUBLISH with QoS 0 or 1: PUBACK first, then app.publish (step Forward)
RecvPublishLowQoS(c, p) ==
    /\ MayHandle(c)
    /\ p.type = "PUBLISH" /\ p.qos < 2
    /\ Send(c, IF p.qos = 1 THEN <<Control("PUBACK", p.id)>> ELSE <<>>)
    /\ recv' = [recv EXCEPT ![c] = [Idle EXCEPT !.pc = "forward", !.packet = p]]
    /\ UNCHANGED <<connVars, linkVars, flightVars, mQueue, appVars, fault, reading>>

NeedsSession(p) ==
    \/ p.type \in {"PUBACK", "PUBREC", "PUBREL", "PUBCOMP", "SUBSCRIBE", "UNSUBSCRIBE"}
    \/ p.type = "PUBLISH" /\ p.qos = 2

\* The other packets start with client.getPersistentClientState(): without a
\* session the receiver throws "Persistent state lost!", else it keeps the pointer
LoadSession(c, p) ==
    /\ MayHandle(c)
    /\ NeedsSession(p)
    /\ IF mPersistentClientState[c] = Null
         THEN RequestChange(LogoutRequest(c)) /\ UNCHANGED recv
         ELSE /\ recv' = [recv EXCEPT ![c] = [pc |-> "apply", packet |-> p,
                                              state |-> mPersistentClientState[c], word |-> {}]]
              /\ UNCHANGED mQueue
    /\ UNCHANGED <<connVars, mSendTasks, linkVars, flightVars, appVars, fault, reading>>

\* The handler of connection c is about to apply a packet of this type to session o
Applies(c, o, type) == recv[c].pc = "apply" /\ recv[c].packet.type = type /\ recv[c].state = o

BugEraseNothing(o, id) == UNCHANGED mHighQoSSendingPackets

\* mHighQoSSendingPackets.erase(id)
Erase(o, id) ==
    mHighQoSSendingPackets' = [mHighQoSSendingPackets EXCEPT ![o] =
        [i \in Ids |-> IF i = id THEN Free ELSE @[i]]]

\* PUBACK erases whatever is in flight under the id, under the session's lock
HandlePuback(c, o) ==
    /\ Applies(c, o, "PUBACK")
    /\ ~Locked(o)
    /\ Erase(o, recv[c].packet.id)
    /\ recv' = [recv EXCEPT ![c] = Idle]
    /\ UNCHANGED <<connVars, mSendTasks, linkVars, mQos2pubrecReceived, mQoS2receivingPacketIds,
                   mPacketIdCounter, mQueue, appVars, fault, reading>>

\* PUBREC erases the message and reads the word of the bitset it is going to set a
\* bit of; the lock stays held up to the write only if the id was found
HandlePubrec(c, o) ==
    /\ Applies(c, o, "PUBREC")
    /\ ~Locked(o)
    /\ Erase(o, recv[c].packet.id)
    /\ recv' = [recv EXCEPT ![c].word = mQos2pubrecReceived[o],
                            ![c].pc = IF \E i \in Ids : /\ i = recv[c].packet.id
                                                       /\ mHighQoSSendingPackets[o][i] # Free
                                      THEN "storeLocked" ELSE "store"]
    /\ UNCHANGED <<connVars, mSendTasks, linkVars, mQos2pubrecReceived, mQoS2receivingPacketIds,
                   mPacketIdCounter, mQueue, appVars, fault, reading>>

\* PUBCOMP reads the word without taking the session's lock
HandlePubcomp(c, o) ==
    /\ Applies(c, o, "PUBCOMP")
    /\ recv' = [recv EXCEPT ![c].word = mQos2pubrecReceived[o], ![c].pc = "store"]
    /\ UNCHANGED <<connVars, mSendTasks, linkVars, flightVars, mQueue, appVars, fault, reading>>

\* The write of mQos2pubrecReceived[id], then PUBREL in answer to PUBREC
StorePubrecBit(c, o) ==
    /\ recv[c].pc \in {"store", "storeLocked"} /\ recv[c].state = o
    /\ IF recv[c].packet.type = "PUBREC"
         THEN /\ mQos2pubrecReceived' =
                   [mQos2pubrecReceived EXCEPT ![o] = recv[c].word \cup {recv[c].packet.id}]
              /\ Send(c, <<Control("PUBREL", recv[c].packet.id)>>)
         ELSE /\ mQos2pubrecReceived' =
                   [mQos2pubrecReceived EXCEPT ![o] = recv[c].word \ {recv[c].packet.id}]
              /\ UNCHANGED mSendTasks
    /\ recv' = [recv EXCEPT ![c] = Idle]
    /\ UNCHANGED <<connVars, linkVars, mHighQoSSendingPackets, mQoS2receivingPacketIds,
                   mPacketIdCounter, mQueue, appVars, fault, reading>>

BugMarkThenTest(c, o) ==
    /\ Applies(c, o, "PUBLISH") /\ ~Locked(o)
    /\ mQoS2receivingPacketIds' =
            [mQoS2receivingPacketIds EXCEPT ![o] = @ \cup {recv[c].packet.id}]
    /\ Send(c, <<Control("PUBREC", recv[c].packet.id)>>)
    /\ recv' = [recv EXCEPT ![c] = Idle]
    /\ UNCHANGED <<connVars, linkVars, mHighQoSSendingPackets, mQos2pubrecReceived,
                   mPacketIdCounter, mQueue, appVars, fault, reading>>

\* PUBLISH with QoS 2: delivered onward unless the id is already marked
HandlePublishQoS2(c, o) ==
    LET id == recv[c].packet.id IN
    /\ Applies(c, o, "PUBLISH")
    /\ ~Locked(o)
    /\ mQoS2receivingPacketIds' = [mQoS2receivingPacketIds EXCEPT ![o] = @ \cup {id}]
    /\ Send(c, <<Control("PUBREC", id)>>)
    /\ recv' = [recv EXCEPT ![c] = IF id \in mQoS2receivingPacketIds[o] THEN Idle
                                   ELSE [Idle EXCEPT !.pc = "forward", !.packet = recv[c].packet]]
    /\ UNCHANGED <<connVars, linkVars, mHighQoSSendingPackets, mQos2pubrecReceived,
                   mPacketIdCounter, mQueue, appVars, fault, reading>>

\* app.publish of a message the client sent
Forward(c) ==
    /\ recv[c].pc = "forward"
    /\ recv' = [recv EXCEPT ![c] = Idle]
    /\ UNCHANGED <<connVars, mSendTasks, linkVars, flightVars, mQueue, appVars, fault, reading>>

BugKeepMark(c, o) ==
    /\ Applies(c, o, "PUBREL") /\ ~Locked(o)
    /\ Send(c, <<Control("PUBCOMP", recv[c].packet.id)>>)
    /\ recv' = [recv EXCEPT ![c] = Idle]
    /\ UNCHANGED <<connVars, linkVars, flightVars, mQueue, appVars, fault, reading>>

HandlePubrel(c, o) ==
    /\ Applies(c, o, "PUBREL")
    /\ ~Locked(o)
    /\ mQoS2receivingPacketIds' =
            [mQoS2receivingPacketIds EXCEPT ![o] = @ \ {recv[c].packet.id}]
    /\ Send(c, <<Control("PUBCOMP", recv[c].packet.id)>>)
    /\ recv' = [recv EXCEPT ![c] = Idle]
    /\ UNCHANGED <<connVars, linkVars, mHighQoSSendingPackets, mQos2pubrecReceived,
                   mPacketIdCounter, mQueue, appVars, fault, reading>>

\* SUBSCRIBE and UNSUBSCRIBE, here with one topic each, only enqueue; the answer is
\* sent at once
HandleSubscribe(c, o) ==
    /\ Applies(c, o, "SUBSCRIBE")
    /\ RequestChange(SubscribeRequest(o, recv[c].packet.qos))
    /\ Send(c, <<Control("SUBACK", recv[c].packet.id)>>)
    /\ recv' = [recv EXCEPT ![c] = Idle]
    /\ UNCHANGED <<connVars, linkVars, flightVars, appVars, fault, reading>>

HandleUnsubscribe(c, o) ==
    /\ Applies(c, o, "UNSUBSCRIBE")
    /\ RequestChange(UnsubscribeRequest(o))
    /\ Send(c, <<Control("UNSUBACK", recv[c].packet.id)>>)
    /\ recv' = [recv EXCEPT ![c] = Idle]
    /\ UNCHANGED <<connVars, linkVars, flightVars, appVars, fault, reading>>

-----------------------------------------------------------------------------
(* The worker thread: requests, executed under the exclusive mMutex *)

BugKeepOldPointer(o, c, clean) ==
    /\ mPersistentClientState' = [mPersistentClientState EXCEPT ![c] = o]
    /\ mCurrentClient' = [mCurrentClient EXCEPT ![o] = c]
    /\ mCleanSession' = [mCleanSession EXCEPT ![o] = clean]
    /\ mProperClientIdSet' = [mProperClientIdSet EXCEPT ![c] = TRUE]
    /\ UNCHANGED fault

\* PersistentClientState::replaceCurrentClient; setClientId asserts that it is
\* called once per connection
ReplaceCurrentClient(o, c, clean) ==
    /\ mPersistentClientState' = [x \in Conns |-> IF x = c THEN o
                                                  ELSE IF x = mCurrentClient[o] THEN Null
                                                  ELSE mPersistentClientState[x]]
    /\ mCurrentClient' = [mCurrentClient EXCEPT ![o] = c]
    /\ mCleanSession' = [mCleanSession EXCEPT ![o] = clean]
    /\ mProperClientIdSet' = [mProperClientIdSet EXCEPT ![c] = TRUE]
    /\ fault' = IF mProperClientIdSet[c] THEN "client id set twice" ELSE fault

\* ReplaceStyle::CleanSession
ResetSession(o) ==
    /\ mHighQoSSendingPackets' = [mHighQoSSendingPackets EXCEPT ![o] = [i \in Ids |-> Free]]
    /\ mQos2pubrecReceived' = [mQos2pubrecReceived EXCEPT ![o] = {}]
    /\ mQoS2receivingPacketIds' = [mQoS2receivingPacketIds EXCEPT ![o] = {}]
    /\ mPacketIdCounter' = [mPacketIdCounter EXCEPT ![o] = 1]

BugNoTakeover(o) == UNCHANGED mLoggedOut

\* logoutClient(*existingClient): replaceCurrentClient has already taken its
\* session away, so that only the connection's own flag changes
LogoutReplaced(o) ==
    mLoggedOut' = [x \in Conns |-> mLoggedOut[x] \/ x = mCurrentClient[o]]

\* No session exists for the client id
LoginNewSession(c, clean) ==
    /\ mPersistentClientStates' = c
    /\ ReplaceCurrentClient(c, c, clean)
    /\ ResetSession(c)
    /\ Send(c, <<Packet("CONNACK", 0, 0, 0, FALSE)>>)
    /\ UNCHANGED <<mLoggedOut, mDeletedPersistentClientStates>>

\* The session exists, and the old or the new login is a clean one: the object is
\* emptied and reused
LoginCleanSession(c, clean, o) ==
    /\ ReplaceCurrentClient(o, c, clean)
    /\ ResetSession(o)
    /\ LogoutReplaced(o)
    /\ Send(c, <<Packet("CONNACK", 0, 0, 0, FALSE)>>)
    /\ UNCHANGED mapVars

BugNothingInFlight(o) == {}

\* The packets to be resent
InFlight(o) == {i \in Ids : mHighQoSSendingPackets[o][i] # Free}

\* The loop over mQos2pubrecReceived runs from 0 to its count()
PubrelsResent(o) ==
    {i \in mQos2pubrecReceived[o] : i < Cardinality(mQos2pubrecReceived[o])}

BugResendById(o, id) == -id

\* HighQoSRetainStorage::getGlobalOrder, by which they are sorted
GlobalOrder(o, id) == mHighQoSSendingPackets[o][id].msg

\* The session is resumed: CONNACK, what is in flight in global order, PUBRELs
LoginResumeSession(c, o) ==
    /\ ReplaceCurrentClient(o, c, FALSE)
    /\ LogoutReplaced(o)
    /\ \E ids \in Ascending(InFlight(o), [i \in Ids |-> GlobalOrder(o, i)]),
         rels \in Ascending(PubrelsResent(o), [i \in BitIds |-> i]) :
         Send(c, <<Packet("CONNACK", 0, 0, 0, TRUE)>>
                  \o [k \in 1..Len(ids) |->
                        Packet("PUBLISH", ids[k], mHighQoSSendingPackets[o][ids[k]].msg,
                               mHighQoSSendingPackets[o][ids[k]].qos, TRUE)]
                  \o [k \in 1..Len(rels) |-> Control("PUBREL", rels[k])])
    /\ UNCHANGED <<mapVars, flightVars>>

\* operator()(ChangeRequestLoginClient&&), under mMutex.  Receivers load the session
\* pointer without it: between dropCurrentClient and the end of logoutClient the old
\* connection is detached and not yet logged out.  The step leaves that moment out, so
\* that what is said of detached connections is said of states with mMutex free.
ExecuteLogin ==
    /\ mQueue # <<>> /\ Head(mQueue).type = "Login"
    /\ mQueue' = Tail(mQueue)
    /\ LET c == Head(mQueue).client
           clean == Head(mQueue).clean
           o == mPersistentClientStates
       IN IF mLoggedOut[c]
          THEN UNCHANGED <<mState, mLoggedOut, mPersistentClientState, mProperClientIdSet,
                           mSendTasks, linkVars, flightVars, mapVars, fault>>
          ELSE /\ mState' = [mState EXCEPT ![c] = "CONNECTED"]
               /\ ~Locked(o)
               /\ \/ o = Null /\ LoginNewSession(c, clean)
                  \/ o # Null /\ (clean \/ mCleanSession[o]) /\ LoginCleanSession(c, clean, o)
                  \/ o # Null /\ ~(clean \/ mCleanSession[o]) /\ LoginResumeSession(c, o)
    /\ UNCHANGED <<mWill, mSubscriptions, mGlobalOrderCount, recv, reading>>

\* PersistentClientState::dropCurrentClient goes through mCurrentClient
DropCurrentClient(o) ==
    IF mCurrentClient[o] = Null
    THEN fault' = "null client" /\ UNCHANGED <<mPersistentClientState, mCurrentClient>>
    ELSE /\ mPersistentClientState' = [mPersistentClientState EXCEPT ![mCurrentClient[o]] = Null]
         /\ mCurrentClient' = [mCurrentClient EXCEPT ![o] = Null]
         /\ UNCHANGED fault

BugNeverErase(o) == UNCHANGED <<mSubscriptions, mapVars>>

BugAlwaysErase(o) ==
    /\ mSubscriptions' = [mSubscriptions EXCEPT ![o] = NoSub]
    /\ mDeletedPersistentClientStates' = mDeletedPersistentClientStates \cup {o}
    /\ mPersistentClientStates' = Null

\* The state of a clean session dies with its connection
EraseIfClean(o) ==
    IF mCleanSession[o] /\ mPersistentClientStates = o
    THEN /\ mSubscriptions' = [mSubscriptions EXCEPT ![o] = NoSub]
         /\ mDeletedPersistentClientStates' = mDeletedPersistentClientStates \cup {o}
         /\ mPersistentClientStates' = Null
    ELSE UNCHANGED <<mSubscriptions, mapVars>>

BugWillOfCleanOnly(c, o) ==
    mWill' = [mWill EXCEPT ![c] = IF @ = "set" /\ mCleanSession[o] THEN "moved" ELSE @]

\* moveWill_NO_LOCK, and publishInternal of what it returned
PerformWill(c, o) == mWill' = [mWill EXCEPT ![c] = IF @ = "set" THEN "moved" ELSE @]

\* logoutClient, for a connection that is not logged out
LogoutClient(c) ==
    LET o == mPersistentClientState[c] IN
    /\ mLoggedOut' = [mLoggedOut EXCEPT ![c] = TRUE]
    /\ IF o = Null
         THEN UNCHANGED <<mWill, mPersistentClientState, mCurrentClient, mSubscriptions, mapVars,
                          fault>>
         ELSE /\ ~Locked(o)
              /\ PerformWill(c, o)
              /\ DropCurrentClient(o)
              /\ EraseIfClean(o)
    /\ UNCHANGED <<mState, mProperClientIdSet, mSendTasks, mCleanSession, flightVars,
                   mGlobalOrderCount, recv, reading>>

\* operator()(ChangeRequestLogoutClient&&)
ExecuteLogout ==
    /\ mQueue # <<>> /\ Head(mQueue).type = "Logout"
    /\ mQueue' = Tail(mQueue)
    /\ IF mLoggedOut[Head(mQueue).client]
         THEN UNCHANGED <<connVars, mSendTasks, linkVars, flightVars, appVars, recv, fault, reading>>
         ELSE LogoutClient(Head(mQueue).client)

\* cleanup: the keep-alive interval of a connection has run out twice
TimeoutLogout(c) ==
    /\ mState[c] # "NONE" /\ ~mLoggedOut[c]
    /\ LogoutClient(c)
    /\ UNCHANGED mQueue

\* processInternalQueue: sendData has failed on a connection
SendErrorLogout(c) ==
    /\ mState[c] \notin {"NONE", "INITIAL"} /\ ~mLoggedOut[c]
    /\ LogoutClient(c)
    /\ UNCHANGED mQueue

BugStoreOffline(o, id, slot) ==
    IF mCurrentClient[o] = Null THEN [mHighQoSSendingPackets[o] EXCEPT ![id] = slot]
                                ELSE mHighQoSSendingPackets[o]

\* mHighQoSSendingPackets.emplace: an id that is still in use keeps its message
Emplace(o, id, slot) ==
    [i \in Ids |-> IF i = id /\ mHighQoSSendingPackets[o][i] = Free
                   THEN slot ELSE mHighQoSSendingPackets[o][i]]

\* Only the branch for QoS 0 goes through mCurrentClient without a test
DereferencesNull(subs, q) == \E o \in subs : q[o] = 0 /\ mCurrentClient[o] = Null

\* The packet of message m for session object o
PublishPacketFor(o, m, qos) ==
    Packet("PUBLISH", IF qos > 0 THEN NextPacketId(mPacketIdCounter[o]) ELSE 0, m, qos, FALSE)

\* PersistentClientState::publish of message m to the objects in subs, with QoS q[o]
Deliver(subs, q, m) ==
    /\ mGlobalOrderCount < MaxPublish
    /\ mGlobalOrderCount' = m
    /\ \A o \in subs : ~Locked(o)
    /\ IF DereferencesNull(subs, q)
       THEN /\ fault' = "null client"
            /\ UNCHANGED <<mHighQoSSendingPackets, mPacketIdCounter, mSendTasks>>
       ELSE /\ mPacketIdCounter' =
                 [o \in Conns |-> IF o \in subs /\ q[o] > 0
                                  THEN NextPacketId(mPacketIdCounter[o]) ELSE mPacketIdCounter[o]]
            /\ mHighQoSSendingPackets' =
                 [o \in Conns |-> IF o \in subs /\ q[o] > 0
                                  THEN Emplace(o, NextPacketId(mPacketIdCounter[o]),
                                               [msg |-> m, qos |-> q[o]])
                                  ELSE mHighQoSSendingPackets[o]]
            /\ mSendTasks' =
                 [c \in Conns |->
                    IF c \in reading /\ \E o \in subs : mCurrentClient[o] = c
                    THEN Append(mSendTasks[c], LET o == CHOOSE o \in subs : mCurrentClient[o] = c
                                               IN PublishPacketFor(o, m, q[o]))
                    ELSE mSendTasks[c]]
            /\ UNCHANGED fault

\* SubscriptionTree::addSubscription (external): one subscription per subscriber and
\* topic; the QoS of a repeated one may be the old or the new one
AddSubscription(o, qos) ==
    \E q \in {qos} \cup ({mSubscriptions[o]} \ {NoSub}) :
        mSubscriptions' = [mSubscriptions EXCEPT ![o] = q]

\* operator()(ChangeRequestSubscribe&&): isDeleted() is false for every subscriber
ExecuteSubscribe ==
    /\ mQueue # <<>> /\ Head(mQueue).type = "Subscribe"
    /\ mQueue' = Tail(mQueue)
    /\ LET o == Head(mQueue).state
           qos == Head(mQueue).qos
       IN /\ AddSubscription(o, qos)
          /\ IF RetainedQoS = NoSub
             THEN UNCHANGED <<mHighQoSSendingPackets, mPacketIdCounter, mSendTasks,
                              mGlobalOrderCount, fault>>
             ELSE Deliver({o}, [x \in {o} |-> MinQoS(RetainedQoS, qos)], mGlobalOrderCount + 1)
    /\ UNCHANGED <<connVars, linkVars, mQos2pubrecReceived, mQoS2receivingPacketIds, mapVars, recv,
                   reading>>

ExecuteUnsubscribe ==
    /\ mQueue # <<>> /\ Head(mQueue).type = "Unsubscribe"
    /\ mQueue' = Tail(mQueue)
    /\ mSubscriptions' = [mSubscriptions EXCEPT ![Head(mQueue).state] = NoSub]
    /\ UNCHANGED <<connVars, mSendTasks, linkVars, flightVars, mapVars, mGlobalOrderCount, recv,
                   fault, reading>>

-----------------------------------------------------------------------------
(* Publishers: any thread, under the shared mMutex *)

Subscribers == {o \in Conns : mSubscriptions[o] # NoSub}

\* publishNoLockNoRetain for a message on the topic
Publish(qos) ==
    /\ Deliver(Subscribers, [o \in Subscribers |-> MinQoS(mSubscriptions[o], qos)],
               mGlobalOrderCount + 1)
    /\ UNCHANGED <<connVars, linkVars, mQos2pubrecReceived, mQoS2receivingPacketIds, mQueue,
                   mapVars, mSubscriptions, recv, reading>>

-----------------------------------------------------------------------------
Receive(c, p) == RecvPublishLowQoS(c, p) \/ LoadSession(c, p)

Handle(c, o) ==
    \/ HandlePuback(c, o) \/ HandlePubrec(c, o) \/ HandlePubcomp(c, o) \/ StorePubrecBit(c, o)
    \/ HandlePublishQoS2(c, o) \/ HandlePubrel(c, o)
    \/ HandleSubscribe(c, o) \/ HandleUnsubscribe(c, o)

Execute == ExecuteLogin \/ ExecuteLogout \/ ExecuteSubscribe \/ ExecuteUnsubscribe

Next ==
    \/ \E c \in Conns :
         \/ AcceptConnection(c)
         \/ \E clean \in CleanChoices, will \in WillChoices : RecvConnect(c, clean, will)
         \/ RecvConnectInvalidVersion(c) \/ RecvConnectMalformed(c)
         \/ RecvError(c) \/ RecvDisconnect(c) \/ RecvPing(c)
         \/ \E p \in InPackets : Receive(c, p)
         \/ \E o \in Conns : Handle(c, o)
         \/ Forward(c)
         \/ TimeoutLogout(c) \/ SendErrorLogout(c)
    \/ Execute
    \/ \E qos \in PublishQoS : Publish(qos)

Spec == Init /\ [][Next]_vars

-----------------------------------------------------------------------------
(* Properties *)

(* A connection and a session object point at each other or not at all, only the  *)
(* session in the map has a connection, and that connection is not logged out:    *)
(* dropCurrentClient and replaceCurrentClient never leave one half of the link.   *)
SessionLink ==
    /\ \A c, o \in Conns : mPersistentClientState[c] = o <=> mCurrentClient[o] = c
    /\ \A o \in Conns : mCurrentClient[o] # Null =>
          /\ mPersistentClientStates = o
          /\ ~mLoggedOut[mCurrentClient[o]]
    /\ mPersistentClientStates \notin mDeletedPersistentClientStates

(* At most one connection is logged in for the client id, whatever the order in   *)
(* which CONNECTs, takeovers, errors and timeouts are executed; it owns the       *)
(* session that the map holds.                                                    *)
SingleLogin ==
    \A c \in Conns : mState[c] = "CONNECTED" /\ ~mLoggedOut[c] =>
        /\ mPersistentClientStates # Null
        /\ mCurrentClient[mPersistentClientStates] = c

(* A clean session never outlives its connection: logoutClient erases it, so that *)
(* a clean session found by a login always has a connection to take over.         *)
CleanSessionAttached ==
    mPersistentClientStates # Null /\ mCleanSession[mPersistentClientStates] =>
        mCurrentClient[mPersistentClientStates] # Null

(* setClientId's assertion: a connection is logged in once, however many CONNECTs, *)
(* errors and logouts are in the queue.                                           *)
LoginOnce == fault # "client id set twice"

(* No operation goes through mCurrentClient while it is null: a session without a *)
(* connection goes on receiving messages of every QoS, as MQTT 3.1.1 asks.  It    *)
(* does not hold: PersistentClientState::publish tests the pointer for QoS 1 and  *)
(* 2 and not for QoS 0.                                                           *)
NoNullClient == fault # "null client"

(* A receiver works on a session that is no longer its connection's own only      *)
(* after that connection was logged out: nobody else writes into a session that   *)
(* another live connection has taken over.  (While the worker is in the middle of *)
(* a takeover, under mMutex, the old connection is detached a moment before.)     *)
StaleOnlyAfterLogout ==
    \A c \in Conns : recv[c].state # Null =>
        mPersistentClientState[c] = recv[c].state \/ mLoggedOut[c]

(* Once the connection has a session its will no longer changes, except that      *)
(* logoutClient moves it.  This is what lets logoutClient move the will without a *)
(* lock, and it does not hold: DISCONNECT resets the will.                        *)
WillStable ==
    [][\A c \in Conns :
         mPersistentClientState[c] # Null => mWill'[c] \in {mWill[c], "moved"}]_vars

(* The will of a logged-in connection that ends without DISCONNECT is published,  *)
(* whichever of the receiver, the time-out and the send error ends it; the one    *)
(* exception is that another connection takes the session over.                   *)
WillPublished ==
    [][\A c \in Conns :
         /\ mState[c] = "CONNECTED" /\ ~mLoggedOut[c] /\ mLoggedOut'[c] /\ mWill[c] = "set"
         => \/ mWill'[c] = "moved"
            \/ \E d \in Conns \ {c} : mPersistentClientState'[d] = mPersistentClientState[c]]_vars

(* A persistent session stays in the map, the same object, until a login asks for *)
(* a clean one; no logout, late or repeated, removes it.                          *)
PersistentSessionKept ==
    [][mPersistentClientStates # Null /\ ~mCleanSession[mPersistentClientStates]
         => mPersistentClientStates' = mPersistentClientStates]_vars
=============================================================================
