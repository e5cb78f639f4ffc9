------------------------------- MODULE SendPath -------------------------------
(***************************************************************************)
(* How a packet gets to one client: MQTTClientConnection::sendData, called *)
(* by any thread, the queue mSendTasks of what the socket did not take,    *)
(* sendScatter and constructIOVecs, and the receiver threads that go on    *)
(* with the queue on EPOLLOUT.                                             *)
(*                                                                         *)
(* A packet is a sequence of parts whose sizes are given by its type; the  *)
(* bytes on the wire are pairs of packet and position, so that a byte that *)
(* is missing, doubled, moved or foreign shows.  The socket takes as many  *)
(* bytes as its buffer has room for; with edge-triggered epoll EPOLLOUT is *)
(* reported after the peer has read only if a write was cut short before.  *)
(***************************************************************************)
EXTENDS Integers, Sequences, SequencesExt

CONSTANTS
    Threads,        \* callers of sendData
    Receivers,      \* receiver threads
    Null,           \* an unlocked mutex
    Types,          \* the packet types sent
    PartSizes,      \* the sizes of prelude, middle, packet id and end, by type
    BufferSize,     \* room in the socket buffer
    Batch,          \* UIO_MAXIOV / 4: packets that one sendScatter takes
    MaxPackets      \* bound on the packets sent

ASSUME SendAssumption ==
    /\ Null \notin Threads
    /\ PartSizes \in [Types -> [1..4 -> Nat]]
    /\ \A y \in Types : PartSizes[y][1] > 0 /\ PartSizes[y][3] \in {0, 2}
    /\ BufferSize \in Nat \ {0} /\ Batch \in Nat \ {0} /\ MaxPackets \in Nat

VARIABLES
    mSendMutex,     \* its owner, or Null
    mSendTasks,     \* packets and their offsets, oldest first
    sending,        \* per thread: the packet that sendData is about to store, if any
    mSendError,
    mState,         \* INVALID_PROTOCOL_VERSION, or not
    room,           \* free bytes of the socket buffer
    cutShort,       \* a write found too little room; the next read raises EPOLLOUT
    epollOut,       \* EPOLLOUT is pending for this connection
    handling,       \* the receivers that have been given the event
    broken,         \* the connection is lost
    logout,         \* a receiver has requested the logout of the client
    wire,           \* the bytes written, in order
    accepted,       \* the packets in the order in which sendData took them
    splitIds,       \* the packets whose id was cut in two by the end of a write
    overlong        \* mSendTasks was once longer than a batch

socketVars == <<room, cutShort, wire, splitIds>>
vars == <<mSendMutex, mSendTasks, sending, mSendError, mState, socketVars, epollOut, handling,
          broken, logout, accepted, overlong>>

Packets == [n: 1..MaxPackets, type: Types]
InTransitEncodedPacket == [packet: Packets, offset: Nat]

-----------------------------------------------------------------------------
(* EncodedPacket *)

\* Where the parts start; part 5 is the end of the packet
PartStarts ==
    [y \in Types |-> LET S[j \in 1..5] == IF j = 1 THEN 0 ELSE S[j - 1] + PartSizes[y][j - 1]
                     IN  S]
PartStart(y, k) == PartStarts[y][k]

fullSize(y) == PartStart(y, 5)

Remaining(task) == fullSize(task.packet.type) - task.offset
isDone(task) == task.offset >= fullSize(task.packet.type)

Foreign == <<0, 0>>     \* a byte that belongs to no packet

\* By how many bytes + 1 moves a pointer into the part: mPacketId is a uint16_t
Unit(k) == IF k = 3 THEN 2 ELSE 1

\* The bytes of the vector for part k when the first offset bytes have been sent
IOVec(task, k) ==
    LET y == task.packet.type
        size == PartSizes[y][k]
        skip == task.offset - PartStart(y, k)
    IN  IF task.offset >= PartStart(y, k + 1)
        THEN <<>>
        ELSE IF skip <= 0
        THEN [i \in 1..size |-> <<task.packet.n, PartStart(y, k) + i>>]
        ELSE [i \in 1..(size - skip) |->
                 IF skip * Unit(k) + i <= size
                 THEN <<task.packet.n, PartStart(y, k) + skip * Unit(k) + i>>
                 ELSE Foreign]

constructIOVecs(task) == IOVec(task, 1) \o IOVec(task, 2) \o IOVec(task, 3) \o IOVec(task, 4)

-----------------------------------------------------------------------------
(* TcpClientConnection::sendScatter *)

\* The packets that take part in one write
InBatch(tasks) == SubSeq(tasks, 1, IF Len(tasks) < Batch THEN Len(tasks) ELSE Batch)

Offered(tasks) ==
    LET batch == InBatch(tasks) IN FlattenSeq([i \in DOMAIN batch |-> constructIOVecs(batch[i])])

\* What the socket takes of it
Taken(bytes) == IF Len(bytes) <= room THEN Len(bytes) ELSE room

\* The bytes that the first n packets still have to send
Rest(tasks, n) ==
    LET sum[i \in 0..n] == IF i = 0 THEN 0 ELSE sum[i - 1] + Remaining(tasks[i]) IN sum[n]

BugForgetResult(tasks, result) ==
    [i \in DOMAIN tasks |-> IF i > Batch THEN tasks[i] ELSE [tasks[i] EXCEPT !.offset = @ + result]]

\* The result is handed out to the packets from the front
Advance(tasks, result) ==
    [i \in DOMAIN tasks |->
        LET left == result - Rest(tasks, i - 1)
        IN  IF i > Batch \/ left <= 0
            THEN tasks[i]
            ELSE IF Remaining(tasks[i]) <= left
            THEN [tasks[i] EXCEPT !.offset = fullSize(tasks[i].packet.type)]
            ELSE [tasks[i] EXCEPT !.offset = @ + left]]

\* The packets of which a write has sent just the first byte of the id
SplitAfter(tasks) ==
    LET Split(task) == /\ PartSizes[task.packet.type][3] = 2
                       /\ task.offset = PartStart(task.packet.type, 3) + 1
    IN  {tasks[i].packet.n : i \in {j \in DOMAIN tasks : Split(tasks[j])}}

\* One sendmsg, after which the packets are as in sent; a full buffer is no error
Write(sent, offered) ==
    /\ wire' = wire \o SubSeq(offered, 1, Taken(offered))
    /\ splitIds' = splitIds \cup SplitAfter(sent)
    /\ room' = room - Taken(offered)
    /\ cutShort' = (cutShort \/ Taken(offered) < Len(offered))

-----------------------------------------------------------------------------
(* The program *)

Init ==
    /\ mSendMutex = Null /\ mSendTasks = <<>> /\ sending = [t \in Threads |-> <<>>]
    /\ mSendError = FALSE /\ mState = "OTHER"
    /\ room = BufferSize /\ cutShort = FALSE /\ wire = <<>> /\ splitIds = {}
    /\ epollOut = TRUE /\ handling = {}     \* a new connection is writable
    /\ broken = FALSE /\ logout = FALSE
    /\ accepted = <<>> /\ overlong = FALSE

NewTask(y) == [packet |-> [n |-> Len(accepted) + 1, type |-> y], offset |-> 0]

BugSendsAnyway(t, y) ==
    /\ mSendMutex = Null /\ Len(accepted) < MaxPackets
    /\ mSendMutex' = t
    /\ accepted' = Append(accepted, NewTask(y).packet)
    /\ IF broken
       THEN /\ mSendError' = TRUE
            /\ sending' = sending
            /\ UNCHANGED socketVars
       ELSE /\ \E offered \in {constructIOVecs(NewTask(y))} :
               \E sent \in {Advance(<<NewTask(y)>>, Taken(offered))} :
                 Write(sent, offered) /\ sending' = [sending EXCEPT ![t] = sent]
            /\ UNCHANGED mSendError
    /\ UNCHANGED <<mSendTasks, epollOut, handling, broken, logout, overlong>>

\* sendData locks mSendMutex and writes at once if nothing is queued before it.  The
\* write throws if the connection is lost: the packet is gone, only a flag is set.  The
\* catch block sets it just after the unlock; here it is set with the failed write, so
\* that it tells of that write in the moment between the two as well.
BeginSend(t, y) ==
    /\ mSendMutex = Null /\ Len(accepted) < MaxPackets
    /\ mSendMutex' = t
    /\ accepted' = Append(accepted, NewTask(y).packet)
    /\ LET task == <<NewTask(y)>>
       IN  CASE mSendTasks # <<>> ->
                  /\ sending' = [sending EXCEPT ![t] = task]
                  /\ UNCHANGED <<mSendError, socketVars>>
             [] mSendTasks = <<>> /\ broken ->
                  /\ mSendError' = TRUE
                  /\ UNCHANGED <<sending, socketVars>>
             [] OTHER ->
                  /\ \E offered \in {Offered(task)} : \E sent \in {Advance(task, Taken(offered))} :
                       Write(sent, offered) /\ sending' = [sending EXCEPT ![t] = sent]
                  /\ UNCHANGED mSendError
    /\ UNCHANGED <<mSendTasks, epollOut, handling, broken, logout, overlong>>

sendData(t, y) == BeginSend(t, y) /\ mState # "INVALID_PROTOCOL_VERSION" /\ UNCHANGED mState

\* handlePacketReceived answers a CONNECT of an unknown protocol version, the first packet
\* of all, with a CONNACK, and leaves the rest to the handler of EPOLLOUT
RejectVersion(t, y) ==
    /\ accepted = <<>>
    /\ mState' = "INVALID_PROTOCOL_VERSION"
    /\ BeginSend(t, y)

\* What has not been sent is stored, and mSendMutex released
EndSend(t) ==
    /\ mSendMutex = t
    /\ mSendTasks' = IF sending[t] = <<>> \/ isDone(sending[t][1])
                     THEN mSendTasks
                     ELSE mSendTasks \o sending[t]
    /\ sending' = [sending EXCEPT ![t] = <<>>]
    /\ overlong' = (overlong \/ Len(mSendTasks') > Batch)
    /\ mSendMutex' = Null
    /\ UNCHANGED <<mSendError, mState, socketVars, epollOut, handling, broken, logout, accepted>>

\* epoll_wait gives the event to one of the receivers
TakeEvent(r) ==
    /\ epollOut /\ r \notin handling
    /\ epollOut' = FALSE
    /\ handling' = handling \cup {r}
    /\ UNCHANGED <<mSendMutex, mSendTasks, sending, mSendError, mState, socketVars, broken, logout,
                   accepted, overlong>>

\* The packets of the queue that are done are erased up to the first that is not
EraseDone(tasks) ==
    LET done == SelectInSeq(tasks, LAMBDA k : ~isDone(k))
    IN  IF done = 0 THEN <<>> ELSE SubSeq(tasks, done, Len(tasks))

BugKeepDone(r) ==
    /\ r \in handling /\ mSendMutex = Null
    /\ handling' = handling \ {r}
    /\ IF mSendTasks = <<>>
       THEN UNCHANGED <<mSendTasks, socketVars, logout>>
       ELSE IF broken
       THEN logout' = TRUE /\ UNCHANGED <<mSendTasks, socketVars>>
       ELSE /\ \E offered \in {Offered(mSendTasks)} :
               \E sent \in {Advance(mSendTasks, Taken(offered))} :
                 Write(sent, offered) /\ mSendTasks' = sent
            /\ logout' = (logout \/ (mSendTasks' = <<>> /\ mState = "INVALID_PROTOCOL_VERSION"))
    /\ UNCHANGED <<mSendMutex, sending, mSendError, mState, epollOut, broken, accepted, overlong>>

\* EPOLLOUT, under mSendMutex from the first test to the last
HandleOut(r) ==
    /\ r \in handling /\ mSendMutex = Null
    /\ handling' = handling \ {r}
    /\ IF mSendTasks = <<>>
       THEN UNCHANGED <<mSendTasks, socketVars, logout>>
       ELSE IF broken
       THEN logout' = TRUE /\ UNCHANGED <<mSendTasks, socketVars>>
       ELSE /\ \E offered \in {Offered(mSendTasks)} :
               \E sent \in {Advance(mSendTasks, Taken(offered))} :
                 Write(sent, offered) /\ mSendTasks' = EraseDone(sent)
            /\ logout' = (logout \/ (mSendTasks' = <<>> /\ mState = "INVALID_PROTOCOL_VERSION"))
    /\ UNCHANGED <<mSendMutex, sending, mSendError, mState, epollOut, broken, accepted, overlong>>

-----------------------------------------------------------------------------
(* The socket *)

\* The peer reads, and the buffer has room again
PeerReads(n) ==
    /\ ~broken /\ room + n <= BufferSize
    /\ room' = room + n
    /\ cutShort' = FALSE
    /\ epollOut' = (epollOut \/ cutShort)
    /\ UNCHANGED <<mSendMutex, mSendTasks, sending, mSendError, mState, handling, broken, logout,
                   wire, splitIds, accepted, overlong>>

\* Any event of the connection is reported with everything that is ready
PeerSends ==
    /\ ~broken /\ room > 0
    /\ epollOut' = TRUE
    /\ UNCHANGED <<mSendMutex, mSendTasks, sending, mSendError, mState, socketVars, handling,
                   broken, logout, accepted, overlong>>

ConnectionLost ==
    /\ ~broken
    /\ broken' = TRUE /\ epollOut' = TRUE
    /\ UNCHANGED <<mSendMutex, mSendTasks, sending, mSendError, mState, socketVars, handling,
                   logout, accepted, overlong>>

Next ==
    \/ \E t \in Threads :
         \/ \E y \in Types : sendData(t, y) \/ RejectVersion(t, y)
         \/ EndSend(t)
    \/ \E r \in Receivers : TakeEvent(r) \/ HandleOut(r)
    \/ \E n \in 1..BufferSize : PeerReads(n)
    \/ PeerSends \/ ConnectionLost

\* The threads go on; a peer that is still there reads what was written.  Weak fairness
\* is enough for mSendMutex, since only finitely many packets are sent
Fairness ==
    /\ \A t \in Threads : WF_vars(EndSend(t))
    /\ \A r \in Receivers : WF_vars(TakeEvent(r)) /\ WF_vars(HandleOut(r))
    /\ WF_vars(\E n \in 1..BufferSize : PeerReads(n))

Spec == Init /\ [][Next]_vars /\ Fairness

-----------------------------------------------------------------------------
(* Properties *)

(* What every variable may hold; an offset never passes the end of its packet.    *)
TypeOK ==
    /\ mSendMutex \in Threads \cup {Null}
    /\ mSendTasks \in Seq(InTransitEncodedPacket)
    /\ sending \in [Threads -> Seq(InTransitEncodedPacket)]
    /\ \A i \in DOMAIN mSendTasks : Remaining(mSendTasks[i]) >= 0
    /\ mSendError \in BOOLEAN /\ mState \in {"OTHER", "INVALID_PROTOCOL_VERSION"}
    /\ room \in 0..BufferSize
    /\ {cutShort, epollOut, broken, logout, overlong} \subseteq BOOLEAN
    /\ handling \subseteq Receivers
    /\ wire \in Seq(Nat \X Nat) /\ splitIds \subseteq 1..MaxPackets
    /\ accepted \in Seq(Packets)

\* The bytes of the packets in the order of sendData
Intended ==
    FlattenSeq([n \in DOMAIN accepted |-> [i \in 1..fullSize(accepted[n].type) |-> <<n, i>>]])

IsSecondIdByte(b) ==
    LET y == accepted[b[1]].type
    IN  PartSizes[y][3] = 2 /\ b[2] = PartStart(y, 4)

(* However the writes are cut and whoever goes on with them, the bytes on the      *)
(* wire are those of the packets, in the order of sendData, none missing or twice. *)
(* The one exception is exact: the second byte of a packet id is replaced by a     *)
(* foreign byte if, and only if, a write ended between the two bytes of the id,    *)
(* since constructIOVecs adds the offset to a pointer to uint16_t.  Nothing is     *)
(* forgotten: outside sendData the queue holds what is not on the wire, unless an  *)
(* error has flagged the client, and only its front was sent in part.  A client is *)
(* logged out for its protocol version only after the last byte of the CONNACK.    *)
WireFaithful ==
    LET intended == Intended
    IN  /\ mSendMutex = Null /\ ~mSendError =>
             Len(wire) + Rest(mSendTasks, Len(mSendTasks)) = Len(intended)
        /\ \A i \in DOMAIN mSendTasks : mSendTasks[i].offset > 0 => i = 1
        /\ logout /\ ~broken => Len(wire) = Len(intended)
        /\ Len(wire) <= Len(intended)
        /\ \A i \in DOMAIN wire :
             wire[i] = IF IsSecondIdByte(intended[i]) /\ intended[i][1] \in splitIds
                       THEN Foreign ELSE intended[i]

(* A queue that never outgrew one batch is emptied, unless the connection is lost:  *)
(* no EPOLLOUT is missed between a write that was cut short and the storing of its  *)
(* rest.  A longer queue may stay behind: the batch is written, nothing was cut     *)
(* short, and no edge follows until the peer sends something.                       *)
QueueDrains == mSendTasks # <<>> ~> (mSendTasks = <<>> \/ broken \/ overlong)
=============================================================================
