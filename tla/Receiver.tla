------------------------------ MODULE Receiver ------------------------------
(***************************************************************************)
(* One connection's receive path: how its bytes become packets, and what   *)
(* happens to packets around its login.  Epoll is edge-triggered: an event *)
(* is reported when bytes arrive, and the receiver then reads until the    *)
(* socket is empty.  A packet that is complete in state CONNECTING is held *)
(* back, because the worker thread has not executed the login yet; held    *)
(* packets are handled at the start of the connection's next event.        *)
(*                                                                         *)
(* Packets are numbered in the order the client sends them; 0 is CONNECT.  *)
(* The client sends without waiting for CONNACK, as MQTT allows.  Bytes    *)
(* are their positions in the stream; the parser looks at the values of    *)
(* the length bytes only.  Handling a packet is one step: module Session   *)
(* has what it does.                                                       *)
(***************************************************************************)
EXTENDS Integers, Sequences, FiniteSets

CONSTANTS
    Lengths,        \* the remaining lengths of the packets 0, 1, ...
    NeedsSession,   \* those whose handler uses the persistent client state
    Base,           \* 128: a length byte is a digit, plus Base if another one follows
    Word,           \* 2^32, for recvData.multiplier and packetLength
    RecvSize        \* size of the receiver's buffer

MaxPackets == Len(Lengths) - 1

\* What the digits of a length weigh; the fifth one does not exist
Weights == <<1, Base, Base * Base, Base * Base * Base, Base * Base * Base * Base>>

ASSUME ReceiverAssumption ==
    /\ Base \in Nat \ {0, 1} /\ Word \in Nat /\ Word > Weights[5] /\ (Weights[5] * Base) % Word = 0
    /\ Lengths \in Seq(0..(Weights[5] - 1)) /\ Lengths # <<>>
    /\ NeedsSession \subseteq 1..MaxPackets
    /\ RecvSize \in Nat \ {0}

VARIABLES
    arrived,        \* bytes of the stream that have reached the socket
    read, next,     \* bytes recv has returned, and those the parser has taken
    event,          \* epoll has an event for the connection
    rpc,            \* the receiver thread: "wait", "flush", "recv" or "parse"
    recvData,
    flushed,        \* number of held packets this flush has handled
    mPacketsReceivedWhileWaitingForConnectingLogin,
    mState,
    mPersistentClientState,     \* whether the login has set it
    mLoggedOut,
    mQueue,         \* the connection's Login and Logout requests
    wpc,            \* the worker: "idle", or "login" between the two halves of it
    handled         \* packets handled in state CONNECTED, in order

held == mPacketsReceivedWhileWaitingForConnectingLogin
bytesVars == <<arrived, read, next>>
loginVars == <<mPersistentClientState, mLoggedOut, wpc>>
vars == <<bytesVars, event, rpc, recvData, flushed, mPacketsReceivedWhileWaitingForConnectingLogin,
          mState, loginVars, mQueue, handled>>

-----------------------------------------------------------------------------
(* The stream as MQTT defines it: a type, the length in digits, the data *)

LengthOf(p) == Lengths[p + 1]
Digits(p) ==
    CHOOSE k \in 1..4 : LengthOf(p) < Weights[k + 1] /\ (k > 1 => LengthOf(p) >= Weights[k])

Encode(p) ==
    <<[of |-> p, value |-> 1]>>
    \o [i \in 1..Digits(p) |->
          [of |-> p, value |-> ((LengthOf(p) \div Weights[i]) % Base)
                               + (IF i < Digits(p) THEN Base ELSE 0)]]
    \o [i \in 1..LengthOf(p) |-> [of |-> p, value |-> 0]]

\* The bytes of the first k packets
Sent[k \in 0..(MaxPackets + 1)] == IF k = 0 THEN <<>> ELSE Sent[k - 1] \o Encode(k - 1)
Stream == Sent[MaxPackets + 1]

\* The position of a packet's last byte, and that of its last length byte
EndOf(p) == Len(Sent[p + 1])
HeadEnd(p) == EndOf(p) - LengthOf(p)

-----------------------------------------------------------------------------
\* A new PacketReceiveData
Cleared == [recvState |-> "IDLE", packet |-> 0, packetLength |-> 0, multiplier |-> 1,
            currentReceiveBuffer |-> <<>>]

Init ==
    /\ arrived = 0 /\ read = 0 /\ next = 0 /\ event = FALSE
    /\ rpc = "wait" /\ recvData = Cleared /\ flushed = 0
    /\ mPacketsReceivedWhileWaitingForConnectingLogin = <<>>
    /\ mState = "INITIAL" /\ mPersistentClientState = FALSE /\ mLoggedOut = FALSE
    /\ mQueue = <<>> /\ wpc = "idle" /\ handled = <<>>

\* TCP delivers some more bytes, and the socket becomes readable
Arrive(n) ==
    /\ arrived + n <= Len(Stream)
    /\ arrived' = arrived + n
    /\ event' = TRUE
    /\ UNCHANGED <<read, next, rpc, recvData, flushed,
                   mPacketsReceivedWhileWaitingForConnectingLogin, mState, loginVars, mQueue,
                   handled>>

\* epoll_pwait returns the event; removeClientConnection ends the deliveries
TakeEvent ==
    /\ rpc = "wait" /\ event /\ ~mLoggedOut
    /\ event' = FALSE
    /\ rpc' = "flush" /\ flushed' = 0
    /\ UNCHANGED <<bytesVars, recvData, mPacketsReceivedWhileWaitingForConnectingLogin, mState,
                   loginVars, mQueue, handled>>

\* An exception leaves the body of the loop over the events: a logout is requested, the
\* rest of what was read is forgotten and the held packets stay
Throw ==
    /\ mQueue' = Append(mQueue, "Logout")
    /\ rpc' = "wait" /\ next' = read
    /\ UNCHANGED <<handled, mPacketsReceivedWhileWaitingForConnectingLogin>>

BugKeepHeld == flushed' = 0 /\ UNCHANGED mPacketsReceivedWhileWaitingForConnectingLogin

BugKeepIterator == mPacketsReceivedWhileWaitingForConnectingLogin' = <<>> /\ UNCHANGED flushed

\* The list is cleared after the loop over it
ClearHeld == mPacketsReceivedWhileWaitingForConnectingLogin' = <<>> /\ flushed' = 0

BugFlushConnected ==
    /\ rpc = "flush"
    /\ IF mState = "CONNECTED" /\ flushed < Len(held)
       THEN /\ handled' = Append(handled, held[flushed + 1])
            /\ flushed' = flushed + 1
            /\ UNCHANGED <<rpc, mPacketsReceivedWhileWaitingForConnectingLogin>>
       ELSE /\ IF mState = "CONNECTED"
               THEN ClearHeld
               ELSE UNCHANGED <<flushed, mPacketsReceivedWhileWaitingForConnectingLogin>>
            /\ rpc' = "recv"
            /\ UNCHANGED handled
    /\ UNCHANGED <<bytesVars, event, recvData, mState, loginVars, mQueue>>

\* handlePacketsReceivedWhileConnecting: each held packet is handled as if the
\* connection were CONNECTED; the list is cleared after the last one
FlushHeld ==
    /\ rpc = "flush"
    /\ \/ /\ flushed < Len(held)
          /\ LET p == held[flushed + 1] IN
             IF p \in NeedsSession /\ ~mPersistentClientState
             THEN Throw /\ UNCHANGED flushed
             ELSE /\ handled' = Append(handled, p)
                  /\ flushed' = flushed + 1
                  /\ UNCHANGED <<mQueue, rpc, next, mPacketsReceivedWhileWaitingForConnectingLogin>>
       \/ /\ flushed = Len(held)
          /\ ClearHeld
          /\ rpc' = "recv"
          /\ UNCHANGED <<handled, mQueue, next>>
    /\ UNCHANGED <<arrived, read, event, recvData, mState, loginVars>>

\* recv: what has arrived, as far as the buffer goes; none left ends the event
Recv ==
    /\ rpc = "recv"
    /\ rpc' = IF read = arrived THEN "wait" ELSE "parse"
    /\ read' = IF arrived - read <= RecvSize THEN arrived ELSE read + RecvSize
    /\ UNCHANGED <<arrived, next, event, recvData, flushed,
                   mPacketsReceivedWhileWaitingForConnectingLogin, mState, loginVars, mQueue,
                   handled>>

BugReadOnce(n) == next' = n /\ rpc' = IF n = read THEN "wait" ELSE "parse"

\* for(i < bytesReceived), inside do ... while(bytesReceived > 0)
Consume(n) == next' = n /\ rpc' = IF n = read THEN "recv" ELSE "parse"

\* handlePacketReceived according to mState, the parser having taken n bytes
HandlePacket(p, n) ==
    \/ /\ mState = "INITIAL"
       /\ mState' = "CONNECTING"
       /\ mQueue' = Append(mQueue, "Login")
       /\ Consume(n)
       /\ UNCHANGED <<mPacketsReceivedWhileWaitingForConnectingLogin, handled>>
    \/ /\ mState = "CONNECTING"
       /\ mPacketsReceivedWhileWaitingForConnectingLogin' = Append(held, p)
       /\ Consume(n)
       /\ UNCHANGED <<mState, mQueue, handled>>
    \/ /\ mState = "CONNECTED"
       /\ IF p \in NeedsSession /\ ~mPersistentClientState
          THEN Throw
          ELSE /\ handled' = Append(handled, p)
               /\ Consume(n)
               /\ UNCHANGED <<mPacketsReceivedWhileWaitingForConnectingLogin, mQueue>>
       /\ UNCHANGED mState

\* IDLE: the first byte
ParseType ==
    /\ rpc = "parse" /\ recvData.recvState = "IDLE"
    /\ recvData' = [Cleared EXCEPT !.recvState = "RECEIVING_VAR_LENGTH",
                                   !.packet = Stream[next + 1].of]
    /\ Consume(next + 1)
    /\ UNCHANGED <<arrived, read, event, flushed, mPacketsReceivedWhileWaitingForConnectingLogin,
                   mState, loginVars, mQueue, handled>>

\* The check of the multiplier, after it was multiplied
TooLong(multiplier) == multiplier > Base * Base * Base

\* RECEIVING_VAR_LENGTH: a digit of the length.  Without data the packet is handled at
\* once, in state IDLE; with data its handler runs in state RECEIVING_DATA.
ParseLength ==
    /\ rpc = "parse" /\ recvData.recvState = "RECEIVING_VAR_LENGTH"
    /\ LET b == Stream[next + 1].value
           length == (recvData.packetLength + (b % Base) * recvData.multiplier) % Word
           multiplier == (recvData.multiplier * Base) % Word
           digit == [recvData EXCEPT !.packetLength = length, !.multiplier = multiplier]
       IN  IF TooLong(multiplier)
           THEN Throw /\ recvData' = digit /\ UNCHANGED mState
           ELSE IF b < Base /\ length = 0
           THEN /\ HandlePacket(recvData.packet, next + 1)
                /\ recvData' = [digit EXCEPT !.recvState = "IDLE"]
           ELSE /\ recvData' = IF b < Base THEN [digit EXCEPT !.recvState = "RECEIVING_DATA"] ELSE digit
                /\ Consume(next + 1)
                /\ UNCHANGED <<mPacketsReceivedWhileWaitingForConnectingLogin, mState, mQueue, handled>>
    /\ UNCHANGED <<arrived, read, event, flushed, loginVars>>

\* How much of what was read belongs to the packet
Share(missing) == IF read - next <= missing THEN read - next ELSE missing

\* RECEIVING_DATA: the state becomes IDLE after the handler; if that throws the packet
\* stays, complete, and the next bytes have it handled once more
ParseData ==
    /\ rpc = "parse" /\ recvData.recvState = "RECEIVING_DATA"
    /\ LET missing == recvData.packetLength - Len(recvData.currentReceiveBuffer)
           n == Share(missing)
           filled == [recvData EXCEPT !.currentReceiveBuffer = @ \o [i \in 1..n |-> next + i]]
       IN  IF Len(filled.currentReceiveBuffer) = recvData.packetLength
           THEN /\ HandlePacket(recvData.packet, next + n)
                /\ recvData' = IF rpc' = "wait" THEN filled ELSE [filled EXCEPT !.recvState = "IDLE"]
           ELSE /\ recvData' = filled
                /\ Consume(next + n)
                /\ UNCHANGED <<mPacketsReceivedWhileWaitingForConnectingLogin, mState, mQueue, handled>>
    /\ UNCHANGED <<arrived, read, event, flushed, loginVars>>

-----------------------------------------------------------------------------
\* The worker executes the login: the client has its session, then, after CONNACK and
\* what is resent, the state changes
BeginLogin ==
    /\ wpc = "idle" /\ mQueue # <<>> /\ Head(mQueue) = "Login"
    /\ mQueue' = Tail(mQueue)
    /\ IF mLoggedOut
       THEN UNCHANGED <<mPersistentClientState, wpc>>
       ELSE mPersistentClientState' = TRUE /\ wpc' = "login"
    /\ UNCHANGED <<bytesVars, event, rpc, recvData, flushed,
                   mPacketsReceivedWhileWaitingForConnectingLogin, mState, mLoggedOut, handled>>

EndLogin ==
    /\ wpc = "login"
    /\ mState' = "CONNECTED" /\ wpc' = "idle"
    /\ UNCHANGED <<bytesVars, event, rpc, recvData, flushed,
                   mPacketsReceivedWhileWaitingForConnectingLogin, mPersistentClientState,
                   mLoggedOut, mQueue, handled>>

ExecuteLogout ==
    /\ wpc = "idle" /\ mQueue # <<>> /\ Head(mQueue) = "Logout"
    /\ mQueue' = Tail(mQueue)
    /\ mLoggedOut' = TRUE /\ mPersistentClientState' = FALSE
    /\ UNCHANGED <<bytesVars, event, rpc, recvData, flushed,
                   mPacketsReceivedWhileWaitingForConnectingLogin, mState, wpc, handled>>

Receiving == TakeEvent \/ FlushHeld \/ Recv \/ ParseType \/ ParseLength \/ ParseData
Working == BeginLogin \/ EndLogin \/ ExecuteLogout
Next == (\E n \in 1..RecvSize + 1 : Arrive(n)) \/ Receiving \/ Working

\* The receiver and the worker keep running; the client may stop sending
Fairness == WF_vars(Receiving) /\ WF_vars(Working)
Spec == Init /\ [][Next]_vars /\ Fairness

-----------------------------------------------------------------------------
(* Properties *)

Packets == 1..MaxPackets
Failed == mLoggedOut \/ \E i \in DOMAIN mQueue : mQueue[i] = "Logout"
Count(p, s) == Cardinality({i \in DOMAIN s : s[i] = p})

\* How often a packet is among those that are still to be flushed
Waiting(p) == Cardinality({i \in (flushed + 1)..Len(held) : held[i] = p})

(* What every variable may hold; the flush never runs past the list of held packets, *)
(* and the receive buffer never outgrows the packet (asserted at line 160).          *)
TypeOK ==
    /\ next \in 0..read /\ read \in 0..arrived /\ arrived \in 0..Len(Stream)
    /\ event \in BOOLEAN /\ rpc \in {"wait", "flush", "recv", "parse"}
    /\ recvData \in [recvState: {"IDLE", "RECEIVING_VAR_LENGTH", "RECEIVING_DATA"},
                     packet: 0..MaxPackets, packetLength: 0..(Word - 1), multiplier: 0..(Word - 1),
                     currentReceiveBuffer: Seq(1..Len(Stream))]
    /\ Len(recvData.currentReceiveBuffer) <= recvData.packetLength
    /\ held \in Seq(0..MaxPackets) /\ flushed \in 0..Len(held)
    /\ mState \in {"INITIAL", "CONNECTING", "CONNECTED"}
    /\ mPersistentClientState \in BOOLEAN /\ mLoggedOut \in BOOLEAN
    /\ mQueue \in Seq({"Login", "Logout"}) /\ wpc \in {"idle", "login"}
    /\ handled \in Seq(0..MaxPackets)

(* Unless the connection fails, a packet has been handled, or is held back, exactly  *)
(* once when its last byte was parsed, and not before: neither the way the stream    *)
(* is cut by recv nor the detour over the held packets loses, repeats or tears one.  *)
HandledOnce ==
    ~Failed => \A p \in Packets :
        Count(p, handled) + Waiting(p) = IF EndOf(p) <= next THEN 1 ELSE 0

(* A packet that comes before its session is the only cause to give up a client whose *)
(* lengths have one to four bytes, as all of Lengths have: MQTT 3.1.1 allows four.    *)
(* It does not hold: the check of the multiplier rejects the fourth byte.             *)
ValidLengthsAccepted == Failed => \E p \in NeedsSession : EndOf(p) <= next

(* When the receiver goes back to epoll and no event is pending on a live            *)
(* connection, everything that arrived has been read: with edge-triggered epoll      *)
(* nothing would announce a remainder.                                               *)
EventDrains ==
    rpc = "wait" /\ ~event /\ ~Failed => next = arrived

(* A held packet is handled at the next event, or the connection is given up.  It    *)
(* is not handled before: without further bytes it stays (line 298).                 *)
HeldHandled ==
    \A p \in Packets :
        (Count(p, held) > 0 /\ event) ~> (Count(p, handled) > 0 \/ Failed)
=============================================================================
