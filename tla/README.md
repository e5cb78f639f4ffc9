# nioev-mqtt in TLA+

A verification development for the nioev-mqtt broker (C++, `src/src/`) and the part of its web user
interface that talks to it (`src/webui/src/`): TLA+ modules, TLC configurations that check them on small
instances, and TLAPS proofs. Source lines below are of `src/src/` unless another file is named; the mapping
of every definition to its lines is in `PROJECT.json` under `map`.

## 1. The system

nioev-mqtt is one process with these threads:

* **receiver threads** wait in `epoll_pwait` (edge-triggered, `EPOLLEXCLUSIVE`), read from the
  connections and run `handlePacketReceived` (`ClientThreadManager.cpp`);
* the **worker thread** (`ApplicationState::workerThreadFunc`) executes change requests;
* the **timer thread** runs `cleanup` and `syncRetainedMessagesToDb`;
* the **accept thread**, the **REST thread**, one thread per **script**, the
  **AsyncPublisher** and the **statistics** thread.

The web user interface runs in a browser and talks to the REST thread.

| Component | State | Operations | Interacts through |
| --- | --- | --- | --- |
| Client sessions (`ApplicationState.*`) | `mClients`, `mPersistentClientStates`, `mDeletedPersistentClientStates`, `mSubscriptions`; per session `mCurrentClient`, `mCleanSession`, packets in flight, two bitsets of QoS 2 ids, the id counter | login (new, clean, resumed), logout, subscribe, unsubscribe, publish | requests from the receivers; `sendData` |
| Packet handlers (`ClientThreadManager.cpp:216-563`) | connection state, will, session pointer | one per packet type | atomics of the connection, the session's lock, `requestChange`, `publish` |
| Change requests (`ApplicationState.cpp:84-226`) | `mMutex`, `mCurrentRWHolderOfMMutex`, `mQueue` (4096), `mQueueInternal`, reference counts | `requestChange` SYNC, TRY_SYNC_THEN_ASYNC, ASYNC; the worker's loop | every thread |
| Receive path (`ClientThreadManager.cpp:39-190`) | receive buffer and parser, packets held during the login | take event, flush held packets, recv, parse | epoll, the worker's login |
| Retained messages | `mRetainedMessages`, table in SQLite | retain, resend at subscribe, save, load | change requests, timers |
| Cleanup (`ApplicationState.cpp:266-302`, `ClientThreadManager.cpp:575-589`) | `mShouldCleanup`, reference counts, two suspend mutexes and a flag | time out, suspend receivers, free, resume | signals, `mMutex` |
| Send path (`MQTTClientConnection.cpp`, `TcpClientConnection.cpp`, `MQTTPublishPacketBuilder.*`) | `mSendTasks`, offsets of partial writes, `mSendError` | `sendData`, `sendScatter`, EPOLLOUT | `mSendMutex`, the kernel |
| Scripts (`scripting/ScriptContainer*`) | container state, task queue, time-outs, one thread each | run, call another script, time out; activate, deactivate, delete, replace | requests, the container's mutex and condition variable, `mMutex` |
| Script store (`ApplicationState.cpp`, `REST.cpp`) | table `script`, `mScripts` | PUT, DELETE, activate, deactivate, list, restart | both queues, HTTP |
| Web user interface (`webui/src/`) | shown list, interval timer, calls in flight | update, toggle, new, delete, save, change of rate, leave | `fetch`, timers |
| Statistics, WebSockets | histograms, subscribers | push, refresh | `mMutex`, requests |

What is hard in it:

* Logins and logouts are *requested* in one thread and *executed* later in another; several
  connections may carry the same client id, so that takeovers, errors and time-outs meet in any order.
* A receiver loads its session pointer and uses it afterwards, while the session may have been handed
  to another connection.
* A thread that owns `mMutex` must not push into the bounded queue; `requestChange` finds out by a
  thread id which is written beside the locking, not with it.
* Connections fail with messages in flight; what is resent, in which order, and what is recognised as a
  duplicate decides what QoS 1 and 2 are worth.
* Packets may arrive before the login was executed, epoll announces data only once, and recv cuts the
  stream anywhere.
* Connections and sessions are used through raw pointers by receivers and by queued requests, and destroyed
  by a third thread.
* A write may stop after any byte of a packet of several parts; another thread goes on with it.
* A script's thread is woken through one condition variable for tasks, activation and its end, and is joined
  by a thread that owns `mMutex`; scripts wait for each other's answers.
* The page's functions are interrupted at every `await`; answers come in any order or not at all.

What makes each component correct: one logged-in connection per client id and a consistent link between
it and its session; no loss, order and exactly-once for QoS 2; every request executed exactly once, those
of a connection in order; no read remainder, no packet lost, repeated or torn; nothing used after it was
destroyed, and nothing kept for ever; the bytes of the packets on the wire, in order; no task or wake-up
lost, no caller that waits in vain; database, containers and page in agreement. `PROJECT.json` lists the
hazards with their lines.

## 2. The modules

| Module | Models | Instance |
| --- | --- | --- |
| `Session` | one client id: sessions, packet handlers, worker's execution of requests, publishers; arbitrary peers | `MCSession` |
| `Delivery` | extends `Session` by a correct MQTT client and connections that fail | `MCDelivery` |
| `ChangeQueue` | `requestChange`, both queues, `mMutex`, the worker's loop, other critical sections | `MCChangeQueue` |
| `Executor` | what `requestChange` promises; `ChangeQueue` implements it | |
| `Receiver` | the receive path of one connection: framing, held packets, login | `MCReceiver` |
| `SendPath` | the way of a packet to one client | `MCSendPath` |
| `Lifetime` | receivers, connections, sessions, requests and `cleanup`, which destroys | `MCLifetime` |
| `ScriptThread` | the scripts' threads and the broker's operations on them | `MCScriptThread` |
| `ScriptStore` | rows, containers and requests of scripts | |
| `WebUI` | extends `ScriptStore` by the Scripts page of the browser | `MCWebUI` |

The theorems about a module are in a module of their own: `SessionProofs`, `DeliveryProofs`
(which goes on from `SessionProofs`), `ChangeQueueProofs` (with the refinement of `Executor`), `ReceiverProofs`,
`SendPathProofs`, `LifetimeProofs`, `ScriptThreadProofs`, and `WebUIProofs` (about `ScriptStore` too). Section 4 describes them.

Definitions named `Bug...` are deliberately wrong variants of the definition that follows them. They are
not used by any specification; putting one in the place of the right one must make a property fail, which
shows that the property depends on that code.

### Session

Variables carry the names of the members they stand for. A session object is named by the connection whose
login created it (each connection makes at most one). `recv[c]` is the progress of `handlePacketReceived`
on connection `c`, which `mRecvMutex` serialises: `LoadSession` is the call of `getPersistentClientState`,
and the `Handle...` actions are what follows. Everything a handler does under the session's lock is one
step; the bits of `mQos2pubrecReceived`, which are written without it (lines 433 and 461), are read and
written in two. `ExecuteLogin`, `ExecuteLogout`, `ExecuteSubscribe` and `ExecuteUnsubscribe` are the
worker's, each one step because it owns `mMutex` exclusively. Receivers read the session pointer without
`mMutex`, and a takeover sets the pointer of the old connection to null before it sets `mLoggedOut`; in the
model both change at once, so that `StaleOnlyAfterLogout` speaks of the states in which the worker does not
hold the mutex. A receiver that reads in between finds no session and throws, as it does right after the
step. Publishers hold `mMutex` shared, so that
`Publish` is one step as well. `TimeoutLogout` and `SendErrorLogout` are `logoutClient` called by
`cleanup` and by `processInternalQueue`. `fault` records an undefined operation (a null `mCurrentClient`,
a failed assertion); what the model does after it means nothing.

Abstracted: one topic; a message is its number, which is its global order too; all packet ids lie in one
word of the bitsets; contents of packets are id, QoS and one flag; a SUBSCRIBE has one topic; time (a time-out is
possible at any moment); MQTT 5 properties. The will is published to a topic the session does not subscribe to,
and so are the client's own messages: `Forward` only marks the call of `app.publish`.
What `SubscriptionTree::addSubscription` makes of a repeated subscription is not in the repository: the old
and the new QoS are both allowed.

### Delivery

The client keeps its session: it subscribes with QoS 2, answers every PUBLISH, PUBREL and PUBREC, resends
after CONNACK what it has in flight, and opens a new connection when the old one is lost. A failure loses
everything on the way to the client and a suffix of what is on the way to the broker; the broker notices at
some later time, possibly after the next login (a takeover). The broker's steps are those of `Session`. The
client uses its `ClientIds` packet ids in turn, one after the other. `MaxOut` bounds what is published to it. `remarked` is a history variable: a
handler has set the mark of an id in a session that its connection has no more (`MarksDetached`).

*Fairness.* TCP delivers while a connection is up; receivers and worker keep running; `cleanup` closes
connections that were logged out; the client reconnects. Nothing obliges the broker to read from a
connection that is logged out (`removeClientConnection` takes it out of epoll), nor anyone to publish.

### ChangeQueue

Every access to a shared object is one step: locking, storing the id, testing it, pushing, popping,
clearing, unlocking. What a request does is left out, except that executing one, or `cleanup`, may request
another change (a will that is to be retained). `try_lock` by the thread that owns the mutex, which the
standard leaves open, fails, as it does with the pthread implementation. The worker's sleep levels change nothing that is
modelled.

*Fairness* (`FairSpec`). Threads that can go on do so; nobody is obliged to request anything. Weak fairness
is enough for the mutex because critical sections are finitely many in an instance.

*Refinement.* `Executor` has a set of outstanding requests, the sequence of executed ones, and two actions: a
request is issued, a request is executed. The mapping takes as outstanding what is in either queue, in the
hands of a thread inside `requestChange`, or being executed by the worker. `ImplementsExecutor` so says of
every single step that it drops nothing, executes nothing twice, and overtakes no older ASYNC request of the
same thread. Requests of mode TRY_SYNC_THEN_ASYNC are not ordered in `Executor`, because the code does not keep their
order.

### Receiver

A packet is its number, CONNECT is 0. The stream is what MQTT encodes: a type byte, the digits of the
remaining length (`Base` stands for 128), the data; the parser takes the values of the length bytes only and
keeps its integers modulo `Word`. TCP delivers any number of bytes at a time and `recv` returns what there
is, up to the size of its buffer. The login is two steps of the worker, since the session pointer is set
before the state becomes CONNECTED and the receiver looks at both without `mMutex`. `NeedsSession` are the
packets whose handler throws without a session. `Throw` is an exception that leaves the loop body: what was
read is forgotten, the parser stays as it is, so that a complete packet whose handler threw would be handled
once more. *Fairness*: receiver and worker keep running; the client may stop sending at any time.

### SendPath

The bytes on the wire are pairs of packet and position, so that a missing, doubled or moved byte shows. A
packet has the four parts of `EncodedPacket`. `IOVec` is what `constructIOVecs` builds for one part from an
offset, pointer arithmetic included: `+ 1` on the `uint16_t*` of the packet id moves by two bytes, and what
lies behind the id is a `Foreign` byte. `sendData` is two steps, since the receivers take EPOLLOUT events at
any time; `mSendError`, which the code sets after it has released `mSendMutex`, is set with the release.
Everything under `mSendMutex` in the handler of EPOLLOUT is one step. With edge-triggered epoll the event
comes when the peer has read after a write was cut short, and together with any other event. *Fairness*:
threads go on, and a peer that is still there reads.

### Lifetime

Connections and session objects are unused, in use, logged out or deleted, and freed. A receiver has the set
of connections epoll gave it and, inside a handler, the session pointer it loaded; requests carry either.
`cpc` is the place of the timer thread in `cleanup`: `suspendAllThreads` is broken up into the flag, the
second mutex, the loop of `try_lock` and signals, and the release; so is `resumeAllThreads`. The receivers' side is
`Interrupted`, `PassSecondMutex`, `Relock`. Everything under the exclusive `mMutex` is one step. One client
id and clean sessions are enough: only their objects are destroyed.

*Fairness*. Worker and timer thread keep running, a receiver ends its events; all of it is weak fairness. The
signal stays pending while the receiver works and interrupts the first `epoll_pwait` that finds no event
ready. Nothing guarantees that there is one: `mShouldSuspend` is tested only after EINTR, and `epoll_pwait`
returns what is ready first. `Starved` is the behaviour in which one suspension never ends because a receiver
always has events again; `SuspendEnds` and `LoggedOutFreed` except it, and show that it is the only way.

### ScriptThread

JavaScript code is a state of the thread in which it may set and clear time-outs, call a script, subscribe
and end well or with an exception. The loop of `scriptThreadFunc` is broken up where it gives the container's mutex up or
reads without it: the test of STOPPING, the lock, the two waits, the way out of them. `op` is the operation
that owns `mMutex` exclusively: activate and deactivate test and write in two steps, delete and replace wait
for the thread. `callScript` needs the shared `mMutex` and then waits for its answer. `subscribe` and
`unsubscribe` push a request into `mQueue` and wait (`pushing`) while it is full; other threads fill it too
(`Request`). Scripts are added and deleted by the worker, which therefore takes nothing out of `mQueue` while
it waits for a thread; of the queue only the length is modelled. *Fairness*: threads go
on when they can, JavaScript code ends (an interrupt handler stops it after five seconds), the owner of
`mMutex` goes on, the worker empties its queue. Spurious wake-ups happen and are not counted on.

### ScriptStore and WebUI

`ScriptStore` has per name the row, the container's state and the requests on their way; `Restart` loses the
queues and loads the rows. `WebUI` adds the browser: each asynchronous function is a call with one fetch in
flight, which the broker serves at some moment and after which the function goes on at some later one. The
page was opened in the initial state and may be left; timers and calls outlive it. The rates are two, in
turn. *Fairness*: the broker answers and executes its requests, the browser continues functions whose answers
are there and runs its intervals; the user need not do anything.

## 3. The runs

Passing runs, with their bounds:

| Run | Bounds | What it shows |
| --- | --- | --- |
| `session_lifecycle` | 3 connections, queue of 2, symmetric | `SessionLink`, `SingleLogin`, `CleanSessionAttached`, `LoginOnce`, `PersistentSessionKept`, `WillPublished`: a takeover of a takeover, with late errors of both, is within the bounds |
| `session_packets` | 2 connections, ids 1..2, 2 messages of any QoS, 1 queue slot, a retained message | arbitrary peers, all packets: types, `StaleOnlyAfterLogout`; ids wrap with two messages |
| `delivery_out` | 3 connections, 2 failures, 2 messages of QoS 1 or 2, 3 ids | `NoLoss`, `OrderedFirstDelivery`, `ExactlyOnceOut`: both connections fail with both messages in flight |
| `inbound` | 3 connections, 1 failure, 2 messages of the client under 1 packet id, 1 message to it, queue of 1 | `LostOnlyByMark`, `ForwardedUnlessMarked`: the second message uses the id of the first again; `Delivered` |
| `queue` | 2 threads and the worker, 1 slot, 2 requests, 2 sections | `InternalExclusive`, `RefCountCovers`, `InternalDrained`, `ImplementsExecutor`, `QueuedExecuted` |
| `receiver` | CONNECT and 4 packets with lengths of 0 to 8 to the base 2 (1 to 4 digits), buffer of 2 bytes | types, `HandledOnce`, `EventDrains`, `HeldHandled` |
| `send_path` | 2 threads, 2 receivers, 3 packets of 4 shapes, socket buffer of 4 bytes, batch of 2 | types, `WireFaithful`, `QueueDrains` |
| `lifetime` | 2 connections, 2 receivers, 2 session objects, 2 requests; any number of cleanups | `NothingFreedInUse`, `LoggedOutFreed`, `SuspendEnds` |
| `script_thread` | 2 scripts, 2 tasks, 1 time-out, 2 operations, queue of 1, full or empty at the start, 2 more requests | `WaitsForWork`, `CallerWaits`, `CallAnswered`, `QuitEnds`, `TimeoutRuns` |
| `webui` | 1 script, 2 calls at a time, queues of 2, 1 restart, 2 clicks, 2 changes of the rate, 1 failing fetch | types, `StoreAgrees`, `IntervalExact`, `ShowsList` |

The bounds are small, but each instance contains the case its properties are about: a second takeover before
the logout of the first connection was executed, an id counter that wraps, a full queue, a request made while
the mutex is held, a login executed in the middle of an event, a write that ends inside each part of each
packet, a queue longer than a batch, a receiver that is signalled while it works, a second cleanup with
requests of the first still queued, two scripts that call each other, a subscription that finds the queue full
while the worker waits for the script, a packet id that is used again, answers that overtake each other. Replacing a
definition by its `Bug` variant is found in every one of them. Deadlock is not checked: with bounded inputs
every behaviour may end; the liveness properties say what must not be left undone.

Several properties except a case by name (`overtaken`, `overlapped`, `late`, `overlong`, `splitIds`, `remarked`,
`Starved`, a thread that has ended or is `Blocked`). The exception is what the code does; the property shows that it is the only way.

Runs that end in a violation show where the code disagrees with what the repository says of it; each is
explained under `findings` in `PROJECT.json`:

| Run | What happens |
| --- | --- |
| `queue_push` | a thread that owns `mMutex` pushes into `mQueue` (`ApplicationState.cpp:114`) |
| `script_deactivated` | a deactivated script runs the tasks it has queued (`ScriptContainerJS.cpp:403`) |

Behaviours of the same kind that the models have, for which no run is kept:

* a QoS 0 message to a persistent session without connection reaches the null `mCurrentClient`
  (`ApplicationState.cpp:666`; `NoNullClient` in `Session`, violated as an invariant of `session_packets`,
  whose `PublishQoS` contains 0). `src/README.md:5` claims "Full support for MQTT 3.1.1", in which such a
  session may outlive its connection;
* the receiver of a connection that was taken over marks a packet id after it was released, and the client's
  next message under the id is answered and dropped (`ClientThreadManager.cpp:330`; `InboundNoLoss` in
  `Delivery`, violated as an invariant of `inbound`). The same claim covers it: MQTT lets a client use an id
  again after PUBCOMP;
* a packet length of four bytes is rejected (`ClientThreadManager.cpp:143`; `ValidLengthsAccepted` in `Receiver`,
  violated as an invariant of `receiver` with `NeedsSession = {}`), which MQTT 3.1.1 allows as well;
* a clean login onto an existing session keeps its subscriptions (`ApplicationState.cpp:354`);
* the will of a connection is not published when another one takes the session over (`:355`);
* of two retained messages of one thread the older may stay (`:175`);
* packets held during the login are overtaken by those parsed right after it (`ClientThreadManager.cpp:173`),
  or handled before it was executed, which logs the client out (`:592`);
* without a further event they are not handled at all (`:298`);
* DISCONNECT changes a will that `logoutClient` reads without a lock (`ApplicationState.cpp:480`; `WillStable`
  in `Session`);
* PUBREL is not sent again after a reconnect (`:386`; `HandshakeCompletes` in `Delivery`);
* a QoS 2 message is forwarded twice after a takeover (`ClientThreadManager.cpp:330`; `ExactlyOnceIn` in
  `Delivery`);
* a packet id cut in two by a partial write is sent wrong (`MQTTPublishPacketBuilder.cpp:102`);
* a queue of more than 256 packets may stay behind until the client sends something
  (`TcpClientConnection.cpp:73`), and a rejected connection whose CONNACK was written at once is not closed
  by the handler of EPOLLOUT (`ClientThreadManager.cpp:102`);
* a Subscribe executed after its session ended leaves a subscription of an object that is destroyed
  (`ApplicationState.cpp:245`);
* `suspendAllThreads` does not end while a receiver always finds events ready (`ClientThreadManager.cpp:49-54`);
* the worker joins the thread of a script that waits for `mMutex` in `callScript`, or for room in `mQueue` in
  `subscribe` (`ApplicationState.cpp:461`, `ScriptContainerJS.cpp:110`): neither goes on;
* `forceQuit` between the loop's test of STOPPING and its lock is not noticed (`ScriptContainerJS.cpp:401`);
  callers of a script that is deleted, or whose thread ended, wait for ever (`:228`, `:423`);
* PUT followed by a DELETE that is executed first leaves a container without a row (`ApplicationState.cpp:605`);
* a change of the refresh rate, or leaving the page, during an update leaves an interval that runs for ever
  (`webui/src/Utils.js:33`).

## 4. The proofs

TLC checks an instance with two or three connections, threads or packets; the theorems hold for every value
of the constants. All of them are of the form `Spec => []P` for an invariant P that a run checks
(`FailsForReason` excepted; and, where said, an action property or a refinement), follow from an inductive
invariant `Inv` of their module, and use no fairness. The assumptions are those the component's module states about its constants: which model values
differ, that capacities are positive, that messages and packets are what they are called.

| Theorem | States |
| --- | --- |
| `ChangeQueueProofs!TypeCorrect`, `InternalListProtected`, `InternalListEmptied` | types, `InternalExclusive`, `InternalDrained` |
| `ChangeQueueProofs!RefCountSound`, `ExecutorImplemented` | `RefCountCovers`; `Spec => ImplementsExecutor`, the refinement |
| `SessionProofs!TypeCorrect`, `LinkSound`, `OneLogin`, `CleanSessionEnds`, `ClientIdSetOnce`, `StalePointerLoggedOut` | types, `SessionLink`, `SingleLogin`, `CleanSessionAttached`, `LoginOnce`, `StaleOnlyAfterLogout` |
| `SessionProofs!WillSent`, `SessionKept` | the action properties `WillPublished`, `PersistentSessionKept` |
| `DeliveryProofs!MessagesKept`, `MessagesInOrder`, `MessagesOnce` | `NoLoss`, `OrderedFirstDelivery`, `ExactlyOnceOut`, in the setting below |
| `DeliveryProofs!InboundKept` | `LostOnlyByMark`, without an assumption on the client's ids |
| `ReceiverProofs!TypeCorrect`, `PacketsHandledOnce`, `FailsOnlyForReason`, `SocketDrained` | types, `HandledOnce`, `FailsForReason`, `EventDrains` |
| `SendPathProofs!TypeCorrect`, `WireSound` | types, `WireFaithful` |
| `LifetimeProofs!LifetimeSafe` | `NothingFreedInUse` |
| `ScriptThreadProofs!NoLostWakeup`, `CallsValid` | `WaitsForWork`, `CallerWaits` |
| `WebUIProofs!TypeCorrect`, `StoreConsistent`, `IntervalKnown` | types, `StoreAgrees`, `IntervalExact` |

### ChangeQueue

`InternalExclusive` and `InternalDrained` are not inductive. `Inv` adds

* `LockInv`: at the places of `HoldPcs` a thread owns the mutex; a nested call of `requestChange` is made
  by the owner; and the thread id, which others may have cleared, *names* a thread only while that thread
  owns the mutex or is between unlocking it and clearing the id. A thread in `requestChange` is not in that
  gap, so that finding its own id means owning the mutex. That is why the stale id leads to `queue_push`
  but never to an unprotected access to `mQueueInternal`.
* `DrainInv`: between the worker's loop and the unlock `mQueueInternal` is empty once something was
  executed; nobody else can add to it, by `LockInv`.

The second half of the module is about `Executor`. To show that every step is one of `Executor` or leaves its variables
alone, each action is first classified: it `Keeps` the outstanding requests, it `Issues` one, or it
`Executes` one. That a request is executed once needs `OnceInv` (no request is in two places), that none
overtakes an older one of its thread needs `OrderInv` (`mQueue` is sorted per thread, the request being
executed is older than those, the one in a thread's hand is the youngest), and both need `PlaceInv`, which
says where in its code a thread or the worker can have a request in hand. `CountInv`, that `mRefCount` *is*
the number of counted outstanding requests, follows from the same three kinds of steps.

### Session

`Inv` is `TypeOK`, `LoginInv` (a connection has at most one Login in the queue, and none once it is
CONNECTED) and `OwnerInv`, in which `SessionLink`, `SingleLogin`, `CleanSessionAttached` and
`StaleOnlyAfterLogout` are inductive only together and with `MadeInv` (a session object exists once its
connection has logged in, so that the name of a new object is not in use). Most actions leave ownership alone
(`Calm`); the proof is about login, logout, time-out and send error. Nothing is
proved about the null `mCurrentClient`: `NoNullClient` does not hold (section 3).

The steps are stated for `AnyNext`, in which receivers may take any packet and not only those of
`InPackets`, so that the invariant holds in `Delivery` too.

### Delivery

The theorems are about the session layer together with its client, for any number of connections, failures
and messages. `DeliveryProofs` shows first (`BaseInv`) that the session's invariant holds, that the client
uses one connection at a time and a connection carries nothing but CONNECT before it is logged in
(`PeerInv`), and that there is one session, persistent, to which all requests and receivers refer
(`OneSession`).

*To the client.* The theorems assume `Setting`: messages have QoS 1 or 2, none is retained, and fewer are
published than there are ids. The last hypothesis is needed: `emplace` keeps the old message of an id that
is still in use, so that the new one is lost (TLC finds this with three messages and two ids). The others
bound what is said: QoS 0 promises nothing, and a retained message takes an id without being one of the
promised ones. `Flow` is the invariant:

* `IdInv`: since the session was subscribed, each message took the next id, so that id and global order differ
  by a constant (`Offset`) and an id in flight determines its message;
* `StreamInv`: what is on the way to a connection is `WellSent`: PUBLISHes in ascending order of their ids,
  without a gap that the client does not have already; a PUBREL only for an id that is free and not also
  in the stream as PUBLISH; CONNACK first;
* `AttachedInv`: everything given out that the client does not have is on the way to the connection that the
  session is attached to;
* `AnswerInv`: PUBACK and PUBREC, in a stream or in the hands of a receiver, name messages the client has.
  This is what makes late acknowledgements of lost connections harmless;
* `FreeInv`: the bits of `mQos2pubrecReceived`, and the words receivers have read of it, name free ids;
* `HadInv`: every id given out is in flight or the client has its message, and it has received in order.

Each action is classified: it is `Routine`, or it is one of four that matter (the client reads PUBLISH, PUBREL or
CONNACK; a receiver `Acknowledges`; a connection `LogsIn`; a publisher publishes). `NoLoss` and
`OrderedFirstDelivery` follow from `Flow`. `ExactlyOnceOut` needs `OnceInv` as well: there is a function from ids
to QoS with which slots, streams and the received messages agree (`Agree`), and a message of QoS 2 that the
client has and may still come again has its id in the client's `cIds`; a client that drops `cIds`, because
CONNACK says that the broker has no session, has received nothing (`FlagInv`).

*From the client.* `LostOnlyByMark` says that a message the client has forgotten was forwarded or is about to
be, unless `remarked`; the client may use its ids as often as it likes, and nothing is assumed about QoS,
retained messages or the broker's ids. `InboundInv` has two parts:

* `HandshakeInv`: at most one packet of the handshake is on its way on the connection the client uses,
  counting both streams and the receiver's hands, and it is about the client's current message; a
  connection that the client has left and that is still attached to the session has such packets only while
  the client's own is not yet logged in;
* `MarkInv`, up to the first mark that is set on a detached session: a mark in `mQoS2receivingPacketIds`
  means that the client's current message has this id and was passed to `app.publish`, or that a receiver is
  about to do so; PUBREC on its way says the same, and PUBCOMP that the mark is gone.

The exception is needed: the receiver of a connection that was taken over may handle an old PUBLISH after the
id was released on the new connection; it forwards the message a second time (the flaw of `ExactlyOnceIn` in
section 3) and marks the id again, and the next message under this id is answered with PUBREC and dropped (section 3).

### Receiver

`HandledOnce` for every list of packets, base of the digits and size of the buffer. `PositionInv` says that,
as long as the connection was not given up, there is a number k such that the parser has taken exactly the
first k packets (`Parsing(k)`) and each of them has been handled or is held once (`Accounted(k)`). While the
parser is inside packet k, it has d digits of the length and the value so far is the length modulo the
weight of the next digit; that the last digit makes it the length, without overflow, is shown from quotient
and remainder (`AddDigit`, `DigitValue`). Every step of the parser `GoesOn` in the packet, `HandsOver` the
packet or `Rejects` its length; the first is no event for the packets, the second is one packet more. The
stream is a recursive function of the number of packets: what it is (`SentDef`, `SentFacts`, `Prefix`) is
proved by induction, in the form `SetInduction`, which speaks of a set instead of a predicate and follows
from the well-foundedness of the natural numbers. `FailsForReason`, stated in
`ReceiverProofs`, holds because the digits taken before a rejection are four, and because held packets were
all taken before; the first of the two reasons is one too many, since MQTT
allows four digits.

### SendPath

`WireFaithful` for every size of the four parts, every room in the socket and every cut. The idea is that
the number of bytes on the wire determines everything else: with `Start(acc, n)`, the length of the first n
packets, the task of packet n has to be `Task(acc, n, q)` when q bytes were written. `PlaceInv` says that, as
long as there was no error, the packets that are not complete are those in `mSendTasks` and in the hand of
the `sendData` that owns `mSendMutex`, in order and with exactly these offsets (`Placed`). `HandInv` says
who has a packet in hand and that after an error nothing is written any more; `LogoutInv`, that a client of an
unknown version gets nothing behind its CONNACK; `WireInv`, what each byte of the wire is (`Content`) and which
ids were cut (`Split`), which is where the wrong byte of `WireFaithful` comes from. One write is dealt with once,
for `sendData` and for EPOLLOUT: what is offered to the socket is what follows the bytes that are on the wire
(`OfferedFacts`, from `IOVecFacts` and `VectorFacts`), and the loop that hands out the result moves the
offsets to where the wire ends then (`AdvanceFacts`, `EraseFacts`, `WriteFacts`). What `FlattenSeq` and the
recursive sums are is proved by the induction of `ReceiverProofs` (`FlattenFacts`, `RestDef`).

### Lifetime

Two mechanisms protect objects, and `Inv` has one part for each: `ParkInv` (while `cleanup` owns the suspend
mutex every receiver is parked and a parked receiver has no pointer) and `CountInv` (a reference count is
the number of requests in the queue that name the object). `AttachInv` says what the other pointers lead to;
the exception, a subscription made for a session that was deleted before, is part of the property.

### ScriptThread

`WaitsForWork` is inductive with the types: every change of what a thread waits for comes with a notification
under its mutex. `CallerWaits` needs `CallInv`: a caller is named by one task at most, queued or
running, and is in `callScript` for as long as it is.

### ScriptStore and WebUI

`StoreAgrees` needs `PendingInv` (a script whose addition is queued has an active row, and its deletion is
not queued), under the exception the property has, that no request was made while another one was queued.
`IntervalExact` needs `IntervalInv` (at most one call that will set an interval is on its way, and none is
set while it is) and `TimerInv`, which counts the ids given.

### Only model-checked

All liveness properties, which are beyond the prover: `Delivered`, `ForwardedUnlessMarked`, `QueuedExecuted`, `HeldHandled`,
`QueueDrains`, `LoggedOutFreed`, `SuspendEnds`, `CallAnswered`, `QuitEnds`, `TimeoutRuns`, `ShowsList`.

## 5. Not modelled, and the plan

Not modelled:

* third-party code: QuickJS (`thirdparty/`), the bundled `webui/public/chart.js`, CodeMirror, uWebSockets,
  SQLite, libnioev (a submodule that is not in the repository). What the code uses of them is marked
  external in the map. Most lines of JavaScript in the repository are such code: the program's own are the
  few files of `webui/src`;
* the Overview page (it draws the answer of one request with chart.js; its updates go through the
  `RefreshManager` that is modelled), Settings, layout and styles;
* native script libraries: they run a compiler and `dlopen`;
* `AsyncPublisher`: a queue of libnioev that calls `publish` in order; `Statistics`: histograms that only the
  Overview page shows; `BigString` and `BigVector`: containers without concurrency;
* the map of retained messages, its table (rewritten as a whole every ten minutes) and what is sent from it
  at a subscription, of which `Session` has one message; WebSocket subscribers; `.cpp` scripts;
* several client ids at once, and the matching of topics (`SubscriptionTree` is part of libnioev).

Every invariant and every action property that a passing run checks is proved. What is left for the prover are
the theorems of `DeliveryProofs` for ids that wrap around while few messages are in flight: an id would then
determine its message only among those in flight.
