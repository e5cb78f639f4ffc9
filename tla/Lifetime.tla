------------------------------ MODULE Lifetime ------------------------------
(***************************************************************************)
(* When connections and sessions are destroyed.  Receiver threads use raw  *)
(* pointers to the connections epoll reports and to the sessions they find *)
(* there, and requests in the queue carry both.  logoutClient only marks a *)
(* connection; the timer's cleanup() destroys it later, once it has parked *)
(* every receiver in a place where it has no pointer and if no request in  *)
(* the queue counts on the object.                                         *)
(*                                                                         *)
(* Receivers are parked with two mutexes, a flag and a signal: they own    *)
(* mSuspendMutex shared except where they park, the signal gets them out   *)
(* of epoll_pwait, and mSuspendMutex2 keeps those that have given          *)
(* mSuspendMutex up from taking it again before all have.                  *)
(*                                                                         *)
(* All clients use one client id and clean sessions, which are destroyed   *)
(* when they end.  What is done with the application's mMutex owned        *)
(* exclusively is one step.                                                *)
(***************************************************************************)
EXTENDS Integers, Sequences, FiniteSets

CONSTANTS
    Conns,          \* the connections, each accepted at most once
    Receivers,      \* receiver threads
    MaxSessions,    \* bound on the session objects made
    MaxRequests     \* bound on the requests the receivers make

ASSUME LifetimeAssumption == MaxSessions \in Nat /\ MaxRequests \in Nat

Sessions == 1..MaxSessions
None == 0           \* the null pointer

VARIABLES
    conn,           \* per connection: "unused", "open", "loggedOut" or "freed"
    session,        \* per object: "unused", "live", "deleted" or "freed"
    mPersistentClientState,     \* per connection, its session or None
    current,        \* the session under the client id, or None
    mSubscriptions, \* the sessions with a subscription
    mQueue,
    connRefCount, sessionRefCount,
    mShouldCleanup,
    rpc,            \* per receiver: "epoll", "working", "parking" or "relock"
    events,         \* per receiver, the connections it has events for
    held,           \* per receiver, the session pointer a handler has loaded
    signal,         \* per receiver, whether SIGUSR1 is pending
    mShouldSuspend, mSuspendMutex2,
    cpc,            \* the timer thread in cleanup
    requests,
    late            \* auxiliary: sessions whose Subscribe came after their deletion

objectVars == <<conn, session, mPersistentClientState, current, mSubscriptions>>
queueVars == <<mQueue, connRefCount, sessionRefCount>>
receiverVars == <<rpc, events, held, signal>>
suspendVars == <<mShouldSuspend, mSuspendMutex2, cpc>>
vars == <<objectVars, queueVars, mShouldCleanup, receiverVars, suspendVars, requests, late>>

Requests ==
    [type: {"Login", "Logout"}, client: Conns] \cup [type: {"Subscribe"}, subscriber: Sessions]
CleanupPcs == {"idle", "suspend", "lock2", "try", "unlock2", "erase", "resume", "resumed"}

(* What every variable may hold. *)
TypeOK ==
    /\ conn \in [Conns -> {"unused", "open", "loggedOut", "freed"}]
    /\ session \in [Sessions -> {"unused", "live", "deleted", "freed"}]
    /\ mPersistentClientState \in [Conns -> Sessions \cup {None}]
    /\ current \in Sessions \cup {None} /\ mSubscriptions \subseteq Sessions
    /\ mQueue \in Seq(Requests)
    /\ connRefCount \in [Conns -> Nat] /\ sessionRefCount \in [Sessions -> Nat]
    /\ rpc \in [Receivers -> {"epoll", "working", "parking", "relock"}]
    /\ events \in [Receivers -> SUBSET Conns] /\ held \in [Receivers -> Sessions \cup {None}]
    /\ signal \in [Receivers -> BOOLEAN]
    /\ mShouldCleanup \in BOOLEAN /\ mShouldSuspend \in BOOLEAN /\ mSuspendMutex2 \in BOOLEAN
    /\ cpc \in CleanupPcs
    /\ requests \in 0..MaxRequests /\ late \subseteq Sessions

Init ==
    /\ conn = [c \in Conns |-> "unused"] /\ session = [s \in Sessions |-> "unused"]
    /\ mPersistentClientState = [c \in Conns |-> None]
    /\ current = None /\ mSubscriptions = {}
    /\ mQueue = <<>>
    /\ connRefCount = [c \in Conns |-> 0] /\ sessionRefCount = [s \in Sessions |-> 0]
    /\ mShouldCleanup = FALSE
    /\ rpc = [r \in Receivers |-> "epoll"] /\ events = [r \in Receivers |-> {}]
    /\ held = [r \in Receivers |-> None] /\ signal = [r \in Receivers |-> FALSE]
    /\ mShouldSuspend = FALSE /\ mSuspendMutex2 = FALSE /\ cpc = "idle"
    /\ requests = 0 /\ late = {}

-----------------------------------------------------------------------------
(* Receivers *)

\* handleNewClientConnection
Accept(c) ==
    /\ conn[c] = "unused"
    /\ conn' = [conn EXCEPT ![c] = "open"]
    /\ UNCHANGED <<session, mPersistentClientState, current, mSubscriptions, queueVars,
                   mShouldCleanup, receiverVars, suspendVars, requests, late>>

\* epoll_pwait returns events: removeClientConnection has ended those of the logged out
EpollReturns(r) ==
    /\ rpc[r] = "epoll"
    /\ \E cs \in SUBSET {c \in Conns : conn[c] = "open"} :
         cs # {} /\ events' = [events EXCEPT ![r] = cs]
    /\ rpc' = [rpc EXCEPT ![r] = "working"]
    /\ UNCHANGED <<objectVars, queueVars, mShouldCleanup, held, signal, suspendVars, requests,
                   late>>

\* epoll_pwait is interrupted; SIGUSR1 is blocked everywhere else, and kept for it
Interrupted(r) ==
    /\ rpc[r] = "epoll" /\ signal[r]
    /\ signal' = [signal EXCEPT ![r] = FALSE]
    /\ rpc' = [rpc EXCEPT ![r] = IF mShouldSuspend THEN "parking" ELSE "epoll"]
    /\ UNCHANGED <<objectVars, queueVars, mShouldCleanup, events, held, suspendVars, requests,
                   late>>

BugNoSecondMutex(r) ==
    /\ rpc[r] = "parking"
    /\ rpc' = [rpc EXCEPT ![r] = "relock"]
    /\ UNCHANGED <<objectVars, queueVars, mShouldCleanup, events, held, signal, suspendVars,
                   requests, late>>

\* mSuspendMutex2 is locked shared and unlocked again
PassSecondMutex(r) ==
    /\ rpc[r] = "parking" /\ ~mSuspendMutex2
    /\ rpc' = [rpc EXCEPT ![r] = "relock"]
    /\ UNCHANGED <<objectVars, queueVars, mShouldCleanup, events, held, signal, suspendVars,
                   requests, late>>

SuspendMutexOwned == cpc \in {"unlock2", "erase", "resume"}

\* suspendLock.lock()
Relock(r) ==
    /\ rpc[r] = "relock" /\ ~SuspendMutexOwned
    /\ rpc' = [rpc EXCEPT ![r] = "epoll"]
    /\ UNCHANGED <<objectVars, queueVars, mShouldCleanup, events, held, signal, suspendVars,
                   requests, late>>

\* requestChange counts the request and queues it
RequestChange(req) ==
    /\ requests < MaxRequests
    /\ requests' = requests + 1
    /\ mQueue' = Append(mQueue, req)
    /\ IF req.type = "Subscribe"
       THEN /\ sessionRefCount' = [sessionRefCount EXCEPT ![req.subscriber] = @ + 1]
            /\ UNCHANGED connRefCount
       ELSE /\ connRefCount' = [connRefCount EXCEPT ![req.client] = @ + 1]
            /\ UNCHANGED sessionRefCount

\* CONNECT, or a packet that makes the handler throw
RequestForClient(r, c, type) ==
    /\ rpc[r] = "working" /\ c \in events[r]
    /\ RequestChange([type |-> type, client |-> c])
    /\ UNCHANGED <<objectVars, mShouldCleanup, receiverVars, suspendVars, late>>

\* A handler loads the session of its connection ...
LoadSession(r, c) ==
    /\ rpc[r] = "working" /\ c \in events[r]
    /\ held[r] = None /\ mPersistentClientState[c] # None
    /\ held' = [held EXCEPT ![r] = mPersistentClientState[c]]
    /\ UNCHANGED <<objectVars, queueVars, mShouldCleanup, rpc, events, signal, suspendVars,
                   requests, late>>

\* ... and, for SUBSCRIBE, requests a change for it
RequestSubscribe(r) ==
    /\ held[r] # None
    /\ RequestChange([type |-> "Subscribe", subscriber |-> held[r]])
    /\ UNCHANGED <<objectVars, mShouldCleanup, receiverVars, suspendVars, late>>

\* Nothing is left to be read from c; after the last event the receiver goes back to epoll
FinishEvent(r, c) ==
    /\ rpc[r] = "working" /\ c \in events[r]
    /\ events' = [events EXCEPT ![r] = @ \ {c}]
    /\ held' = [held EXCEPT ![r] = None]
    /\ rpc' = [rpc EXCEPT ![r] = IF events'[r] = {} THEN "epoll" ELSE "working"]
    /\ UNCHANGED <<objectVars, queueVars, mShouldCleanup, signal, suspendVars, requests, late>>

-----------------------------------------------------------------------------
(* The worker *)

\* logoutClient for each of cs: a session that is still attached ends with it
LogoutClients(cs) ==
    LET ended == {mPersistentClientState[c] : c \in cs} \ {None} IN
    /\ conn' = [c \in Conns |-> IF c \in cs THEN "loggedOut" ELSE conn[c]]
    /\ session' = [s \in Sessions |-> IF s \in ended THEN "deleted" ELSE session[s]]
    /\ mPersistentClientState' =
            [c \in Conns |-> IF c \in cs THEN None ELSE mPersistentClientState[c]]
    /\ current' = IF current \in ended THEN None ELSE current
    /\ mSubscriptions' = mSubscriptions \ ended

BugUnnoticed(c) ==
    /\ connRefCount' = [connRefCount EXCEPT ![c] = @ - 1]
    /\ mShouldCleanup' = \/ mShouldCleanup
                         \/ \E d \in Conns : conn[d] = "open" /\ conn'[d] = "loggedOut"
    /\ UNCHANGED sessionRefCount

\* The request of a client is executed: what is no longer counted on and logged out is
\* worth a cleanup, as is every logout
Uncount(c) ==
    /\ connRefCount' = [connRefCount EXCEPT ![c] = @ - 1]
    /\ mShouldCleanup' = \/ mShouldCleanup
                         \/ \E d \in Conns : conn[d] = "open" /\ conn'[d] = "loggedOut"
                         \/ connRefCount'[c] = 0 /\ conn'[c] = "loggedOut"
    /\ UNCHANGED sessionRefCount

Pop == mQueue # <<>> /\ mQueue' = Tail(mQueue)

\* A login that meets a session of its client id takes it over and logs its connection
\* out, which has no session then; otherwise a session is made
ExecuteLogin ==
    LET c == Head(mQueue).client
        old == {d \in Conns : current # None /\ mPersistentClientState[d] = current}
        s == IF current # None THEN current ELSE CHOOSE x \in Sessions : session[x] = "unused"
    IN
    /\ Pop /\ Head(mQueue).type = "Login"
    /\ \/ conn[c] = "loggedOut" /\ UNCHANGED <<conn, session, mPersistentClientState, current>>
       \/ /\ conn[c] # "loggedOut"
          /\ current # None \/ \E x \in Sessions : session[x] = "unused"
          /\ conn' = [d \in Conns |-> IF d \in old THEN "loggedOut" ELSE conn[d]]
          /\ session' = [session EXCEPT ![s] = "live"]
          /\ mPersistentClientState' =
                [d \in Conns |-> IF d = c THEN s ELSE IF d \in old THEN None
                                 ELSE mPersistentClientState[d]]
          /\ current' = s
    /\ Uncount(c)
    /\ UNCHANGED <<mSubscriptions, receiverVars, suspendVars, requests, late>>

ExecuteLogout ==
    LET c == Head(mQueue).client IN
    /\ Pop /\ Head(mQueue).type = "Logout"
    /\ IF conn[c] = "loggedOut" THEN UNCHANGED objectVars ELSE LogoutClients({c})
    /\ Uncount(c)
    /\ UNCHANGED <<receiverVars, suspendVars, requests, late>>

\* isDeleted() is false for every subscriber: the request is executed, and the end of a
\* deleted session's last request is not noticed
ExecuteSubscribe ==
    LET s == Head(mQueue).subscriber IN
    /\ Pop /\ Head(mQueue).type = "Subscribe"
    /\ mSubscriptions' = mSubscriptions \cup {s}
    /\ late' = IF session[s] = "live" THEN late ELSE late \cup {s}
    /\ sessionRefCount' = [sessionRefCount EXCEPT ![s] = @ - 1]
    /\ UNCHANGED <<conn, session, mPersistentClientState, current, connRefCount, mShouldCleanup,
                   receiverVars, suspendVars, requests>>

\* processInternalQueue logs a client out whose connection had an error in sendData
SendErrorLogout(c) ==
    /\ conn[c] = "open"
    /\ LogoutClients({c})
    /\ mShouldCleanup' = TRUE
    /\ UNCHANGED <<queueVars, receiverVars, suspendVars, requests, late>>

-----------------------------------------------------------------------------
(* cleanup, on the timer thread *)

\* Connections whose keep-alive interval has run out twice are logged out
CleanupBegins ==
    /\ cpc = "idle"
    /\ \E cs \in SUBSET {c \in Conns : conn[c] = "open"} :
         /\ LogoutClients(cs)
         /\ mShouldCleanup' = (mShouldCleanup \/ cs # {})
    /\ cpc' = IF mShouldCleanup' THEN "suspend" ELSE "idle"
    /\ UNCHANGED <<queueVars, receiverVars, mShouldSuspend, mSuspendMutex2, requests, late>>

\* suspendAllThreads, with mMutex unlocked: the flag, then the second mutex
BeginSuspend ==
    /\ \/ cpc = "suspend" /\ cpc' = "lock2" /\ mShouldSuspend' = TRUE /\ UNCHANGED mSuspendMutex2
       \/ cpc = "lock2" /\ cpc' = "try" /\ mSuspendMutex2' = TRUE /\ UNCHANGED mShouldSuspend
    /\ UNCHANGED <<objectVars, queueVars, mShouldCleanup, receiverVars, requests, late>>

Running == {r \in Receivers : rpc[r] \in {"epoll", "working"}}

BugTryOnce ==
    /\ cpc = "try"
    /\ cpc' = "unlock2"
    /\ UNCHANGED <<objectVars, queueVars, mShouldCleanup, receiverVars, mShouldSuspend,
                   mSuspendMutex2, requests, late>>

\* try_lock, and a signal for every receiver while it fails
TrySuspend ==
    /\ cpc = "try"
    /\ IF Running = {}
       THEN cpc' = "unlock2" /\ UNCHANGED signal
       ELSE signal' = [r \in Receivers |-> TRUE] /\ UNCHANGED cpc
    /\ UNCHANGED <<objectVars, queueVars, mShouldCleanup, rpc, events, held, mShouldSuspend,
                   mSuspendMutex2, requests, late>>

EndSuspend ==
    /\ cpc = "unlock2"
    /\ mSuspendMutex2' = FALSE /\ cpc' = "erase"
    /\ UNCHANGED <<objectVars, queueVars, mShouldCleanup, receiverVars, mShouldSuspend, requests,
                   late>>

\* With mMutex locked again: what is logged out or deleted, and not counted on, goes
Erase ==
    /\ cpc = "erase"
    /\ conn' = [c \in Conns |-> IF conn[c] = "loggedOut" /\ connRefCount[c] = 0
                                THEN "freed" ELSE conn[c]]
    /\ session' = [s \in Sessions |-> IF session[s] = "deleted" /\ sessionRefCount[s] = 0
                                      THEN "freed" ELSE session[s]]
    /\ mShouldCleanup' = FALSE /\ cpc' = "resume"
    /\ UNCHANGED <<mPersistentClientState, current, mSubscriptions, queueVars, receiverVars,
                   mShouldSuspend, mSuspendMutex2, requests, late>>

\* resumeAllThreads: the mutex, then the flag
Resume ==
    /\ \/ cpc = "resume" /\ cpc' = "resumed" /\ UNCHANGED mShouldSuspend
       \/ cpc = "resumed" /\ cpc' = "idle" /\ mShouldSuspend' = FALSE
    /\ UNCHANGED <<objectVars, queueVars, mShouldCleanup, receiverVars, mSuspendMutex2, requests,
                   late>>

-----------------------------------------------------------------------------
Worker == ExecuteLogin \/ ExecuteLogout \/ ExecuteSubscribe
Cleanup == CleanupBegins \/ BeginSuspend \/ TrySuspend \/ EndSuspend \/ Erase \/ Resume
Parking(r) == Interrupted(r) \/ PassSecondMutex(r) \/ Relock(r)
Receiving(r) ==
    \/ EpollReturns(r) \/ RequestSubscribe(r)
    \/ \E c \in Conns : LoadSession(r, c) \/ \E t \in {"Login", "Logout"} : RequestForClient(r, c, t)
Finishing(r) == \E c \in Conns : FinishEvent(r, c)

Next ==
    \/ \E c \in Conns : Accept(c) \/ SendErrorLogout(c)
    \/ \E r \in Receivers : Receiving(r) \/ Finishing(r) \/ Parking(r)
    \/ Worker \/ Cleanup

\* The worker and the timer thread keep running, and so does a receiver that parks.  A
\* pending signal interrupts an epoll_pwait that finds no event ready, and only that:
\* weak fairness, since a receiver that finds events again and again is never interrupted.
\* Nothing obliges a receiver to finish: it reads for as long as data keeps coming.
Fairness == WF_vars(Worker) /\ WF_vars(Cleanup) /\ \A r \in Receivers : WF_vars(Parking(r))

Spec == Init /\ [][Next]_vars /\ Fairness

-----------------------------------------------------------------------------
(* Properties *)

Named(r) == IF r.type = "Subscribe" THEN session[r.subscriber] ELSE conn[r.client]

(* Nothing is used after it was destroyed.  No receiver has a pointer to a         *)
(* destroyed connection or session, although it may have taken the event or       *)
(* loaded the pointer before the logout; no request in the queue names such an    *)
(* object; and no subscription leads to a destroyed session, except one that a    *)
(* Subscribe has made after the session was deleted (isDeleted() is false).       *)
NothingFreedInUse ==
    /\ TypeOK
    /\ \A r \in Receivers :
         /\ \A c \in events[r] : conn[c] # "freed"
         /\ held[r] # None => session[held[r]] # "freed"
    /\ \A i \in DOMAIN mQueue : Named(mQueue[i]) # "freed"
    /\ \A s \in mSubscriptions : session[s] # "freed" \/ s \in late

\* One suspension never ends, because a receiver always has events again (or never ends
\* its reading): mShouldSuspend is tested only after EINTR, and epoll_pwait returns what is
\* ready before it looks for signals
Starved == <>[](cpc = "try") /\ \E r \in Receivers : []<>(rpc[r] = "working")

(* A connection that is logged out is destroyed in the end, also if requests for  *)
(* it are executed only after the next cleanup, unless suspendAllThreads starves.  *)
LoggedOutFreed == (\A c \in Conns : conn[c] = "loggedOut" ~> conn[c] = "freed") \/ Starved

(* cleanup comes to its end again and again: that receivers are interrupted one    *)
(* by one, pass the second mutex and lock the first again while others still run   *)
(* keeps suspendAllThreads from ending only if one of them always has events.       *)
SuspendEnds == []<>(cpc = "idle") \/ Starved
=============================================================================
