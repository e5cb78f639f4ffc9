---------------------------- MODULE LifetimeProofs ----------------------------
(***************************************************************************)
(* That nothing is destroyed while it is in use, for any set of            *)
(* connections and receivers and any number of sessions and requests.      *)
(***************************************************************************)
EXTENDS Lifetime, SequenceTheorems, FunctionTheorems, FiniteSetTheorems, TLAPS

(* While cleanup owns mSuspendMutex every receiver is parked; and a receiver that *)
(* is not working on events has no pointer.                                       *)
ParkInv ==
    /\ SuspendMutexOwned => \A r \in Receivers : rpc[r] \in {"parking", "relock"}
    /\ \A r \in Receivers : rpc[r] # "working" => events[r] = {} /\ held[r] = None

(* A session that a connection or the client id leads to is live, and belongs to  *)
(* one connection; a subscription outlives its session only if it came late.      *)
AttachInv ==
    /\ current # None => session[current] = "live"
    /\ \A c \in Conns : mPersistentClientState[c] # None
                          => session[mPersistentClientState[c]] = "live"
    /\ \A c, d \in Conns : c # d /\ mPersistentClientState[c] = mPersistentClientState[d]
                             => mPersistentClientState[c] = None
    /\ \A s \in mSubscriptions : session[s] = "live" \/ s \in late

\* The requests that name a connection or a session
ForConn(c) == {q \in Requests : q.type # "Subscribe" /\ q.client = c}
ForSession(s) == {q \in Requests : q.type = "Subscribe" /\ q.subscriber = s}
Places(q, N) == {i \in DOMAIN q : q[i] \in N}
Count(q, N) == Cardinality(Places(q, N))

(* The reference counts are the numbers of requests in the queue. *)
CountInv ==
    /\ \A c \in Conns : connRefCount[c] = Count(mQueue, ForConn(c))
    /\ \A s \in Sessions : sessionRefCount[s] = Count(mQueue, ForSession(s))

\* The inductive invariant
Inv == NothingFreedInUse /\ ParkInv /\ AttachInv /\ CountInv

-----------------------------------------------------------------------------
(* Facts about the operators *)

(* A queue has finitely many places. *)
LEMMA PlacesFinite ==
    ASSUME NEW S, NEW q \in Seq(S), NEW N
    PROVE  IsFiniteSet(Places(q, N)) /\ Count(q, N) \in Nat
<1>1. IsFiniteSet(1..Len(q)) /\ Places(q, N) \in SUBSET (1..Len(q))
  BY FS_Interval DEF Places
<1>. QED
  BY <1>1, FS_Subset, FS_CardinalityType DEF Count

(* Nothing is counted in an empty queue, and a count of zero means that nothing is *)
(* there.                                                                          *)
LEMMA CountZero ==
    ASSUME NEW S, NEW q \in Seq(S), NEW N
    PROVE  /\ q = <<>> => Count(q, N) = 0
           /\ Count(q, N) = 0 => \A i \in DOMAIN q : q[i] \notin N
<1>1. Count(q, N) = 0 <=> Places(q, N) = {}
  BY PlacesFinite, FS_EmptySet DEF Count
<1>2. q = <<>> => Places(q, N) = {}
  BY DEF Places
<1>. QED
  BY <1>1, <1>2 DEF Places

(* A request that is appended is counted. *)
LEMMA CountAppend ==
    ASSUME NEW S, NEW q \in Seq(S), NEW x \in S, NEW N
    PROVE  Count(Append(q, x), N) = IF x \in N THEN Count(q, N) + 1 ELSE Count(q, N)
<1>1. /\ DOMAIN Append(q, x) = DOMAIN q \cup {Len(q) + 1}
      /\ \A i \in DOMAIN q : Append(q, x)[i] = q[i]
      /\ Append(q, x)[Len(q) + 1] = x /\ Len(q) + 1 \notin DOMAIN q
  OBVIOUS
<1>2. CASE x \in N
  <2>1. Places(Append(q, x), N) = Places(q, N) \cup {Len(q) + 1} /\ Len(q) + 1 \notin Places(q, N)
    BY <1>1, <1>2 DEF Places
  <2>. QED
    BY <1>2, <2>1, PlacesFinite, FS_AddElement DEF Count
<1>3. CASE x \notin N
  <2>1. Places(Append(q, x), N) = Places(q, N)
    BY <1>1, <1>3 DEF Places
  <2>. QED
    BY <1>3, <2>1 DEF Count
<1>. QED
  BY <1>2, <1>3

(* A request that is taken from the head is no longer counted: the places of the   *)
(* others are those they had before, less one.                                     *)
LEMMA CountTail ==
    ASSUME NEW S, NEW q \in Seq(S), q # <<>>, NEW N
    PROVE  Count(Tail(q), N) = IF Head(q) \in N THEN Count(q, N) - 1 ELSE Count(q, N)
<1>. DEFINE P == Places(q, N) \ {1}
            f == [i \in Places(Tail(q), N) |-> i + 1]
<1>1. /\ DOMAIN q = 1..Len(q) /\ Len(q) \in Nat /\ Head(q) = q[1] /\ 1 \in DOMAIN q
      /\ DOMAIN Tail(q) = 1..(Len(q) - 1)
      /\ \A i \in DOMAIN Tail(q) : Tail(q)[i] = q[i + 1]
  OBVIOUS
<1>2. f \in Bijection(Places(Tail(q), N), P)
  <2>1. f \in [Places(Tail(q), N) -> P]
    BY <1>1 DEF Places
  <2>2. \A i, j \in Places(Tail(q), N) : f[i] = f[j] => i = j
    BY <1>1 DEF Places
  <2>3. ASSUME NEW k \in P PROVE \E i \in Places(Tail(q), N) : f[i] = k
    <3>1. k \in 1..Len(q) /\ k # 1 /\ q[k] \in N
      BY <1>1 DEF Places
    <3>2. k - 1 \in DOMAIN Tail(q) /\ (k - 1) + 1 = k
      BY <1>1, <3>1
    <3>3. Tail(q)[k - 1] = q[k]
      BY <1>1, <3>2
    <3>4. k - 1 \in Places(Tail(q), N)
      BY <3>1, <3>2, <3>3 DEF Places
    <3>. QED
      BY <3>2, <3>4
  <2>. QED
    BY <2>1, <2>2, <2>3, Fun_IsBij
<1>3. Cardinality(P) = Count(Tail(q), N)
  <2>1. ExistsBijection(Places(Tail(q), N), P)
    BY <1>2 DEF ExistsBijection
  <2>2. IsFiniteSet(Places(Tail(q), N))
    <3>1. Tail(q) \in Seq(S)
      OBVIOUS
    <3>. QED
      BY <3>1, PlacesFinite
  <2>. QED
    BY <2>1, <2>2, FS_Bijection DEF Count
<1>4. Cardinality(P) = IF 1 \in Places(q, N) THEN Count(q, N) - 1 ELSE Count(q, N)
  BY PlacesFinite, FS_RemoveElement DEF Count
<1>5. 1 \in Places(q, N) <=> Head(q) \in N
  BY <1>1 DEF Places
<1>. QED
  BY <1>3, <1>4, <1>5

(* A request names either a connection or a session. *)
LEMMA RequestForm ==
    ASSUME NEW q \in Requests
    PROVE  \/ q.type \in {"Login", "Logout"} /\ q.client \in Conns
           \/ q.type = "Subscribe" /\ q.subscriber \in Sessions
BY DEF Requests

-----------------------------------------------------------------------------
(* The steps of the induction *)

(* At the start there are no objects and no requests. *)
LEMMA InitInv == Init => Inv
<1>. SUFFICES ASSUME Init PROVE Inv
  OBVIOUS
<1>1. TypeOK
  <2>1. /\ mShouldCleanup \in BOOLEAN /\ mShouldSuspend \in BOOLEAN
        /\ mSuspendMutex2 \in BOOLEAN
    BY Zenon DEF Init
  <2>2. signal \in [Receivers -> BOOLEAN]
    BY DEF Init
  <2>. QED
    BY <2>1, <2>2, LifetimeAssumption DEF Init, TypeOK, Sessions, None, CleanupPcs
<1>2. NothingFreedInUse
  BY <1>1 DEF Init, NothingFreedInUse
<1>3. ParkInv
  BY DEF Init, ParkInv, SuspendMutexOwned
<1>4. AttachInv
  BY DEF Init, AttachInv
<1>5. CountInv
  <2>1. mQueue = <<>> /\ mQueue \in Seq(Requests)
    BY DEF Init
  <2>2. \A N : Count(mQueue, N) = 0
    BY <2>1, CountZero
  <2>. QED
    BY <2>2 DEF Init, CountInv
<1>. QED
  BY <1>2, <1>3, <1>4, <1>5 DEF Inv

(* Receivers are parked while cleanup owns mSuspendMutex: it gets the mutex only   *)
(* when they are, and they leave their place only when it has given it back.       *)
LEMMA ParkStep == TypeOK /\ ParkInv /\ [Next]_vars => ParkInv'
<1>. SUFFICES ASSUME TypeOK, ParkInv, [Next]_vars PROVE ParkInv'
  OBVIOUS
<1>. USE DEF TypeOK, ParkInv, SuspendMutexOwned, receiverVars, suspendVars
<1>1. CASE UNCHANGED <<rpc, events, held, cpc>>
  BY <1>1
<1>2. ASSUME NEW r \in Receivers, EpollReturns(r) PROVE ParkInv'
  BY <1>2 DEF EpollReturns
<1>3. ASSUME NEW r \in Receivers, NEW c \in Conns, LoadSession(r, c) PROVE ParkInv'
  BY <1>3 DEF LoadSession
<1>4. ASSUME NEW r \in Receivers, NEW c \in Conns, FinishEvent(r, c) PROVE ParkInv'
  BY <1>4 DEF FinishEvent
<1>5. ASSUME NEW r \in Receivers, Interrupted(r) PROVE ParkInv'
  BY <1>5 DEF Interrupted
<1>6. ASSUME NEW r \in Receivers, PassSecondMutex(r) PROVE ParkInv'
  BY <1>6 DEF PassSecondMutex
<1>7. ASSUME NEW r \in Receivers, Relock(r) PROVE ParkInv'
  BY <1>7 DEF Relock
<1>8. CASE CleanupBegins
  BY <1>8 DEF CleanupBegins
<1>9. CASE BeginSuspend
  BY <1>9 DEF BeginSuspend
<1>10. CASE TrySuspend
  BY <1>10 DEF TrySuspend, Running
<1>11. CASE EndSuspend
  BY <1>11 DEF EndSuspend
<1>12. CASE Erase
  BY <1>12 DEF Erase
<1>13. CASE Resume
  BY <1>13 DEF Resume
<1>14. \/ UNCHANGED <<rpc, events, held, cpc>>
       \/ \E r \in Receivers :
             \/ EpollReturns(r) \/ Interrupted(r) \/ PassSecondMutex(r) \/ Relock(r)
             \/ \E c \in Conns : LoadSession(r, c) \/ FinishEvent(r, c)
       \/ CleanupBegins \/ BeginSuspend \/ TrySuspend \/ EndSuspend \/ Erase \/ Resume
  BY Zenon DEF Next, Receiving, Finishing, Parking, Worker, Cleanup, vars, Accept,
     SendErrorLogout, RequestSubscribe, RequestForClient, ExecuteLogin, ExecuteLogout,
     ExecuteSubscribe
<1>. QED
  BY <1>1, <1>2, <1>3, <1>4, <1>5, <1>6, <1>7, <1>8, <1>9, <1>10, <1>11, <1>12, <1>13, <1>14

\* What every step but Erase does to the objects: none is destroyed
ObjectsKept ==
    /\ conn' \in [Conns -> {"unused", "open", "loggedOut", "freed"}]
    /\ session' \in [Sessions -> {"unused", "live", "deleted", "freed"}]
    /\ mPersistentClientState' \in [Conns -> Sessions \cup {None}]
    /\ current' \in Sessions \cup {None} /\ mSubscriptions' \subseteq Sessions
    /\ \A c \in Conns : conn'[c] = "freed" => conn[c] = "freed"
    /\ \A s \in Sessions : session'[s] = "freed" => session[s] = "freed"

(* logoutClient marks what it ends; no session that is still attached is marked. *)
LEMMA LogoutKeeps ==
    ASSUME TypeOK, AttachInv, NEW cs \in SUBSET Conns, LogoutClients(cs), late' = late
    PROVE  ObjectsKept /\ AttachInv'
<1>. USE DEF LogoutClients
<1>1. ObjectsKept
  BY DEF TypeOK, ObjectsKept
<1>2. (current # None => session[current] = "live")'
  BY DEF TypeOK, AttachInv, None
<1>3. \A c \in Conns : /\ c \notin cs => mPersistentClientState'[c] = mPersistentClientState[c]
                       /\ c \in cs => mPersistentClientState'[c] = None
  BY DEF TypeOK
<1>4. ASSUME NEW c \in Conns, mPersistentClientState'[c] # None
      PROVE  session'[mPersistentClientState'[c]] = "live"
  BY <1>3, <1>4 DEF TypeOK, AttachInv
<1>5. ASSUME NEW c \in Conns, NEW d \in Conns, c # d,
             mPersistentClientState'[c] = mPersistentClientState'[d]
      PROVE  mPersistentClientState'[c] = None
  BY <1>3, <1>5 DEF AttachInv
<1>6. \A s \in mSubscriptions' : session'[s] = "live" \/ s \in late'
  BY DEF TypeOK, AttachInv
<1>. QED
  BY <1>1, <1>2, <1>4, <1>5, <1>6 DEF AttachInv

(* A login attaches a live session to its connection, and takes it from the one    *)
(* that had it.                                                                    *)
LEMMA LoginKeeps ==
    ASSUME TypeOK, AttachInv, ExecuteLogin
    PROVE  ObjectsKept /\ AttachInv'
<1>. DEFINE c == Head(mQueue).client
            old == {d \in Conns : current # None /\ mPersistentClientState[d] = current}
            s == IF current # None THEN current ELSE CHOOSE x \in Sessions : session[x] = "unused"
<1>0. UNCHANGED <<mSubscriptions, late>>
  BY DEF ExecuteLogin
<1>1. CASE UNCHANGED <<conn, session, mPersistentClientState, current>>
  BY <1>0, <1>1 DEF TypeOK, ObjectsKept, AttachInv
<1>2. CASE /\ current # None \/ \E x \in Sessions : session[x] = "unused"
           /\ conn' = [d \in Conns |-> IF d \in old THEN "loggedOut" ELSE conn[d]]
           /\ session' = [session EXCEPT ![s] = "live"]
           /\ mPersistentClientState' =
                 [d \in Conns |-> IF d = c THEN s ELSE IF d \in old THEN None
                                  ELSE mPersistentClientState[d]]
           /\ current' = s
  <2>1. /\ s \in Sessions /\ s # None
        /\ \A d \in Conns : mPersistentClientState[d] = s => d \in old
    <3>1. CASE current # None
      BY <3>1 DEF TypeOK
    <3>2. CASE current = None
      <4>1. s \in Sessions /\ session[s] = "unused"
        BY <1>2, <3>2
      <4>2. s # None
        BY <4>1, LifetimeAssumption DEF Sessions, None
      <4>. QED
        BY <4>1, <4>2 DEF AttachInv
    <3>. QED
      BY <3>1, <3>2
  <2>. HIDE DEF s
  <2>2. ObjectsKept
    BY <1>0, <1>2, <2>1 DEF TypeOK, ObjectsKept
  <2>3. \A x \in Sessions : session'[x] = IF x = s THEN "live" ELSE session[x]
    BY <1>2 DEF TypeOK
  <2>4. \A d \in Conns : mPersistentClientState'[d] =
              IF d = c THEN s ELSE IF d \in old THEN None ELSE mPersistentClientState[d]
    BY <1>2
  <2>. HIDE DEF c, old
  <2>5. (current # None => session[current] = "live")'
    BY <1>2, <2>1, <2>3
  <2>6. \A d \in Conns : mPersistentClientState'[d] # None
                            => session'[mPersistentClientState'[d]] = "live"
    BY SMTT(60), <2>1, <2>3, <2>4 DEF TypeOK, AttachInv
  <2>7. \A d, e \in Conns : d # e /\ mPersistentClientState'[d] = mPersistentClientState'[e]
                               => mPersistentClientState'[d] = None
    BY <2>1, <2>4 DEF AttachInv
  <2>8. \A x \in mSubscriptions' : session'[x] = "live" \/ x \in late'
    BY <1>0, <2>3 DEF TypeOK, AttachInv
  <2>. QED
    BY <2>2, <2>5, <2>6, <2>7, <2>8 DEF AttachInv
<1>. QED
  BY <1>1, <1>2 DEF ExecuteLogin

(* No step destroys an object but Erase, and none lets a session that is attached  *)
(* die.                                                                            *)
LEMMA AttachStep ==
    ASSUME TypeOK, AttachInv, [Next]_vars
    PROVE  AttachInv' /\ (ObjectsKept \/ Erase)
<1>. USE DEF objectVars, queueVars, receiverVars, suspendVars
<1>1. CASE UNCHANGED <<objectVars, late>>
  BY <1>1 DEF TypeOK, ObjectsKept, AttachInv
<1>2. ASSUME NEW c \in Conns, Accept(c) PROVE AttachInv' /\ ObjectsKept
  BY <1>2 DEF Accept, TypeOK, ObjectsKept, AttachInv
<1>3. ASSUME NEW c \in Conns, SendErrorLogout(c) PROVE AttachInv' /\ ObjectsKept
  BY <1>3, LogoutKeeps DEF SendErrorLogout
<1>4. CASE ExecuteLogin
  BY <1>4, LoginKeeps
<1>5. CASE ExecuteLogout
  <2>1. Head(mQueue).client \in Conns
    BY <1>5, RequestForm DEF ExecuteLogout, Pop, TypeOK
  <2>2. late' = late
    BY <1>5 DEF ExecuteLogout
  <2>. QED
    BY <1>1, <1>5, <2>1, <2>2, LogoutKeeps DEF ExecuteLogout
<1>6. CASE ExecuteSubscribe
  <2>1. Head(mQueue).subscriber \in Sessions
    BY SMTT(60), <1>6, RequestForm DEF ExecuteSubscribe, Pop, TypeOK
  <2>. QED
    BY <1>6, <2>1 DEF ExecuteSubscribe, TypeOK, ObjectsKept, AttachInv
<1>7. CASE CleanupBegins
  <2>1. PICK cs \in SUBSET Conns : LogoutClients(cs)
    BY <1>7 DEF CleanupBegins
  <2>2. late' = late
    BY <1>7 DEF CleanupBegins
  <2>. QED
    BY <2>1, <2>2, LogoutKeeps
<1>8. ASSUME Erase PROVE AttachInv'
  <2>1. /\ UNCHANGED <<mPersistentClientState, current, mSubscriptions, late>>
        /\ \A s \in Sessions : session[s] = "live" => session'[s] = "live"
    BY <1>8 DEF Erase, TypeOK
  <2>. QED
    BY <2>1 DEF TypeOK, AttachInv
<1>9. \/ UNCHANGED <<objectVars, late>>
      \/ \E c \in Conns : Accept(c) \/ SendErrorLogout(c)
      \/ ExecuteLogin \/ ExecuteLogout \/ ExecuteSubscribe \/ CleanupBegins \/ Erase
  BY ZenonT(60) DEF Next, Receiving, Finishing, Parking, Worker, Cleanup, vars, EpollReturns,
     RequestSubscribe, LoadSession, RequestForClient, FinishEvent, Interrupted,
     PassSecondMutex, Relock, BeginSuspend, TrySuspend, EndSuspend, Resume
<1>. QED
  BY <1>1, <1>2, <1>3, <1>4, <1>5, <1>6, <1>7, <1>8, <1>9

(* requestChange counts the request it queues. *)
LEMMA RequestCounts ==
    ASSUME TypeOK, CountInv, NEW req \in Requests, RequestChange(req)
    PROVE  /\ CountInv' /\ mQueue' \in Seq(Requests)
           /\ connRefCount' \in [Conns -> Nat] /\ sessionRefCount' \in [Sessions -> Nat]
<1>. DEFINE conns == [c \in Conns |-> IF req.type # "Subscribe" /\ req.client = c
                                       THEN connRefCount[c] + 1 ELSE connRefCount[c]]
            sessions == [s \in Sessions |-> IF req.type = "Subscribe" /\ req.subscriber = s
                                            THEN sessionRefCount[s] + 1 ELSE sessionRefCount[s]]
<1>1. mQueue \in Seq(Requests) /\ mQueue' = Append(mQueue, req) /\ mQueue' \in Seq(Requests)
  BY DEF TypeOK, RequestChange
<1>2. \A c \in Conns : Count(mQueue', ForConn(c)) = conns[c]
  <2>1. \A c \in Conns : req \in ForConn(c) <=> req.type # "Subscribe" /\ req.client = c
    BY DEF ForConn
  <2>. QED
    BY <1>1, <2>1, CountAppend DEF CountInv
<1>3. \A s \in Sessions : Count(mQueue', ForSession(s)) = sessions[s]
  <2>1. \A s \in Sessions : req \in ForSession(s) <=> req.type = "Subscribe" /\ req.subscriber = s
    BY DEF ForSession
  <2>. QED
    BY <1>1, <2>1, CountAppend DEF CountInv
<1>4. connRefCount' = conns /\ sessionRefCount' = sessions
  BY SMTT(60), RequestForm DEF RequestChange, TypeOK
<1>5. conns \in [Conns -> Nat] /\ sessions \in [Sessions -> Nat]
  BY DEF TypeOK
<1>. QED
  BY <1>1, <1>2, <1>3, <1>4, <1>5 DEF CountInv

\* What executing a request of any type does to the queue and the counts
TakesFirst ==
    /\ Pop
    /\ IF Head(mQueue).type = "Subscribe"
       THEN /\ sessionRefCount' = [sessionRefCount EXCEPT ![Head(mQueue).subscriber] = @ - 1]
            /\ UNCHANGED connRefCount
       ELSE /\ connRefCount' = [connRefCount EXCEPT ![Head(mQueue).client] = @ - 1]
            /\ UNCHANGED sessionRefCount

(* A request that is executed was counted: the count does not become negative. *)
LEMMA ExecuteCounts ==
    ASSUME TypeOK, CountInv, TakesFirst
    PROVE  /\ CountInv' /\ mQueue' \in Seq(Requests)
           /\ connRefCount' \in [Conns -> Nat] /\ sessionRefCount' \in [Sessions -> Nat]
<1>. DEFINE req == Head(mQueue)
<1>1. /\ mQueue \in Seq(Requests) /\ mQueue # <<>> /\ mQueue' = Tail(mQueue)
      /\ req \in Requests /\ mQueue' \in Seq(Requests)
  BY DEF TypeOK, TakesFirst, Pop
<1>. DEFINE conns == [c \in Conns |-> IF req.type # "Subscribe" /\ req.client = c
                                       THEN connRefCount[c] - 1 ELSE connRefCount[c]]
            sessions == [s \in Sessions |-> IF req.type = "Subscribe" /\ req.subscriber = s
                                            THEN sessionRefCount[s] - 1 ELSE sessionRefCount[s]]
<1>2. \A c \in Conns : Count(mQueue', ForConn(c)) = conns[c]
  <2>1. \A c \in Conns : req \in ForConn(c) <=> req.type # "Subscribe" /\ req.client = c
    BY <1>1 DEF ForConn
  <2>. HIDE DEF req
  <2>. QED
    BY <1>1, <2>1, CountTail DEF CountInv, req
<1>3. \A s \in Sessions : Count(mQueue', ForSession(s)) = sessions[s]
  <2>1. \A s \in Sessions : req \in ForSession(s) <=> req.type = "Subscribe" /\ req.subscriber = s
    BY <1>1 DEF ForSession
  <2>. HIDE DEF req
  <2>. QED
    BY <1>1, <2>1, CountTail DEF CountInv, req
<1>4. connRefCount' = conns /\ sessionRefCount' = sessions
  BY <1>1, RequestForm DEF TakesFirst, TypeOK
<1>5. \A N : Count(mQueue', N) \in Nat
  BY <1>1, PlacesFinite
<1>. HIDE DEF req
<1>6. conns \in [Conns -> Nat] /\ sessions \in [Sessions -> Nat]
  BY <1>2, <1>3, <1>5
<1>. QED
  BY <1>1, <1>2, <1>3, <1>4, <1>6 DEF CountInv

(* The counts follow the queue, and both keep their types. *)
LEMMA CountStep ==
    ASSUME NothingFreedInUse, CountInv, [Next]_vars
    PROVE  /\ CountInv' /\ mQueue' \in Seq(Requests)
           /\ connRefCount' \in [Conns -> Nat] /\ sessionRefCount' \in [Sessions -> Nat]
<1>. USE DEF queueVars, receiverVars, suspendVars
<1>0. TypeOK
  BY DEF NothingFreedInUse
<1>1. CASE UNCHANGED queueVars
  BY <1>0, <1>1 DEF TypeOK, CountInv
<1>2. ASSUME NEW req \in Requests, RequestChange(req)
      PROVE  /\ CountInv' /\ mQueue' \in Seq(Requests)
             /\ connRefCount' \in [Conns -> Nat] /\ sessionRefCount' \in [Sessions -> Nat]
  BY <1>0, <1>2, RequestCounts
<1>3. ASSUME NEW r \in Receivers, RequestSubscribe(r) PROVE \E req \in Requests : RequestChange(req)
  <2>1. [type |-> "Subscribe", subscriber |-> held[r]] \in Requests
    BY <1>0, <1>3 DEF RequestSubscribe, TypeOK, Requests
  <2>. QED
    BY <1>3, <2>1 DEF RequestSubscribe
<1>4. ASSUME NEW r \in Receivers, NEW c \in Conns, NEW t \in {"Login", "Logout"},
             RequestForClient(r, c, t)
      PROVE  \E req \in Requests : RequestChange(req)
  <2>1. [type |-> t, client |-> c] \in Requests
    BY DEF Requests
  <2>. QED
    BY <1>4, <2>1 DEF RequestForClient
<1>5. ASSUME ExecuteLogin \/ ExecuteLogout \/ ExecuteSubscribe PROVE TakesFirst
  BY <1>5 DEF ExecuteLogin, ExecuteLogout, ExecuteSubscribe, Uncount, TakesFirst
<1>6. \/ UNCHANGED queueVars
      \/ \E r \in Receivers :
            \/ RequestSubscribe(r)
            \/ \E c \in Conns, t \in {"Login", "Logout"} : RequestForClient(r, c, t)
      \/ ExecuteLogin \/ ExecuteLogout \/ ExecuteSubscribe
  BY ZenonT(60) DEF Next, Receiving, Finishing, Parking, Worker, Cleanup, vars, Accept,
     SendErrorLogout, EpollReturns, LoadSession, FinishEvent, Interrupted, PassSecondMutex,
     Relock, CleanupBegins, BeginSuspend, TrySuspend, EndSuspend, Erase, Resume
<1>. QED
  BY <1>0, <1>1, <1>2, <1>3, <1>4, <1>5, <1>6, ExecuteCounts

\* The types of the variables that belong neither to the objects nor to the queue
OthersTyped ==
    /\ rpc \in [Receivers -> {"epoll", "working", "parking", "relock"}]
    /\ events \in [Receivers -> SUBSET Conns] /\ held \in [Receivers -> Sessions \cup {None}]
    /\ signal \in [Receivers -> BOOLEAN]
    /\ mShouldCleanup \in BOOLEAN /\ mShouldSuspend \in BOOLEAN /\ mSuspendMutex2 \in BOOLEAN
    /\ cpc \in CleanupPcs
    /\ requests \in 0..MaxRequests /\ late \subseteq Sessions

(* The receivers, the worker and cleanup keep their variables in their types. *)
LEMMA OthersStep ==
    ASSUME TypeOK, [Next]_vars
    PROVE  OthersTyped'
<1>. USE DEF TypeOK, OthersTyped, receiverVars, suspendVars, CleanupPcs
<1>1. ASSUME NEW c \in Conns, Accept(c) PROVE OthersTyped'
  BY <1>1 DEF Accept
<1>2. ASSUME NEW c \in Conns, SendErrorLogout(c) PROVE OthersTyped'
  BY <1>2 DEF SendErrorLogout
<1>3. ASSUME NEW r \in Receivers, EpollReturns(r) PROVE OthersTyped'
  BY <1>3 DEF EpollReturns
<1>4. ASSUME NEW r \in Receivers, NEW c \in Conns, LoadSession(r, c) PROVE OthersTyped'
  BY <1>4 DEF LoadSession
<1>5. ASSUME NEW r \in Receivers, NEW c \in Conns, FinishEvent(r, c) PROVE OthersTyped'
  <2>1. events' \in [Receivers -> SUBSET Conns] /\ held' \in [Receivers -> Sessions \cup {None}]
    BY <1>5 DEF FinishEvent
  <2>2. rpc' \in [Receivers -> {"epoll", "working", "parking", "relock"}]
    BY <1>5 DEF FinishEvent
  <2>. QED
    BY <1>5, <2>1, <2>2 DEF FinishEvent
<1>6. ASSUME NEW r \in Receivers, RequestSubscribe(r) PROVE OthersTyped'
  BY <1>6, LifetimeAssumption DEF RequestSubscribe, RequestChange
<1>7. ASSUME NEW r \in Receivers, NEW c \in Conns, NEW t \in {"Login", "Logout"},
             RequestForClient(r, c, t)
      PROVE  OthersTyped'
  BY <1>7, LifetimeAssumption DEF RequestForClient, RequestChange
<1>8. ASSUME NEW r \in Receivers, Interrupted(r) PROVE OthersTyped'
  BY <1>8 DEF Interrupted
<1>9. ASSUME NEW r \in Receivers, PassSecondMutex(r) PROVE OthersTyped'
  BY <1>9 DEF PassSecondMutex
<1>10. ASSUME NEW r \in Receivers, Relock(r) PROVE OthersTyped'
  BY <1>10 DEF Relock
<1>11. CASE ExecuteLogin
  <2>1. mShouldCleanup' \in BOOLEAN
    BY <1>11 DEF ExecuteLogin, Uncount
  <2>. QED
    BY <1>11, <2>1 DEF ExecuteLogin
<1>12. CASE ExecuteLogout
  <2>1. mShouldCleanup' \in BOOLEAN
    BY <1>12 DEF ExecuteLogout, Uncount
  <2>. QED
    BY <1>12, <2>1 DEF ExecuteLogout
<1>13. CASE ExecuteSubscribe
  <2>1. late' \subseteq Sessions
    BY <1>13, RequestForm DEF ExecuteSubscribe, Pop
  <2>. QED
    BY <1>13, <2>1 DEF ExecuteSubscribe
<1>14. CASE CleanupBegins
  <2>1. mShouldCleanup' \in BOOLEAN
    BY <1>14 DEF CleanupBegins
  <2>. QED
    BY <1>14, <2>1 DEF CleanupBegins
<1>15. CASE BeginSuspend
  BY <1>15 DEF BeginSuspend
<1>16. CASE TrySuspend
  BY <1>16 DEF TrySuspend
<1>17. CASE EndSuspend
  BY <1>17 DEF EndSuspend
<1>18. CASE Erase
  BY <1>18 DEF Erase
<1>19. CASE Resume
  BY <1>19 DEF Resume
<1>20. CASE UNCHANGED vars
  BY <1>20 DEF vars
<1>. QED
  BY <1>1, <1>2, <1>3, <1>4, <1>5, <1>6, <1>7, <1>8, <1>9, <1>10, <1>11, <1>12, <1>13, <1>14,
     <1>15, <1>16, <1>17, <1>18, <1>19, <1>20
  DEF Next, Receiving, Finishing, Parking, Worker, Cleanup

(* No step destroys what a receiver has a pointer to, a request names or a         *)
(* subscription leads to, nor hands out a pointer to what is destroyed.            *)
LEMMA UseStep ==
    ASSUME Inv, [Next]_vars
    PROVE  NothingFreedInUse'
<1>. USE DEF queueVars, receiverVars, suspendVars, objectVars
<1>0. TypeOK /\ TypeOK'
  <2>1. TypeOK
    BY DEF Inv, NothingFreedInUse
  <2>2. ObjectsKept \/ Erase
    BY <2>1, AttachStep DEF Inv
  <2>3. /\ mQueue' \in Seq(Requests)
        /\ connRefCount' \in [Conns -> Nat] /\ sessionRefCount' \in [Sessions -> Nat]
    BY CountStep DEF Inv
  <2>4. CASE ObjectsKept
    BY <2>1, <2>3, <2>4, OthersStep DEF ObjectsKept, OthersTyped, TypeOK
  <2>5. CASE Erase
    BY <2>1, <2>3, <2>5, OthersStep DEF Erase, OthersTyped, TypeOK
  <2>. QED
    BY <2>1, <2>2, <2>4, <2>5
<1>1. \A s \in mSubscriptions' : session'[s] # "freed" \/ s \in late'
  BY <1>0, AttachStep DEF Inv, AttachInv, TypeOK
<1>2. ASSUME NEW r \in Receivers
      PROVE  /\ \A c \in events'[r] : conn'[c] # "freed"
             /\ held'[r] # None => session'[held'[r]] # "freed"
  <2>1. CASE Erase
    <3>1. events'[r] = {} /\ held'[r] = None
      BY <2>1 DEF Erase, Inv, ParkInv, SuspendMutexOwned
    <3>. QED
      BY <3>1
  <2>2. CASE ObjectsKept
    <3>1. CASE UNCHANGED <<events, held>>
      BY <1>0, <2>2, <3>1 DEF Inv, NothingFreedInUse, ObjectsKept, TypeOK
    <3>2. ASSUME NEW x \in Receivers, EpollReturns(x)
          PROVE  /\ \A c \in events'[r] : conn'[c] # "freed"
                 /\ held'[r] # None => session'[held'[r]] # "freed"
      <4>1. \A c \in events'[r] : c \in events[r] \/ conn[c] = "open"
        BY <1>0, <3>2 DEF EpollReturns, TypeOK
      <4>. QED
        BY <1>0, <2>2, <3>2, <4>1 DEF EpollReturns, Inv, NothingFreedInUse, ObjectsKept, TypeOK
    <3>3. ASSUME NEW x \in Receivers, NEW c \in Conns, LoadSession(x, c)
          PROVE  /\ \A d \in events'[r] : conn'[d] # "freed"
                 /\ held'[r] # None => session'[held'[r]] # "freed"
      <4>1. held'[r] = held[r] \/ held'[r] = mPersistentClientState[c]
        BY <1>0, <3>3 DEF LoadSession, TypeOK
      <4>. QED
        BY <1>0, <2>2, <3>3, <4>1
        DEF LoadSession, Inv, NothingFreedInUse, AttachInv, ObjectsKept, TypeOK
    <3>4. ASSUME NEW x \in Receivers, NEW c \in Conns, FinishEvent(x, c)
          PROVE  /\ \A d \in events'[r] : conn'[d] # "freed"
                 /\ held'[r] # None => session'[held'[r]] # "freed"
      <4>1. events'[r] \subseteq events[r] /\ (held'[r] = None \/ held'[r] = held[r])
        BY <1>0, <3>4 DEF FinishEvent, TypeOK
      <4>. QED
        BY <1>0, <2>2, <4>1 DEF Inv, NothingFreedInUse, ObjectsKept, TypeOK
    <3>5. \/ UNCHANGED <<events, held>>
          \/ \E x \in Receivers :
                \/ EpollReturns(x)
                \/ \E c \in Conns : LoadSession(x, c) \/ FinishEvent(x, c)
      BY ZenonT(60) DEF Next, Receiving, Finishing, Parking, Worker, Cleanup, vars, Accept,
         SendErrorLogout, RequestSubscribe, RequestForClient, ExecuteLogin, ExecuteLogout,
         ExecuteSubscribe, Interrupted, PassSecondMutex, Relock, CleanupBegins, BeginSuspend,
         TrySuspend, EndSuspend, Erase, Resume
    <3>. QED
      BY <3>1, <3>2, <3>3, <3>4, <3>5
  <2>. QED
    BY <1>0, <2>1, <2>2, AttachStep DEF Inv
<1>3. ASSUME NEW i \in DOMAIN mQueue' PROVE Named(mQueue[i])' # "freed"
  <2>. DEFINE q == mQueue'[i]
  <2>0. q \in Requests
    BY <1>0 DEF TypeOK
  <2>1. CASE Erase
    <3>1. mQueue' = mQueue
      BY <2>1 DEF Erase
    <3>2. CASE q.type = "Subscribe"
      <4>1. q.subscriber \in Sessions /\ q \in ForSession(q.subscriber)
        BY <2>0, <3>2, RequestForm DEF ForSession
      <4>2. sessionRefCount[q.subscriber] # 0
        BY <1>0, <3>1, <4>1, CountZero DEF Inv, CountInv, TypeOK
      <4>. QED
        BY <1>0, <2>1, <3>1, <3>2, <4>1, <4>2 DEF Erase, Named, Inv, NothingFreedInUse, TypeOK
    <3>3. CASE q.type # "Subscribe"
      <4>1. q.client \in Conns /\ q \in ForConn(q.client)
        BY <2>0, <3>3, RequestForm DEF ForConn
      <4>2. connRefCount[q.client] # 0
        BY <1>0, <3>1, <4>1, CountZero DEF Inv, CountInv, TypeOK
      <4>. QED
        BY <1>0, <2>1, <3>1, <3>3, <4>1, <4>2 DEF Erase, Named, Inv, NothingFreedInUse, TypeOK
    <3>. QED
      BY <3>2, <3>3
  <2>2. CASE ObjectsKept
    <3>. DEFINE NotFreed(x) == IF x.type = "Subscribe" THEN session[x.subscriber] # "freed"
                               ELSE conn[x.client] # "freed"
    <3>1. SUFFICES NotFreed(q)
      BY <2>0, <2>2, RequestForm DEF ObjectsKept, Named
    <3>2. \A j \in DOMAIN mQueue : NotFreed(mQueue[j])
      BY DEF Inv, NothingFreedInUse, Named
    <3>3. ASSUME NEW req \in Requests, RequestChange(req), NotFreed(req) PROVE NotFreed(q)
      <4>1. mQueue \in Seq(Requests) /\ mQueue' = Append(mQueue, req)
        BY <1>0, <3>3 DEF TypeOK, RequestChange
      <4>2. q = req \/ (i \in DOMAIN mQueue /\ q = mQueue[i])
        BY <4>1
      <4>. QED
        BY <3>2, <3>3, <4>2
    <3>4. CASE mQueue' = mQueue
      BY <3>2, <3>4
    <3>5. CASE Pop
      <4>1. i + 1 \in DOMAIN mQueue /\ q = mQueue[i + 1]
        BY <1>0, <3>5 DEF Pop, TypeOK
      <4>. QED
        BY <3>2, <4>1
    <3>6. ASSUME NEW r \in Receivers, RequestSubscribe(r) PROVE NotFreed(q)
      <4>1. NotFreed([type |-> "Subscribe", subscriber |-> held[r]])
        BY <3>6 DEF RequestSubscribe, Inv, NothingFreedInUse
      <4>2. [type |-> "Subscribe", subscriber |-> held[r]] \in Requests
        BY <1>0, <3>6 DEF RequestSubscribe, TypeOK, Requests
      <4>. QED
        BY <3>3, <3>6, <4>1, <4>2 DEF RequestSubscribe
    <3>7. ASSUME NEW r \in Receivers, NEW c \in Conns, NEW t \in {"Login", "Logout"},
                 RequestForClient(r, c, t)
          PROVE  NotFreed(q)
      <4>1. NotFreed([type |-> t, client |-> c])
        BY <3>7 DEF RequestForClient, Inv, NothingFreedInUse
      <4>2. [type |-> t, client |-> c] \in Requests
        BY DEF Requests
      <4>. QED
        BY <3>3, <3>7, <4>1, <4>2 DEF RequestForClient
    <3>8. \/ mQueue' = mQueue \/ Pop
          \/ \E r \in Receivers :
                \/ RequestSubscribe(r)
                \/ \E c \in Conns, t \in {"Login", "Logout"} : RequestForClient(r, c, t)
      BY ZenonT(60) DEF Next, Receiving, Finishing, Parking, Worker, Cleanup, vars, Accept,
         SendErrorLogout, EpollReturns, LoadSession, FinishEvent, Interrupted,
         PassSecondMutex, Relock, ExecuteLogin, ExecuteLogout, ExecuteSubscribe,
         CleanupBegins, BeginSuspend, TrySuspend, EndSuspend, Erase, Resume
    <3>. QED
      BY <3>4, <3>5, <3>6, <3>7, <3>8
  <2>. QED
    BY <1>0, <2>1, <2>2, AttachStep DEF Inv
<1>. QED
  BY <1>0, <1>1, <1>2, <1>3 DEF NothingFreedInUse

-----------------------------------------------------------------------------
(* The result *)

(* Nothing is used after it was destroyed, with any number of receivers,           *)
(* connections, sessions and requests: parking the receivers covers the pointers   *)
(* they have, the reference counts those in the queue.  No fairness is used.       *)
THEOREM LifetimeSafe == Spec => []NothingFreedInUse
<1>1. Inv /\ [Next]_vars => Inv'
  <2>1. Inv => TypeOK
    BY DEF Inv, NothingFreedInUse
  <2>. QED
    BY <2>1, UseStep, ParkStep, AttachStep, CountStep DEF Inv
<1>2. Inv => NothingFreedInUse
  BY DEF Inv
<1>. QED
  BY InitInv, <1>1, <1>2, PTL DEF Spec
=============================================================================
