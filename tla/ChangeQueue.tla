----------------------------- MODULE ChangeQueue -----------------------------
(***************************************************************************)
(* How changes of the application state are requested and executed:        *)
(* ApplicationState::requestChange in its three modes, the worker thread's *)
(* loop, and the critical sections of other threads on mMutex.             *)
(*                                                                         *)
(* A thread that holds mMutex exclusively must not push into the bounded   *)
(* mQueue, which only the worker empties, under that same mutex.           *)
(* requestChange finds out through mCurrentRWHolderOfMMutex, an atomic     *)
(* thread id that is written next to the locking, but not atomically with  *)
(* it, and diverts such requests to mQueueInternal, an unprotected list.   *)
(*                                                                         *)
(* Every access to a shared object is a step of its own.  What a request   *)
(* does is left out (module Session has that), except that executing one,  *)
(* or cleanup, may request another change: logoutClient publishes a will   *)
(* that is to be retained.  All requests that are counted at all belong to *)
(* one subscriber, whose TaskQueueRefCount is mRefCount.                   *)
(***************************************************************************)
EXTENDS Integers, Sequences, FiniteSets

CONSTANTS
    Threads,        \* receiver, timer and REST threads, script threads, ...
    Worker,         \* the thread of workerThreadFunc
    Null,           \* std::thread::id(), and an unlocked mutex
    QueueCapacity,  \* stands for the 4096 slots of mQueue
    MaxRequests,    \* bound on the requests made
    MaxSections     \* bound on the critical sections entered other than by requests

All == Threads \cup {Worker}

ASSUME QueueAssumption ==
    /\ Worker \notin Threads
    /\ Null \notin All
    /\ QueueCapacity \in Nat \ {0}
    /\ MaxRequests \in Nat
    /\ MaxSections \in Nat

VARIABLES
    mMutex,                     \* its exclusive owner, or Null
    mMutexReaders,              \* its shared owners
    mCurrentRWHolderOfMMutex,
    mQueue, mQueueInternal,
    mRefCount,
    pc,
    back,                       \* where requestChange returns to
    pending,                    \* the request a thread is in requestChange with
    executing,                  \* the request the worker executes
    tasksPerformed,             \* whether the worker has executed any since it locked
    loopEnded,                  \* its loop over mQueue has found the queue empty
    executed,                   \* the requests executed, in order
    issued,                     \* number of requests made
    sections                    \* number of critical sections entered

lockVars == <<mMutex, mMutexReaders>>
queueVars == <<mQueue, mQueueInternal>>
workerVars == <<executing, tasksPerformed, loopEnded>>
countVars == <<issued, sections>>
vars == <<lockVars, mCurrentRWHolderOfMMutex, queueVars, mRefCount, pc, back, pending,
          workerVars, executed, countVars>>

Modes == {"ASYNC", "SYNC", "TRY_SYNC_THEN_ASYNC"}
\* nested: made while mMutex is held
Requests == [id: Nat, owner: All, mode: Modes, nested: BOOLEAN]
NoRequest == [id |-> 0, owner |-> Worker, mode |-> "ASYNC", nested |-> FALSE]

\* The requests that have a client or subscriber are made in mode ASYNC by threads
\* that do not hold mMutex; retains, scripts and everything nested have none
Counted(r) == r.mode = "ASYNC" /\ ~r.nested

Pcs == {"idle", "reading", "lock", "setTid", "held", "clearTid", "unlock",     \* sections
        "relock", "setTidAgain", "heldAgain",                                  \* cleanup
        "try", "check", "push", "internal", "execute",                         \* requestChange
        "drain", "executing", "sendErrors", "drainInternal",                   \* worker
        "executingInternal",
        "unlockEarly", "clearLate", "destruct"}

(* What every variable may hold. *)
TypeOK ==
    /\ mMutex \in All \cup {Null}
    /\ mMutexReaders \subseteq Threads
    /\ mCurrentRWHolderOfMMutex \in All \cup {Null}
    /\ mQueue \in Seq(Requests) /\ mQueueInternal \in Seq(Requests)
    /\ mRefCount \in Int
    /\ pc \in [All -> Pcs] /\ back \in [All -> Pcs]
    /\ pending \in [All -> Requests]
    /\ executing \in Requests
    /\ tasksPerformed \in BOOLEAN /\ loopEnded \in BOOLEAN
    /\ executed \in Seq(Requests)
    /\ issued \in Nat /\ sections \in Nat

Init ==
    /\ mMutex = Null /\ mMutexReaders = {} /\ mCurrentRWHolderOfMMutex = Null
    /\ mQueue = <<>> /\ mQueueInternal = <<>>
    /\ mRefCount = 0
    /\ pc = [t \in All |-> IF t = Worker THEN "lock" ELSE "idle"]
    /\ back = [t \in All |-> "idle"]
    /\ pending = [t \in All |-> NoRequest]
    /\ executing = NoRequest
    /\ tasksPerformed = FALSE /\ loopEnded = FALSE
    /\ executed = <<>> /\ issued = 0 /\ sections = 0

Goto(t, l) == pc' = [pc EXCEPT ![t] = l]

-----------------------------------------------------------------------------
(* mMutex and the thread id beside it *)

\* The mutex becomes available to a thread that waits for it exclusively
Acquire(t) ==
    /\ mMutex = Null /\ mMutexReaders = {}
    /\ mMutex' = t
    /\ UNCHANGED mMutexReaders

\* UniqueLockWithAtomicTidUpdate's base class locks, then its constructor stores the id
Lock(t) ==
    /\ pc[t] = "lock"
    /\ Acquire(t)
    /\ Goto(t, "setTid")
    /\ UNCHANGED <<mCurrentRWHolderOfMMutex, queueVars, mRefCount, back, pending, workerVars,
                   executed, countVars>>

\* A section that was locked for the sake of a request executes it
SetTid(t) ==
    /\ pc[t] = "setTid"
    /\ mCurrentRWHolderOfMMutex' = t
    /\ Goto(t, IF t = Worker THEN "drain" ELSE IF pending[t] = NoRequest THEN "held" ELSE "execute")
    /\ IF t = Worker
       THEN tasksPerformed' = FALSE /\ loopEnded' = FALSE
       ELSE UNCHANGED <<tasksPerformed, loopEnded>>
    /\ UNCHANGED <<lockVars, queueVars, mRefCount, back, pending, executing, executed, countVars>>

\* The destructor clears the id, then its base class unlocks
ClearTid(t) ==
    /\ pc[t] = "clearTid"
    /\ mCurrentRWHolderOfMMutex' = Null
    /\ Goto(t, "unlock")
    /\ UNCHANGED <<lockVars, queueVars, mRefCount, back, pending, workerVars, executed, countVars>>

Unlock(t) ==
    /\ pc[t] = "unlock"
    /\ mMutex' = Null
    /\ Goto(t, "idle")
    /\ UNCHANGED <<mMutexReaders, mCurrentRWHolderOfMMutex, queueVars, mRefCount, back, pending,
                   workerVars, executed, countVars>>

\* lock.unlock() in the worker and in cleanup: the mutex goes first
UnlockEarly(t) ==
    /\ pc[t] = "unlockEarly"
    /\ mMutex' = Null
    /\ Goto(t, "clearLate")
    /\ UNCHANGED <<mMutexReaders, mCurrentRWHolderOfMMutex, queueVars, mRefCount, back, pending,
                   workerVars, executed, countVars>>

\* mCurrentRWHolderOfMMutex = std::thread::id() after that
ClearLate(t) ==
    /\ pc[t] = "clearLate"
    /\ mCurrentRWHolderOfMMutex' = Null
    /\ Goto(t, IF t = Worker THEN "destruct" ELSE "relock")
    /\ UNCHANGED <<lockVars, queueVars, mRefCount, back, pending, workerVars, executed, countVars>>

-----------------------------------------------------------------------------
(* requestChange *)

NewRequest(t, mode, nested) ==
    [id |-> issued + 1, owner |-> t, mode |-> mode, nested |-> nested]

\* The reference count is taken first; the mode decides what comes next
RequestChange(t, mode, nested, return) ==
    /\ issued < MaxRequests
    /\ issued' = issued + 1
    /\ pending' = [pending EXCEPT ![t] = NewRequest(t, mode, nested)]
    /\ mRefCount' = IF Counted(NewRequest(t, mode, nested)) THEN mRefCount + 1 ELSE mRefCount
    /\ back' = [back EXCEPT ![t] = return]
    /\ Goto(t, CASE mode = "SYNC" -> "lock"
                 [] mode = "TRY_SYNC_THEN_ASYNC" -> "try"
                 [] mode = "ASYNC" -> "check")

\* A thread outside any section
Request(t, mode) ==
    /\ pc[t] = "idle"
    /\ RequestChange(t, mode, FALSE, "idle")
    /\ UNCHANGED <<lockVars, mCurrentRWHolderOfMMutex, queueVars, workerVars, executed, sections>>

\* try_lock fails when the mutex is held, by this thread or another one
TryLock(t) ==
    /\ pc[t] = "try"
    /\ \/ Acquire(t) /\ Goto(t, "setTid")
       \/ (mMutex # Null \/ mMutexReaders # {}) /\ Goto(t, "check") /\ UNCHANGED lockVars
    /\ UNCHANGED <<mCurrentRWHolderOfMMutex, queueVars, mRefCount, back, pending, workerVars,
                   executed, countVars>>

\* executeChangeRequest within the requesting thread (modes SYNC and TRY_SYNC)
ExecuteOwn(t) ==
    /\ pc[t] = "execute"
    /\ executed' = Append(executed, pending[t])
    /\ pending' = [pending EXCEPT ![t] = NoRequest]
    /\ Goto(t, "clearTid")
    /\ UNCHANGED <<lockVars, mCurrentRWHolderOfMMutex, queueVars, mRefCount, back, workerVars,
                   countVars>>

BugAnyHolder(t) ==
    /\ pc[t] = "check"
    /\ Goto(t, IF mCurrentRWHolderOfMMutex # Null THEN "internal" ELSE "push")
    /\ UNCHANGED <<lockVars, mCurrentRWHolderOfMMutex, queueVars, mRefCount, back, pending,
                   workerVars, executed, countVars>>

\* mCurrentRWHolderOfMMutex == std::this_thread::get_id() ?
CheckHolder(t) ==
    /\ pc[t] = "check"
    /\ Goto(t, IF mCurrentRWHolderOfMMutex = t THEN "internal" ELSE "push")
    /\ UNCHANGED <<lockVars, mCurrentRWHolderOfMMutex, queueVars, mRefCount, back, pending,
                   workerVars, executed, countVars>>

\* mQueueInternal.emplace_back, without any further protection
EmplaceInternal(t) ==
    /\ pc[t] = "internal"
    /\ mQueueInternal' = Append(mQueueInternal, pending[t])
    /\ pending' = [pending EXCEPT ![t] = NoRequest]
    /\ Goto(t, back[t])
    /\ UNCHANGED <<lockVars, mCurrentRWHolderOfMMutex, mQueue, mRefCount, back, workerVars,
                   executed, countVars>>

\* mQueue.push waits until there is room
Push(t) ==
    /\ pc[t] = "push"
    /\ Len(mQueue) < QueueCapacity
    /\ mQueue' = Append(mQueue, pending[t])
    /\ pending' = [pending EXCEPT ![t] = NoRequest]
    /\ Goto(t, back[t])
    /\ UNCHANGED <<lockVars, mCurrentRWHolderOfMMutex, mQueueInternal, mRefCount, back,
                   workerVars, executed, countVars>>

-----------------------------------------------------------------------------
(* Sections of other threads *)

EnterSection ==
    /\ sections < MaxSections
    /\ sections' = sections + 1

\* publish: the shared lock is given up before the retain is requested
BeginPublish(t) ==
    /\ pc[t] = "idle"
    /\ mMutex = Null
    /\ mMutexReaders' = mMutexReaders \cup {t}
    /\ EnterSection
    /\ Goto(t, "reading")
    /\ UNCHANGED <<mMutex, mCurrentRWHolderOfMMutex, queueVars, mRefCount, back, pending,
                   workerVars, executed, issued>>

EndPublish(t) ==
    /\ pc[t] = "reading"
    /\ mMutexReaders' = mMutexReaders \ {t}
    /\ \/ RequestChange(t, "TRY_SYNC_THEN_ASYNC", FALSE, "idle")
       \/ Goto(t, "idle") /\ UNCHANGED <<issued, pending, mRefCount, back>>
    /\ UNCHANGED <<mMutex, mCurrentRWHolderOfMMutex, queueVars, workerVars, executed, sections>>

\* cleanup, addScript, and the others that lock mMutex exclusively
BeginSection(t) ==
    /\ pc[t] = "idle"
    /\ EnterSection
    /\ Goto(t, "lock")
    /\ UNCHANGED <<lockVars, mCurrentRWHolderOfMMutex, queueVars, mRefCount, back, pending,
                   workerVars, executed, issued>>

\* cleanup logs a client out whose will is retained; addScript requests AddScript
RequestInSection(t, mode) ==
    /\ pc[t] = "held"
    /\ RequestChange(t, mode, TRUE, "held")
    /\ UNCHANGED <<lockVars, mCurrentRWHolderOfMMutex, queueVars, workerVars, executed, sections>>

\* The section ends; or cleanup gives the mutex up while it suspends the receivers
EndSection(t) ==
    /\ pc[t] \in {"held", "heldAgain"}
    /\ \/ Goto(t, "clearTid")
       \/ pc[t] = "held" /\ Goto(t, "unlockEarly")
    /\ UNCHANGED <<lockVars, mCurrentRWHolderOfMMutex, queueVars, mRefCount, back, pending,
                   workerVars, executed, countVars>>

\* cleanup's lock.lock(), and the thread id after it
Relock(t) ==
    /\ pc[t] = "relock"
    /\ Acquire(t)
    /\ Goto(t, "setTidAgain")
    /\ UNCHANGED <<mCurrentRWHolderOfMMutex, queueVars, mRefCount, back, pending, workerVars,
                   executed, countVars>>

SetTidAgain(t) ==
    /\ pc[t] = "setTidAgain"
    /\ mCurrentRWHolderOfMMutex' = t
    /\ Goto(t, "heldAgain")
    /\ UNCHANGED <<lockVars, queueVars, mRefCount, back, pending, workerVars, executed, countVars>>

-----------------------------------------------------------------------------
(* The worker thread *)

\* while(!mQueue.was_empty()) executeChangeRequest(mQueue.pop())
WorkerPop ==
    /\ pc[Worker] = "drain" /\ mQueue # <<>>
    /\ executing' = Head(mQueue)
    /\ mQueue' = Tail(mQueue)
    /\ Goto(Worker, "executing")
    /\ UNCHANGED <<lockVars, mCurrentRWHolderOfMMutex, mQueueInternal, mRefCount, back, pending,
                   tasksPerformed, loopEnded, executed, countVars>>

\* Executing a request, or logging out a client with a send error, publishes a will
RequestInWorker ==
    /\ pc[Worker] \in {"executing", "executingInternal", "sendErrors"}
    /\ RequestChange(Worker, "TRY_SYNC_THEN_ASYNC", TRUE, pc[Worker])
    /\ UNCHANGED <<lockVars, mCurrentRWHolderOfMMutex, queueVars, workerVars, executed, sections>>

BugCountEvery ==
    /\ pc[Worker] \in {"executing", "executingInternal"}
    /\ executed' = Append(executed, executing)
    /\ mRefCount' = mRefCount - 1
    /\ tasksPerformed' = TRUE
    /\ executing' = NoRequest
    /\ Goto(Worker, IF pc[Worker] = "executing" THEN "sendErrors" ELSE "drainInternal")
    /\ UNCHANGED <<lockVars, mCurrentRWHolderOfMMutex, queueVars, back, pending, loopEnded,
                   countVars>>

\* executeChangeRequest ends; processInternalQueue follows a request from mQueue
WorkerFinish ==
    /\ pc[Worker] \in {"executing", "executingInternal"}
    /\ executed' = Append(executed, executing)
    /\ mRefCount' = IF Counted(executing) THEN mRefCount - 1 ELSE mRefCount
    /\ tasksPerformed' = TRUE
    /\ executing' = NoRequest
    /\ Goto(Worker, IF pc[Worker] = "executing" THEN "sendErrors" ELSE "drainInternal")
    /\ UNCHANGED <<lockVars, mCurrentRWHolderOfMMutex, queueVars, back, pending, loopEnded,
                   countVars>>

BugSkipInternal ==
    /\ pc[Worker] = "drain" /\ mQueue = <<>>
    /\ loopEnded' = TRUE
    /\ Goto(Worker, "unlockEarly")
    /\ UNCHANGED <<lockVars, mCurrentRWHolderOfMMutex, queueVars, mRefCount, back, pending,
                   executing, tasksPerformed, executed, countVars>>

\* mQueue was found empty; processInternalQueue runs once if nothing was executed
WorkerLoopEnds ==
    /\ pc[Worker] = "drain" /\ mQueue = <<>>
    /\ loopEnded' = TRUE
    /\ Goto(Worker, IF tasksPerformed THEN "unlockEarly" ELSE "sendErrors")
    /\ UNCHANGED <<lockVars, mCurrentRWHolderOfMMutex, queueVars, mRefCount, back, pending,
                   executing, tasksPerformed, executed, countVars>>

\* processInternalQueue: no further client has a send error
WorkerSendErrorsDone ==
    /\ pc[Worker] = "sendErrors"
    /\ Goto(Worker, "drainInternal")
    /\ UNCHANGED <<lockVars, mCurrentRWHolderOfMMutex, queueVars, mRefCount, back, pending,
                   workerVars, executed, countVars>>

BugNoPopFront ==
    /\ pc[Worker] = "drainInternal"
    /\ IF mQueueInternal # <<>>
       THEN executing' = Head(mQueueInternal) /\ Goto(Worker, "executingInternal")
       ELSE Goto(Worker, IF loopEnded THEN "unlockEarly" ELSE "drain") /\ UNCHANGED executing
    /\ UNCHANGED <<lockVars, mCurrentRWHolderOfMMutex, queueVars, mRefCount, back, pending,
                   tasksPerformed, loopEnded, executed, countVars>>

\* processInternalQueue: while(!mQueueInternal.empty()).  The front is moved out and
\* executed; nobody looks at the empty element that pop_front removes after that.
WorkerPopInternal ==
    /\ pc[Worker] = "drainInternal"
    /\ IF mQueueInternal # <<>>
       THEN /\ executing' = Head(mQueueInternal)
            /\ mQueueInternal' = Tail(mQueueInternal)
            /\ Goto(Worker, "executingInternal")
       ELSE /\ Goto(Worker, IF loopEnded THEN "unlockEarly" ELSE "drain")
            /\ UNCHANGED <<executing, mQueueInternal>>
    /\ UNCHANGED <<lockVars, mCurrentRWHolderOfMMutex, mQueue, mRefCount, back, pending,
                   tasksPerformed, loopEnded, executed, countVars>>

\* The lock object is destroyed at the end of the iteration: its destructor clears the
\* thread id once more, although it no longer owns the mutex
WorkerDestruct ==
    /\ pc[Worker] = "destruct"
    /\ mCurrentRWHolderOfMMutex' = Null
    /\ Goto(Worker, "lock")
    /\ UNCHANGED <<lockVars, queueVars, mRefCount, back, pending, workerVars, executed, countVars>>

-----------------------------------------------------------------------------
Locking(t) ==
    \/ Lock(t) \/ SetTid(t) \/ ClearTid(t) \/ Unlock(t) \/ UnlockEarly(t) \/ ClearLate(t)
    \/ Relock(t) \/ SetTidAgain(t)

Submitting(t) ==
    \/ TryLock(t) \/ ExecuteOwn(t) \/ CheckHolder(t) \/ EmplaceInternal(t) \/ Push(t)

WorkerStep ==
    \/ WorkerPop \/ WorkerFinish \/ WorkerLoopEnds \/ WorkerSendErrorsDone \/ WorkerPopInternal
    \/ WorkerDestruct

Next ==
    \/ \E t \in All : Locking(t) \/ Submitting(t)
    \/ \E t \in Threads :
         \/ \E mode \in Modes : Request(t, mode)
         \/ BeginPublish(t) \/ EndPublish(t) \/ BeginSection(t) \/ EndSection(t)
         \/ \E mode \in {"ASYNC", "TRY_SYNC_THEN_ASYNC"} : RequestInSection(t, mode)
    \/ RequestInWorker
    \/ WorkerStep

\* Every thread that can go on does so; nobody is obliged to make a request.  Weak
\* fairness is enough for the worker's lock: the sections of the others are finitely
\* many, so that the mutex is free for good in the end.
Fairness ==
    /\ \A t \in All : WF_vars(Locking(t)) /\ WF_vars(Submitting(t))
    /\ \A t \in Threads : WF_vars(EndPublish(t)) /\ WF_vars(EndSection(t))
    /\ WF_vars(WorkerStep)

Spec == Init /\ [][Next]_vars
FairSpec == Spec /\ Fairness

-----------------------------------------------------------------------------
(* Properties *)

Elements(s) == {s[i] : i \in DOMAIN s}
Submitted == {pending[t] : t \in All} \ {NoRequest}
Outstanding ==
    Elements(mQueue) \cup Elements(mQueueInternal) \cup Submitted \cup ({executing} \ {NoRequest})

(* mQueueInternal, an unprotected std::list, is touched only by the thread that   *)
(* owns mMutex: a thread id that is stale, because it is written beside the       *)
(* locking, never sends a thread to the list that does not hold the mutex.        *)
InternalExclusive ==
    \A t \in All : pc[t] \in {"internal", "drainInternal"} => mMutex = t

(* When the reference count is zero no request names the subscriber any more, so  *)
(* that cleanup may destroy it.                                                   *)
RefCountCovers == mRefCount = 0 => \A r \in Outstanding : ~Counted(r)

(* The worker never gives the mutex up with requests left in mQueueInternal.      *)
InternalDrained == pc[Worker] = "unlockEarly" => mQueueInternal = <<>>

\* What a caller of requestChange sees of a request
Seen(r) == [id |-> r.id, owner |-> r.owner, ordered |-> Counted(r)]

Promise == INSTANCE Executor WITH
    Owners <- All,
    outstanding <- {Seen(r) : r \in Outstanding},
    executed <- [i \in DOMAIN executed |-> Seen(executed[i])],
    issued <- issued

(* The two queues, three modes and the thread id beside mMutex implement the       *)
(* executor that requestChange promises: at no step is a request dropped, executed *)
(* a second time, or executed before an older ASYNC request of the same thread.    *)
ImplementsExecutor == Promise!Spec

(* A request that reached a queue is executed, unless a thread that owns mMutex    *)
(* waits for room in mQueue: then the worker, which would make room, waits for it. *)
QueuedExecuted ==
    \A n \in 1..MaxRequests :
        (\E r \in Elements(mQueue) \cup Elements(mQueueInternal) : r.id = n)
            ~> \/ \E r \in Elements(executed) : r.id = n
               \/ \E t \in All : pc[t] = "push" /\ mMutex = t

(* Nobody pushes into mQueue while holding the mutex the worker needs.            *)
NeverPushWhileHolding == \A t \in All : pc[t] = "push" => mMutex # t
=============================================================================
