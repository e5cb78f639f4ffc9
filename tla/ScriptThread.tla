---------------------------- MODULE ScriptThread ----------------------------
(***************************************************************************)
(* The scripts of the broker: each has a container and a thread of its own *)
(* that evaluates the script, then serves a queue of tasks (messages, and  *)
(* calls from other scripts) and its time-outs.  The broker activates,     *)
(* deactivates, deletes and replaces scripts, each time under the          *)
(* exclusive mMutex of the application state; to delete one it has to wait *)
(* for the script's thread.  A script calls another one through            *)
(* ApplicationState::runScript, under the shared mMutex, and then waits    *)
(* for the answer without a limit; to subscribe it pushes a request into   *)
(* mQueue, and waits there while it is full.  The worker that empties      *)
(* mQueue is the thread that adds and deletes scripts.                     *)
(*                                                                         *)
(* What a script computes is left out: JavaScript code is a state in which *)
(* the thread may set and clear time-outs, call a script, subscribe, and   *)
(* end well or with an exception.  Of mQueue only the length is kept: what *)
(* a request is shows when it is executed.  A thread that holds the        *)
(* container's mutex does one step.                                        *)
(***************************************************************************)
EXTENDS Integers, Sequences, FiniteSets

CONSTANTS
    Scripts,        \* the script names
    Null,           \* no script: the caller of a task that is an MQTT message
    MaxTasks,       \* bound on the messages and calls
    MaxTimeouts,    \* bound on the calls of setTimeout
    MaxOps,         \* bound on the activations, deactivations, deletions and additions
    QueueSize,      \* capacity of mQueue
    MaxRequests     \* bound on the requests pushed into mQueue

ASSUME ScriptAssumption ==
    /\ Null \notin Scripts
    /\ MaxTasks \in Nat /\ MaxTimeouts \in Nat /\ MaxOps \in Nat
    /\ QueueSize \in Nat /\ MaxRequests \in Nat

VARIABLES
    mScripts,               \* the names that have a container
    mState,
    mTasks,                 \* per script, the callers of its tasks in order
    mInitFailureMessage,    \* whether it is set
    mTimeouts,              \* number of time-outs set
    pc, code,               \* the thread, and what its JavaScript code runs for
    caller,                 \* the caller of the task that runs
    callee,                 \* the script that callScript waits for
    op,                     \* the operation that owns mMutex exclusively
    mQueue,                 \* number of requests in the worker's queue
    overtaken,              \* auxiliary: forceQuit came between the loop's test and its lock
    tasks, timeouts, ops, requests      \* numbers of them so far

containerVars == <<mState, mTasks, mInitFailureMessage>>
threadVars == <<pc, code, caller, callee>>
queueVars == <<mQueue, requests>>
countVars == <<tasks, timeouts, ops>>
vars == <<mScripts, containerVars, mTimeouts, threadVars, op, queueVars, overtaken, countVars>>

States == {"RUNNING", "STOPPING", "DEACTIVATED", "INIT_FAILED"}
Pcs == {"js", "initFailed", "calling", "awaiting", "pushing",   \* in JavaScript code
        "abandoned",        \* as awaiting, but the task is gone
        "test", "lock", "wait", "waitTimeout", "woken", "expired",  \* in the loop
        "ended"}
NoOp == [kind |-> "none", script |-> Null]

(* What every variable may hold. *)
TypeOK ==
    /\ mScripts \subseteq Scripts
    /\ mState \in [Scripts -> States]
    /\ mTasks \in [Scripts -> Seq(Scripts \cup {Null})]
    /\ mInitFailureMessage \in [Scripts -> BOOLEAN]
    /\ mTimeouts \in [Scripts -> 0..MaxTimeouts]
    /\ pc \in [Scripts -> Pcs] /\ code \in [Scripts -> {"none", "init", "task", "timeout"}]
    /\ caller \in [Scripts -> Scripts \cup {Null}] /\ callee \in [Scripts -> Scripts \cup {Null}]
    /\ op \in {NoOp} \cup [kind: {"activate", "deactivate", "delete", "replace"}, script: Scripts]
    /\ mQueue \in 0..QueueSize /\ requests \in 0..MaxRequests
    /\ overtaken \in [Scripts -> BOOLEAN]
    /\ tasks \in 0..MaxTasks /\ timeouts \in 0..MaxTimeouts /\ ops \in 0..MaxOps

\* Every script has just been added: its thread evaluates the code; other requests may be queued
Init ==
    /\ mScripts = Scripts
    /\ mState = [s \in Scripts |-> "RUNNING"]
    /\ mTasks = [s \in Scripts |-> <<>>]
    /\ mInitFailureMessage = [s \in Scripts |-> FALSE]
    /\ mTimeouts = [s \in Scripts |-> 0]
    /\ pc = [s \in Scripts |-> "js"] /\ code = [s \in Scripts |-> "init"]
    /\ caller = [s \in Scripts |-> Null] /\ callee = [s \in Scripts |-> Null]
    /\ op = NoOp /\ overtaken = [s \in Scripts |-> FALSE]
    /\ mQueue \in 0..QueueSize /\ requests = 0
    /\ tasks = 0 /\ timeouts = 0 /\ ops = 0

Goto(s, l) == pc' = [pc EXCEPT ![s] = l]

\* pc with every thread that waits on s's condition variable woken
Notified(f, s) == IF f[s] \in {"wait", "waitTimeout"} THEN [f EXCEPT ![s] = "woken"] ELSE f

\* The answer to a call reaches the thread that waits for it; a message has no caller
Answered(f, c) == IF c = Null THEN f ELSE [f EXCEPT ![c] = "js"]

-----------------------------------------------------------------------------
(* Requests for work: ScriptContainerJS::run and the two ways to it *)

BugQueueAfterFailure(s, c) ==
    /\ mTasks' = [mTasks EXCEPT ![s] = Append(@, c)]
    /\ pc' = LET f == Notified(pc, s) IN
             IF mInitFailureMessage[s] THEN Answered(f, c)
             ELSE IF c = Null THEN f ELSE [f EXCEPT ![c] = "awaiting"]

BugRunWithoutNotify(s, c) ==
    IF mInitFailureMessage[s]
    THEN pc' = Answered(pc, c) /\ UNCHANGED mTasks
    ELSE /\ mTasks' = [mTasks EXCEPT ![s] = Append(@, c)]
         /\ pc' = IF c = Null THEN pc ELSE [pc EXCEPT ![c] = "awaiting"]

\* run: refused with an error after a failed initialisation, queued otherwise
Run(s, c) ==
    IF mInitFailureMessage[s]
    THEN pc' = Answered(pc, c) /\ UNCHANGED mTasks
    ELSE /\ mTasks' = [mTasks EXCEPT ![s] = Append(@, c)]
         /\ pc' = LET f == Notified(pc, s) IN
                  IF c = Null THEN f ELSE [f EXCEPT ![c] = "awaiting"]

\* ScriptContainer::publish, called with mMutex shared
Publish(s) ==
    /\ op = NoOp /\ s \in mScripts
    /\ mState[s] = "RUNNING"
    /\ tasks < MaxTasks /\ tasks' = tasks + 1
    /\ Run(s, Null)
    /\ UNCHANGED <<mScripts, mState, mInitFailureMessage, mTimeouts, code, caller, callee, op,
                   queueVars, overtaken, timeouts, ops>>

\* nv.callScript(c, ...) in the code of s; c may be s itself
CallScript(s, c) ==
    /\ pc[s] = "js"
    /\ tasks < MaxTasks /\ tasks' = tasks + 1
    /\ Goto(s, "calling")
    /\ callee' = [callee EXCEPT ![s] = c]
    /\ UNCHANGED <<mScripts, containerVars, mTimeouts, code, caller, op, queueVars, overtaken,
                   timeouts, ops>>

\* runScript: the errors are thrown into the calling code
RunScript(s) ==
    /\ pc[s] = "calling" /\ op = NoOp
    /\ IF callee[s] \in mScripts /\ mState[callee[s]] = "RUNNING"
       THEN Run(callee[s], s)
       ELSE Goto(s, "js") /\ UNCHANGED mTasks
    /\ UNCHANGED <<mScripts, mState, mInitFailureMessage, mTimeouts, code, caller, callee, op,
                   queueVars, overtaken, countVars>>

-----------------------------------------------------------------------------
(* JavaScript code *)

SetTimeout(s) ==
    /\ pc[s] = "js" /\ timeouts < MaxTimeouts
    /\ timeouts' = timeouts + 1
    /\ mTimeouts' = [mTimeouts EXCEPT ![s] = @ + 1]
    /\ UNCHANGED <<mScripts, containerVars, threadVars, op, queueVars, overtaken, tasks, ops>>

ClearTimeout(s) ==
    /\ pc[s] = "js" /\ mTimeouts[s] > 0
    /\ mTimeouts' = [mTimeouts EXCEPT ![s] = @ - 1]
    /\ UNCHANGED <<mScripts, containerVars, threadVars, op, queueVars, overtaken, countVars>>

\* nv.subscribe and nv.unsubscribe request a change ...
Subscribe(s) ==
    /\ pc[s] = "js" /\ requests < MaxRequests
    /\ requests' = requests + 1
    /\ Goto(s, "pushing")
    /\ UNCHANGED <<mScripts, containerVars, mTimeouts, code, caller, callee, op, mQueue,
                   overtaken, countVars>>

\* ... and wait for room in mQueue
Push(s) ==
    /\ pc[s] = "pushing" /\ mQueue < QueueSize
    /\ mQueue' = mQueue + 1
    /\ Goto(s, "js")
    /\ UNCHANGED <<mScripts, containerVars, mTimeouts, code, caller, callee, op, requests,
                   overtaken, countVars>>

\* The code of s ends
Leave(s) ==
    /\ code' = [code EXCEPT ![s] = "none"]
    /\ callee' = [callee EXCEPT ![s] = Null]

\* JS_Eval of the script ends well, or with an exception (also: a wrong runType); the
\* wrapped initStatus.error sets the message under the container's mutex
FinishInit(s) ==
    /\ pc[s] = "js" /\ code[s] = "init"
    /\ \/ Goto(s, "test") /\ UNCHANGED mInitFailureMessage
       \/ Goto(s, "initFailed") /\ mInitFailureMessage' = [mInitFailureMessage EXCEPT ![s] = TRUE]
    /\ Leave(s)
    /\ UNCHANGED <<mScripts, mState, mTasks, mTimeouts, caller, op, queueVars, overtaken,
                   countVars>>

\* ... and the state after that, whatever it has become in between
FailInit(s) ==
    /\ pc[s] = "initFailed"
    /\ mState' = [mState EXCEPT ![s] = "INIT_FAILED"]
    /\ Goto(s, "ended")
    /\ UNCHANGED <<mScripts, mTasks, mInitFailureMessage, mTimeouts, code, caller, callee, op,
                   queueVars, overtaken, countVars>>

BugNoError(s) ==
    /\ pc[s] = "js" /\ code[s] = "task"
    /\ \/ pc' = [Answered(pc, caller[s]) EXCEPT ![s] = "test"]
       \/ Goto(s, "test")
    /\ caller' = [caller EXCEPT ![s] = Null]
    /\ Leave(s)
    /\ UNCHANGED <<mScripts, containerVars, mTimeouts, op, queueVars, overtaken, countVars>>

\* performRun ends: status.success or status.error, each of which is an answer
FinishTask(s) ==
    /\ pc[s] = "js" /\ code[s] = "task"
    /\ pc' = [Answered(pc, caller[s]) EXCEPT ![s] = "test"]
    /\ caller' = [caller EXCEPT ![s] = Null]
    /\ Leave(s)
    /\ UNCHANGED <<mScripts, containerVars, mTimeouts, op, queueVars, overtaken, countVars>>

\* The function of a time-out returns; after an exception the thread returns
FinishTimeout(s) ==
    /\ pc[s] = "js" /\ code[s] = "timeout"
    /\ Goto(s, "woken") \/ Goto(s, "ended")
    /\ Leave(s)
    /\ UNCHANGED <<mScripts, containerVars, mTimeouts, caller, op, queueVars, overtaken,
                   countVars>>

-----------------------------------------------------------------------------
(* The loop of scriptThreadFunc *)

\* while(mState != STOPPING), before the container's mutex is locked
LoopTest(s) ==
    /\ pc[s] = "test"
    /\ Goto(s, IF mState[s] = "STOPPING" THEN "ended" ELSE "lock")
    /\ UNCHANGED <<mScripts, containerVars, mTimeouts, code, caller, callee, op, queueVars,
                   overtaken, countVars>>

Enter(s, what) == Goto(s, "js") /\ code' = [code EXCEPT ![s] = what]

\* One turn of while(mTasks.empty()), and the task that ends it.  due: the time of the
\* first time-out has come
Serve(s, due) ==
    \/ /\ mTasks[s] # <<>>
       /\ mTasks' = [mTasks EXCEPT ![s] = Tail(@)]
       /\ caller' = [caller EXCEPT ![s] = Head(mTasks[s])]
       /\ Enter(s, "task")
       /\ UNCHANGED mTimeouts
    \/ /\ mTasks[s] = <<>>
       /\ mState[s] # "DEACTIVATED" /\ mTimeouts[s] > 0 /\ due
       /\ mTimeouts' = [mTimeouts EXCEPT ![s] = @ - 1]
       /\ Enter(s, "timeout")
       /\ UNCHANGED <<mTasks, caller>>
    \/ /\ mTasks[s] = <<>>
       /\ \/ mState[s] # "DEACTIVATED" /\ mTimeouts[s] > 0 /\ ~due /\ Goto(s, "waitTimeout")
          \/ (mState[s] = "DEACTIVATED" \/ mTimeouts[s] = 0) /\ Goto(s, "wait")
       /\ UNCHANGED <<mTasks, mTimeouts, caller, code>>

\* Nothing looks at STOPPING between the lock and the first wait
EnterLoop(s) ==
    /\ pc[s] = "lock"
    /\ \E due \in BOOLEAN : Serve(s, due)
    /\ UNCHANGED <<mScripts, mState, mInitFailureMessage, callee, op, queueVars, overtaken,
                   countVars>>

BugNeverDue(s) ==
    /\ pc[s] \in {"woken", "expired"}
    /\ IF mState[s] = "STOPPING"
       THEN Goto(s, "ended") /\ UNCHANGED <<mTasks, mTimeouts, caller, code>>
       ELSE Serve(s, FALSE)
    /\ UNCHANGED <<mScripts, mState, mInitFailureMessage, callee, op, queueVars, overtaken,
                   countVars>>

\* After a wait, and after the function of a time-out: STOPPING ends the thread
Resume(s) ==
    /\ pc[s] \in {"woken", "expired"}
    /\ IF mState[s] = "STOPPING"
       THEN Goto(s, "ended") /\ UNCHANGED <<mTasks, mTimeouts, caller, code>>
       ELSE \E due \in BOOLEAN : (pc[s] = "expired" => due) /\ Serve(s, due)
    /\ UNCHANGED <<mScripts, mState, mInitFailureMessage, callee, op, queueVars, overtaken,
                   countVars>>

\* wait_for reaches its time
Expire(s) ==
    /\ pc[s] = "waitTimeout"
    /\ Goto(s, "expired")
    /\ UNCHANGED <<mScripts, containerVars, mTimeouts, code, caller, callee, op, queueVars,
                   overtaken, countVars>>

\* A condition variable may wake a thread for no reason; for a wait with a limit that is
\* an early end of it
SpuriousWakeup(s) ==
    /\ pc[s] = "wait"
    /\ Goto(s, "woken")
    /\ UNCHANGED <<mScripts, containerVars, mTimeouts, code, caller, callee, op, queueVars,
                   overtaken, countVars>>

-----------------------------------------------------------------------------
(* The broker's operations on a script, with mMutex owned exclusively *)

BeginOp ==
    /\ op = NoOp /\ ops < MaxOps
    /\ ops' = ops + 1

\* The worker takes a request from its queue
Pop == mQueue > 0 /\ mQueue' = mQueue - 1

\* Another thread pushes a request, for a script or for anything else
Request ==
    /\ requests < MaxRequests /\ requests' = requests + 1
    /\ mQueue < QueueSize /\ mQueue' = mQueue + 1
    /\ UNCHANGED <<mScripts, containerVars, mTimeouts, threadVars, op, overtaken, countVars>>

\* The worker executes a request that is not about a script's thread
ExecuteOther ==
    /\ op = NoOp /\ Pop
    /\ UNCHANGED <<mScripts, containerVars, mTimeouts, threadVars, op, requests, overtaken,
                   countVars>>

\* activate, called by the thread of the REST interface: the state is tested first ...
BeginActivate(s) ==
    /\ BeginOp /\ s \in mScripts
    /\ mState[s] = "DEACTIVATED"
    /\ op' = [kind |-> "activate", script |-> s]
    /\ UNCHANGED <<mScripts, containerVars, mTimeouts, threadVars, queueVars, overtaken, tasks,
                   timeouts>>

\* ... and written under the container's mutex, with a notification
EndActivate(s) ==
    /\ op = [kind |-> "activate", script |-> s]
    /\ mState' = [mState EXCEPT ![s] = "RUNNING"]
    /\ pc' = Notified(pc, s)
    /\ op' = NoOp
    /\ UNCHANGED <<mScripts, mTasks, mInitFailureMessage, mTimeouts, code, caller, callee,
                   queueVars, overtaken, countVars>>

\* deactivate: tested, then written, without the container's mutex
BeginDeactivate(s) ==
    /\ BeginOp /\ s \in mScripts
    /\ mState[s] = "RUNNING"
    /\ op' = [kind |-> "deactivate", script |-> s]
    /\ UNCHANGED <<mScripts, containerVars, mTimeouts, threadVars, queueVars, overtaken, tasks,
                   timeouts>>

EndDeactivate(s) ==
    /\ op = [kind |-> "deactivate", script |-> s]
    /\ mState' = [mState EXCEPT ![s] = "DEACTIVATED"]
    /\ op' = NoOp
    /\ UNCHANGED <<mScripts, mTasks, mInitFailureMessage, mTimeouts, threadVars, queueVars,
                   overtaken, countVars>>

BugQuitWithoutNotify(s) ==
    /\ mState' = [mState EXCEPT ![s] = "STOPPING"]
    /\ overtaken' = [overtaken EXCEPT ![s] = pc[s] = "lock"]
    /\ UNCHANGED pc

\* forceQuit up to the join
ForceQuit(s) ==
    /\ mState' = [mState EXCEPT ![s] = "STOPPING"]
    /\ overtaken' = [overtaken EXCEPT ![s] = pc[s] = "lock"]
    /\ pc' = Notified(pc, s)

\* deleteScript, alone or as the first half of AddScript of a name that is taken, by the
\* worker: until it has joined the thread nobody empties mQueue
BeginDelete(s, kind) ==
    /\ BeginOp /\ Pop /\ s \in mScripts
    /\ op' = [kind |-> kind, script |-> s]
    /\ ForceQuit(s)
    /\ UNCHANGED <<mScripts, mTasks, mInitFailureMessage, mTimeouts, code, caller, callee,
                   requests, tasks, timeouts>>

\* A new container, whose init starts the thread
Start(s) ==
    /\ mScripts' = mScripts \cup {s}
    /\ mState' = [mState EXCEPT ![s] = "RUNNING"]
    /\ code' = [code EXCEPT ![s] = "init"]

\* pc once the container of s is gone: those who wait for its tasks do so for ever
Abandoned(s) ==
    [c \in Scripts |-> IF \E i \in DOMAIN mTasks[s] : mTasks[s][i] = c THEN "abandoned" ELSE pc[c]]

\* The thread is joined; the container goes with its tasks, which are not answered, and
\* its time-outs
EndDelete(s) ==
    /\ op.kind \in {"delete", "replace"} /\ op.script = s
    /\ pc[s] = "ended"
    /\ op' = NoOp
    /\ mTasks' = [mTasks EXCEPT ![s] = <<>>]
    /\ mTimeouts' = [mTimeouts EXCEPT ![s] = 0]
    /\ mInitFailureMessage' = [mInitFailureMessage EXCEPT ![s] = FALSE]
    /\ overtaken' = [overtaken EXCEPT ![s] = FALSE]
    /\ IF op.kind = "replace"
       THEN Start(s) /\ pc' = [Abandoned(s) EXCEPT ![s] = "js"]
       ELSE mScripts' = mScripts \ {s} /\ pc' = Abandoned(s) /\ UNCHANGED <<mState, code>>
    /\ UNCHANGED <<caller, callee, queueVars, countVars>>

\* AddScript of a name that is free
AddScript(s) ==
    /\ BeginOp /\ Pop /\ s \notin mScripts
    /\ Start(s) /\ Goto(s, "js")
    /\ UNCHANGED <<mTasks, mInitFailureMessage, mTimeouts, caller, callee, op, requests,
                   overtaken, tasks, timeouts>>

-----------------------------------------------------------------------------
ThreadStep(s) ==
    \/ RunScript(s) \/ Push(s) \/ FinishInit(s) \/ FailInit(s) \/ FinishTask(s) \/ FinishTimeout(s)
    \/ LoopTest(s) \/ EnterLoop(s) \/ Resume(s) \/ Expire(s)

BrokerStep(s) == EndActivate(s) \/ EndDeactivate(s) \/ EndDelete(s)

Next ==
    \/ Request \/ ExecuteOther
    \/ \E s \in Scripts :
        \/ Publish(s)
        \/ \E c \in Scripts : CallScript(s, c)
        \/ SetTimeout(s) \/ ClearTimeout(s) \/ Subscribe(s)
        \/ ThreadStep(s) \/ SpuriousWakeup(s)
        \/ BeginActivate(s) \/ BeginDeactivate(s) \/ AddScript(s)
        \/ BeginDelete(s, "delete") \/ BeginDelete(s, "replace")
        \/ BrokerStep(s)

\* Threads go on when they can: JavaScript code ends because the interrupt handler stops
\* it after five seconds, the owner of mMutex finishes what it began, and the worker
\* empties its queue.  Nobody is obliged to publish, call, subscribe, set a time-out or
\* operate on a script, and no spurious wake-up is counted on.
Fairness ==
    /\ WF_vars(ExecuteOther)
    /\ \A s \in Scripts : WF_vars(ThreadStep(s)) /\ WF_vars(BrokerStep(s))

Spec == Init /\ [][Next]_vars /\ Fairness

-----------------------------------------------------------------------------
(* Properties *)

\* The calls s has made that are not over: <<c, 0>> for the one c runs, <<c, i>> for one
\* that is i-th in the queue of c
CallsOf(s) ==
    {call \in Scripts \X (0..MaxTasks) :
        LET c == call[1]
            i == call[2]
        IN  \/ i = 0 /\ caller[c] = s
            \/ i \in DOMAIN mTasks[c] /\ mTasks[c][i] = s}

(* A thread that waits has nothing to do: no task is queued, and no time-out is   *)
(* set unless the script is deactivated.  A task that is queued between the       *)
(* thread's look at its queue and its wait would otherwise stay there.  The       *)
(* variables have their types.                                                    *)
WaitsForWork ==
    /\ TypeOK
    /\ \A s \in Scripts : pc[s] \in {"wait", "waitTimeout"} =>
         /\ mTasks[s] = <<>>
         /\ pc[s] = "wait" /\ mTimeouts[s] > 0 => mState[s] = "DEACTIVATED"

(* Callers hand references into their stack to the task: as long as the task      *)
(* exists its caller is still waiting in callScript, and for this task only.      *)
CallerWaits ==
    \A s \in Scripts : CallsOf(s) # {} => pc[s] = "awaiting" /\ Cardinality(CallsOf(s)) = 1

\* The code of s cannot go on by itself: it waits for mMutex or for an answer in
\* callScript, or for room in mQueue
Blocked(s) ==
    \/ pc[s] \in {"calling", "awaiting", "abandoned"}
    \/ pc[s] = "pushing" /\ mQueue = QueueSize

(* A call is answered, unless for ever the thread that should do so has ended (a  *)
(* time-out function threw, the initialisation failed) or is blocked itself, or   *)
(* the script was deleted or replaced (the caller is abandoned).                  *)
CallAnswered ==
    \A s \in Scripts :
        \/ []<>(pc[s] # "awaiting")
        \/ <>[](\E c \in Scripts : callee[s] = c /\ (pc[c] = "ended" \/ Blocked(c)))

(* forceQuit reaches the script's thread wherever it is, so that the worker's     *)
(* deletion ends and mMutex is free again, with two exceptions: forceQuit fell     *)
(* between the loop's test of STOPPING and its lock, or the script's code is      *)
(* blocked for ever, in callScript or because mQueue is full, which only the      *)
(* worker could change.                                                           *)
QuitEnds ==
    \A s \in Scripts :
        \/ []<>~(op.kind \in {"delete", "replace"} /\ op.script = s)
        \/ <>[](overtaken[s] \/ Blocked(s))

(* A time-out is run, also after the script was deactivated and activated again,  *)
(* unless for ever the script is not running, its thread has ended or is blocked. *)
TimeoutRuns ==
    \A s \in Scripts :
        \/ []<>(mTimeouts[s] = 0)
        \/ <>[](mState[s] # "RUNNING" \/ pc[s] = "ended" \/ Blocked(s))

(* Deactivated scripts run no further code: none is entered from the loop.        *)
DeactivatedQuiet ==
    [][\A s \in Scripts :
         pc[s] \in {"lock", "woken", "expired"} /\ mState[s] = "DEACTIVATED" => pc'[s] # "js"]_vars
=============================================================================
