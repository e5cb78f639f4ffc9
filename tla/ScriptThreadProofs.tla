-------------------------- MODULE ScriptThreadProofs --------------------------
(***************************************************************************)
(* Proofs about ScriptThread, for any set of scripts and any number of     *)
(* tasks, time-outs and operations: a script's thread never waits while    *)
(* there is something to do, and a task never outlives its caller's wait.  *)
(***************************************************************************)
EXTENDS ScriptThread, SequenceTheorems, FiniteSetTheorems, TLAPS

(* No script has more time-outs set than setTimeout was called. *)
TimeoutsInv == \A s \in Scripts : mTimeouts[s] <= timeouts

\* The places within JavaScript code that has been entered
JsPcs == {"js", "calling", "awaiting", "pushing", "abandoned"}

(* The caller of a task is kept while the task runs, and waits; and it has only     *)
(* one task running.                                                               *)
RunningCalls ==
    /\ \A s \in Scripts : caller[s] # Null => /\ pc[s] \in JsPcs /\ code[s] = "task"
                                              /\ pc[caller[s]] = "awaiting"
    /\ \A s, u \in Scripts : s # u /\ caller[s] = caller[u] => caller[s] = Null

(* The caller of a queued task waits; it has no task running and no other queued.  *)
QueuedCalls ==
    /\ \A s \in Scripts : \A i \in DOMAIN mTasks[s] :
          mTasks[s][i] # Null => /\ pc[mTasks[s][i]] = "awaiting"
                                 /\ \A u \in Scripts : caller[u] # mTasks[s][i]
    /\ \A s, u \in Scripts : \A i \in DOMAIN mTasks[s], j \in DOMAIN mTasks[u] :
          mTasks[s][i] = mTasks[u][j] /\ mTasks[s][i] # Null => s = u /\ i = j

(* A script without a container has no thread. *)
GoneEnded == \A s \in Scripts : s \notin mScripts => pc[s] = "ended"

CallInv == RunningCalls /\ QueuedCalls /\ GoneEnded

\* The inductive invariant
Inv == WaitsForWork /\ TimeoutsInv /\ CallInv

-----------------------------------------------------------------------------
(* Facts about the operators *)

(* run, called for the caller c or for nobody, queues a task and wakes the thread, *)
(* or refuses; only the thread it is called for, and that of the caller, move.     *)
LEMMA RunEffect ==
    ASSUME TypeOK, NEW s \in Scripts, NEW c \in Scripts \cup {Null}, Run(s, c)
    PROVE  /\ pc' \in [Scripts -> Pcs]
           /\ mTasks' \in [Scripts -> Seq(Scripts \cup {Null})]
           /\ \A w \in Scripts :
                 \/ w = c
                 \/ pc'[w] = pc[w]
                 \/ pc[w] \in {"wait", "waitTimeout"} /\ pc'[w] = "woken"
           /\ \/ mTasks' = mTasks /\ (c \in Scripts => pc'[c] = "js")
              \/ /\ mTasks' = [mTasks EXCEPT ![s] = Append(@, c)]
                 /\ c \in Scripts => pc'[c] = "awaiting"
                 /\ pc'[s] \notin {"wait", "waitTimeout"}
<1>. USE ScriptAssumption DEF TypeOK, Run, Answered, Notified, Pcs
<1>2. CASE mInitFailureMessage[s]
  BY ZenonT(60), <1>2
<1>3. CASE ~mInitFailureMessage[s]
  <2>1. mTasks' = [mTasks EXCEPT ![s] = Append(@, c)]
    BY <1>3
  <2>2. mTasks' \in [Scripts -> Seq(Scripts \cup {Null})]
    BY <2>1
  <2>3. /\ pc' \in [Scripts -> Pcs]
        /\ \A w \in Scripts :
              \/ w = c
              \/ pc'[w] = pc[w]
              \/ pc[w] \in {"wait", "waitTimeout"} /\ pc'[w] = "woken"
        /\ c \in Scripts => pc'[c] = "awaiting"
        /\ pc'[s] \notin {"wait", "waitTimeout"}
    BY ZenonT(60), <1>3
  <2>. QED
    BY <2>1, <2>2, <2>3
<1>. QED
  BY <1>2, <1>3

(* One turn of the loop takes a task, takes a time-out, or waits. *)
LEMMA ServeEffect ==
    ASSUME TypeOK, NEW s \in Scripts, NEW due, Serve(s, due)
    PROVE  /\ pc' \in [Scripts -> Pcs] /\ code' \in [Scripts -> {"none", "init", "task", "timeout"}]
           /\ mTasks' \in [Scripts -> Seq(Scripts \cup {Null})]
           /\ caller' \in [Scripts -> Scripts \cup {Null}]
           /\ mTimeouts' \in [Scripts -> 0..MaxTimeouts]
           /\ \A w \in Scripts : mTimeouts'[w] <= mTimeouts[w]
           /\ \A w \in Scripts \ {s} : pc'[w] = pc[w] /\ mTimeouts'[w] = mTimeouts[w]
           /\ pc'[s] \in {"js", "wait", "waitTimeout"}
           /\ pc'[s] \in {"wait", "waitTimeout"} =>
                 /\ mTasks' = mTasks /\ mTasks[s] = <<>> /\ mTimeouts' = mTimeouts
                 /\ pc'[s] = "wait" /\ mTimeouts[s] > 0 => mState[s] = "DEACTIVATED"
           /\ \/ /\ mTasks[s] # <<>> /\ mTasks' = [mTasks EXCEPT ![s] = Tail(@)]
                 /\ caller' = [caller EXCEPT ![s] = Head(mTasks[s])]
                 /\ code' = [code EXCEPT ![s] = "task"] /\ pc'[s] = "js"
              \/ /\ UNCHANGED <<mTasks, caller>>
                 /\ \A w \in Scripts \ {s} : code'[w] = code[w]
<1>. USE ScriptAssumption DEF TypeOK, Serve, Enter, Goto, Pcs
<1>1. CASE mTasks[s] # <<>>
  <2>1. Head(mTasks[s]) \in Scripts \cup {Null} /\ Tail(mTasks[s]) \in Seq(Scripts \cup {Null})
    BY <1>1
  <2>2. /\ mTasks' = [mTasks EXCEPT ![s] = Tail(@)]
        /\ caller' = [caller EXCEPT ![s] = Head(mTasks[s])]
        /\ pc' = [pc EXCEPT ![s] = "js"] /\ code' = [code EXCEPT ![s] = "task"]
        /\ UNCHANGED mTimeouts
    BY <1>1
  <2>. QED
    BY <1>1, <2>1, <2>2
<1>2. CASE mTasks[s] = <<>>
  <2>1. UNCHANGED <<mTasks, caller>>
    BY <1>2
  <2>2. CASE /\ mState[s] # "DEACTIVATED" /\ mTimeouts[s] > 0
             /\ mTimeouts' = [mTimeouts EXCEPT ![s] = @ - 1]
             /\ Enter(s, "timeout")
    BY <1>2, <2>1, <2>2
  <2>3. CASE /\ mState[s] # "DEACTIVATED" /\ Goto(s, "waitTimeout")
             /\ UNCHANGED <<mTimeouts, code>>
    BY <1>2, <2>1, <2>3
  <2>4. CASE /\ mState[s] = "DEACTIVATED" \/ mTimeouts[s] = 0
             /\ Goto(s, "wait") /\ UNCHANGED <<mTimeouts, code>>
    BY <1>2, <2>1, <2>4
  <2>. QED
    BY <1>2, <2>2, <2>3, <2>4
<1>. QED
  BY <1>1, <1>2

-----------------------------------------------------------------------------
(* The steps of the induction *)

(* At the start every thread evaluates its script. *)
LEMMA InitInv == Init => Inv
<1>. SUFFICES ASSUME Init PROVE Inv
  OBVIOUS
<1>1. TypeOK
  <2>1. mTasks \in [Scripts -> Seq(Scripts \cup {Null})]
    BY DEF Init
  <2>. QED
    BY <2>1, ScriptAssumption DEF Init, TypeOK, States, Pcs
<1>2. WaitsForWork /\ TimeoutsInv
  BY <1>1 DEF Init, WaitsForWork, TimeoutsInv
<1>3. CallInv
  BY DEF Init, CallInv, RunningCalls, QueuedCalls, GoneEnded, JsPcs
<1>. QED
  BY <1>2, <1>3 DEF Inv

(* Every step keeps the variables in their types. *)
LEMMA TypeStep == TypeOK /\ TimeoutsInv /\ [Next]_vars => TypeOK' /\ TimeoutsInv'
<1>. SUFFICES ASSUME TypeOK, TimeoutsInv, [Next]_vars PROVE TypeOK' /\ TimeoutsInv'
  OBVIOUS
<1>. USE ScriptAssumption
     DEF TypeOK, TimeoutsInv, Goto, containerVars, threadVars, queueVars, countVars, States, Pcs
<1>1. ASSUME NEW s \in Scripts, Publish(s) PROVE TypeOK' /\ TimeoutsInv'
  <2>1. /\ pc' \in [Scripts -> Pcs]
        /\ mTasks' \in [Scripts -> Seq(Scripts \cup {Null})]
    BY <1>1, RunEffect DEF Publish
  <2>. QED
    BY <1>1, <2>1 DEF Publish
<1>2. ASSUME NEW s \in Scripts, NEW c \in Scripts, CallScript(s, c) PROVE TypeOK' /\ TimeoutsInv'
  BY <1>2 DEF CallScript
<1>3. ASSUME NEW s \in Scripts, SetTimeout(s) PROVE TypeOK' /\ TimeoutsInv'
  BY SMTT(60), <1>3 DEF SetTimeout
<1>4. ASSUME NEW s \in Scripts, ClearTimeout(s) PROVE TypeOK' /\ TimeoutsInv'
  BY <1>4 DEF ClearTimeout
<1>5. ASSUME NEW s \in Scripts, RunScript(s) PROVE TypeOK' /\ TimeoutsInv'
  <2>1. CASE callee[s] \in mScripts /\ Run(callee[s], s)
    <3>1. /\ pc' \in [Scripts -> Pcs]
          /\ mTasks' \in [Scripts -> Seq(Scripts \cup {Null})]
      BY <2>1, RunEffect
    <3>. QED
      BY <1>5, <3>1 DEF RunScript
  <2>2. CASE Goto(s, "js") /\ UNCHANGED mTasks
    BY <1>5, <2>2 DEF RunScript
  <2>. QED
    BY <1>5, <2>1, <2>2 DEF RunScript
<1>6. ASSUME NEW s \in Scripts, FinishInit(s) PROVE TypeOK' /\ TimeoutsInv'
  BY ZenonT(60), <1>6 DEF FinishInit, Leave
<1>7. ASSUME NEW s \in Scripts, FailInit(s) PROVE TypeOK' /\ TimeoutsInv'
  BY <1>7 DEF FailInit
<1>8. ASSUME NEW s \in Scripts, FinishTask(s) PROVE TypeOK' /\ TimeoutsInv'
  BY <1>8 DEF FinishTask, Answered, Leave
<1>9. ASSUME NEW s \in Scripts, FinishTimeout(s) PROVE TypeOK' /\ TimeoutsInv'
  BY ZenonT(60), <1>9 DEF FinishTimeout, Leave
<1>10. ASSUME NEW s \in Scripts, LoopTest(s) PROVE TypeOK' /\ TimeoutsInv'
  BY <1>10 DEF LoopTest
<1>11. ASSUME NEW s \in Scripts, EnterLoop(s) PROVE TypeOK' /\ TimeoutsInv'
  <2>1. /\ pc' \in [Scripts -> Pcs] /\ code' \in [Scripts -> {"none", "init", "task", "timeout"}]
        /\ mTasks' \in [Scripts -> Seq(Scripts \cup {Null})]
        /\ caller' \in [Scripts -> Scripts \cup {Null}]
        /\ mTimeouts' \in [Scripts -> 0..MaxTimeouts]
        /\ \A w \in Scripts : mTimeouts'[w] <= mTimeouts[w]
    BY <1>11, ServeEffect DEF EnterLoop
  <2>. QED
    BY SMTT(60), <1>11, <2>1 DEF EnterLoop
<1>12. ASSUME NEW s \in Scripts, Resume(s) PROVE TypeOK' /\ TimeoutsInv'
  <2>1. CASE Goto(s, "ended") /\ UNCHANGED <<mTasks, mTimeouts, caller, code>>
    BY <1>12, <2>1 DEF Resume
  <2>2. ASSUME NEW due, Serve(s, due) PROVE TypeOK' /\ TimeoutsInv'
    <3>1. /\ pc' \in [Scripts -> Pcs] /\ code' \in [Scripts -> {"none", "init", "task", "timeout"}]
          /\ mTasks' \in [Scripts -> Seq(Scripts \cup {Null})]
          /\ caller' \in [Scripts -> Scripts \cup {Null}]
          /\ mTimeouts' \in [Scripts -> 0..MaxTimeouts]
          /\ \A w \in Scripts : mTimeouts'[w] <= mTimeouts[w]
      BY <2>2, ServeEffect
    <3>. QED
      BY SMTT(60), <1>12, <3>1 DEF Resume
  <2>. QED
    BY <1>12, <2>1, <2>2 DEF Resume
<1>13. ASSUME NEW s \in Scripts, Expire(s) PROVE TypeOK' /\ TimeoutsInv'
  BY <1>13 DEF Expire
<1>14. ASSUME NEW s \in Scripts, SpuriousWakeup(s) PROVE TypeOK' /\ TimeoutsInv'
  BY <1>14 DEF SpuriousWakeup
<1>15. ASSUME NEW s \in Scripts, BeginActivate(s) PROVE TypeOK' /\ TimeoutsInv'
  BY <1>15 DEF BeginActivate, BeginOp
<1>16. ASSUME NEW s \in Scripts, BeginDeactivate(s) PROVE TypeOK' /\ TimeoutsInv'
  BY <1>16 DEF BeginDeactivate, BeginOp
<1>17. ASSUME NEW s \in Scripts, AddScript(s) PROVE TypeOK' /\ TimeoutsInv'
  BY <1>17 DEF AddScript, BeginOp, Pop, Start
<1>18. ASSUME NEW s \in Scripts, NEW kind \in {"delete", "replace"}, BeginDelete(s, kind)
      PROVE TypeOK' /\ TimeoutsInv'
  BY <1>18 DEF BeginDelete, BeginOp, Pop, ForceQuit, Notified
<1>19. ASSUME NEW s \in Scripts, EndActivate(s) PROVE TypeOK' /\ TimeoutsInv'
  BY <1>19 DEF EndActivate, Notified
<1>20. ASSUME NEW s \in Scripts, EndDeactivate(s) PROVE TypeOK' /\ TimeoutsInv'
  BY <1>20 DEF EndDeactivate
<1>21. ASSUME NEW s \in Scripts, EndDelete(s) PROVE TypeOK' /\ TimeoutsInv'
  <2>1. Abandoned(s) \in [Scripts -> Pcs]
    BY DEF Abandoned
  <2>2. pc' \in [Scripts -> Pcs] /\ code' \in [Scripts -> {"none", "init", "task", "timeout"}]
    BY ZenonT(60), <1>21, <2>1 DEF EndDelete, Start
  <2>3. mScripts' \subseteq Scripts /\ mState' \in [Scripts -> States]
    <3>1. \/ mScripts' = mScripts \cup {s} /\ mState' = [mState EXCEPT ![s] = "RUNNING"]
          \/ mScripts' = mScripts \ {s} /\ mState' = mState
      BY <1>21 DEF EndDelete, Start
    <3>2. mScripts' \subseteq Scripts
      BY <3>1
    <3>3. mState' \in [Scripts -> States]
      BY <3>1
    <3>. QED
      BY <3>2, <3>3
  <2>4. /\ mTasks' \in [Scripts -> Seq(Scripts \cup {Null})]
        /\ mTimeouts' \in [Scripts -> 0..MaxTimeouts] /\ TimeoutsInv'
    BY <1>21 DEF EndDelete
  <2>. QED
    BY <1>21, <2>2, <2>3, <2>4 DEF EndDelete
<1>22. ASSUME NEW s \in Scripts, Subscribe(s) PROVE TypeOK' /\ TimeoutsInv'
  BY <1>22 DEF Subscribe
<1>23. ASSUME NEW s \in Scripts, Push(s) PROVE TypeOK' /\ TimeoutsInv'
  BY <1>23 DEF Push
<1>24. CASE Request
  BY <1>24 DEF Request
<1>25. CASE ExecuteOther
  BY <1>25 DEF ExecuteOther, Pop
<1>26. CASE UNCHANGED vars
  BY <1>26 DEF vars
<1>. QED
  BY <1>1, <1>2, <1>3, <1>4, <1>5, <1>6, <1>7, <1>8, <1>9, <1>10, <1>11, <1>12, <1>13, <1>14, <1>15, <1>16, <1>17, <1>18, <1>19, <1>20, <1>21,
     <1>22, <1>23, <1>24, <1>25, <1>26
  DEF Next, ThreadStep, BrokerStep

(* A thread waits only when its queue is empty, and is woken when that changes. *)
LEMMA WaitStep == WaitsForWork /\ [Next]_vars /\ TypeOK' => WaitsForWork'
<1>. SUFFICES ASSUME WaitsForWork, [Next]_vars, TypeOK' PROVE WaitsForWork'
  OBVIOUS
<1>. DEFINE Waiting(s) == pc[s] \in {"wait", "waitTimeout"} =>
                /\ mTasks[s] = <<>>
                /\ pc[s] = "wait" /\ mTimeouts[s] > 0 => mState[s] = "DEACTIVATED"
<1>. SUFFICES ASSUME NEW w \in Scripts PROVE Waiting(w)'
  BY DEF WaitsForWork
<1>0. TypeOK /\ Waiting(w)
  BY DEF WaitsForWork
<1>. USE <1>0 DEF TypeOK, Goto, containerVars, threadVars, queueVars, countVars
<1>1. ASSUME NEW s \in Scripts, Publish(s) PROVE Waiting(w)'
  <2>1. UNCHANGED <<mTimeouts, mState>>
    BY <1>1 DEF Publish
  <2>. QED
    <3>1. Run(s, Null) /\ w # Null
      BY <1>1, ScriptAssumption DEF Publish
    <3>2. /\ pc'[w] = pc[w] \/ pc'[w] = "woken"
          /\ mTasks' = mTasks \/ (/\ mTasks' = [mTasks EXCEPT ![s] = Append(@, Null)]
                                  /\ pc'[s] \notin {"wait", "waitTimeout"})
      BY ZenonT(60), <3>1, RunEffect
    <3>. QED
      BY <2>1, <3>2
<1>2. ASSUME NEW s \in Scripts, NEW c \in Scripts, CallScript(s, c) PROVE Waiting(w)'
  BY <1>2 DEF CallScript
<1>3. ASSUME NEW s \in Scripts, SetTimeout(s) PROVE Waiting(w)'
  BY <1>3 DEF SetTimeout
<1>4. ASSUME NEW s \in Scripts, ClearTimeout(s) PROVE Waiting(w)'
  BY <1>4 DEF ClearTimeout
<1>5. ASSUME NEW s \in Scripts, RunScript(s) PROVE Waiting(w)'
  <2>1. UNCHANGED <<mTimeouts, mState>>
    BY <1>5 DEF RunScript
  <2>2. CASE callee[s] \in mScripts /\ Run(callee[s], s)
    <3>1. callee[s] \in Scripts /\ s \in Scripts \cup {Null}
      BY <2>2
    <3>2. /\ pc'[w] \in {"js", "awaiting", "woken", pc[w]}
          /\ \/ mTasks' = mTasks
             \/ /\ mTasks' = [mTasks EXCEPT ![callee[s]] = Append(@, s)]
                /\ pc'[callee[s]] \notin {"wait", "waitTimeout"}
      BY ZenonT(60), <2>2, <3>1, RunEffect
    <3>. QED
      BY <2>1, <3>2
  <2>3. CASE Goto(s, "js") /\ UNCHANGED mTasks
    BY <2>1, <2>3
  <2>. QED
    BY <1>5, <2>2, <2>3 DEF RunScript
<1>6. ASSUME NEW s \in Scripts, FinishInit(s) PROVE Waiting(w)'
  BY <1>6 DEF FinishInit, Leave
<1>7. ASSUME NEW s \in Scripts, FailInit(s) PROVE Waiting(w)'
  BY <1>7 DEF FailInit
<1>8. ASSUME NEW s \in Scripts, FinishTask(s) PROVE Waiting(w)'
  BY <1>8 DEF FinishTask, Answered, Leave
<1>9. ASSUME NEW s \in Scripts, FinishTimeout(s) PROVE Waiting(w)'
  BY <1>9 DEF FinishTimeout, Leave
<1>10. ASSUME NEW s \in Scripts, LoopTest(s) PROVE Waiting(w)'
  BY <1>10 DEF LoopTest
<1>11. ASSUME NEW s \in Scripts, EnterLoop(s) PROVE Waiting(w)'
  <2>1. PICK due : Serve(s, due)
    BY <1>11 DEF EnterLoop
  <2>2. mState' = mState
    BY <1>11 DEF EnterLoop
  <2>. QED
    BY ZenonT(60), <2>1, <2>2, ServeEffect
<1>12. ASSUME NEW s \in Scripts, Resume(s) PROVE Waiting(w)'
  <2>1. mState' = mState
    BY <1>12 DEF Resume
  <2>2. CASE Goto(s, "ended") /\ UNCHANGED <<mTasks, mTimeouts, caller, code>>
    BY <2>1, <2>2
  <2>3. ASSUME NEW due, Serve(s, due) PROVE Waiting(w)'
    BY ZenonT(60), <2>1, <2>3, ServeEffect
  <2>. QED
    BY <1>12, <2>2, <2>3 DEF Resume
<1>13. ASSUME NEW s \in Scripts, Expire(s) PROVE Waiting(w)'
  BY <1>13 DEF Expire
<1>14. ASSUME NEW s \in Scripts, SpuriousWakeup(s) PROVE Waiting(w)'
  BY <1>14 DEF SpuriousWakeup
<1>15. ASSUME NEW s \in Scripts, BeginActivate(s) PROVE Waiting(w)'
  BY <1>15 DEF BeginActivate, BeginOp
<1>16. ASSUME NEW s \in Scripts, BeginDeactivate(s) PROVE Waiting(w)'
  BY <1>16 DEF BeginDeactivate, BeginOp
<1>17. ASSUME NEW s \in Scripts, AddScript(s) PROVE Waiting(w)'
  BY <1>17 DEF AddScript, BeginOp, Pop, Start
<1>18. ASSUME NEW s \in Scripts, NEW kind \in {"delete", "replace"}, BeginDelete(s, kind)
      PROVE Waiting(w)'
  BY <1>18 DEF BeginDelete, BeginOp, Pop, ForceQuit, Notified
<1>19. ASSUME NEW s \in Scripts, EndActivate(s) PROVE Waiting(w)'
  BY <1>19 DEF EndActivate, Notified
<1>20. ASSUME NEW s \in Scripts, EndDeactivate(s) PROVE Waiting(w)'
  BY <1>20 DEF EndDeactivate
<1>21. ASSUME NEW s \in Scripts, EndDelete(s) PROVE Waiting(w)'
  <2>1. Abandoned(s)[w] \in {pc[w], "abandoned"}
    BY DEF Abandoned
  <2>2. pc'[w] \in {pc[w], "abandoned", "js"} /\ (w = s => pc'[w] \notin {"wait", "waitTimeout"})
    <3>1. \/ pc' = [Abandoned(s) EXCEPT ![s] = "js"]
          \/ pc' = Abandoned(s)
      BY <1>21 DEF EndDelete
    <3>2. Abandoned(s)[s] \in {"ended", "abandoned"}
      BY <1>21 DEF EndDelete, Abandoned
    <3>3. DOMAIN Abandoned(s) = Scripts
      BY DEF Abandoned
    <3>. QED
      BY ZenonT(60), <2>1, <3>1, <3>2, <3>3
  <2>3. w # s => UNCHANGED <<mTasks[w], mTimeouts[w], mState[w]>>
    BY <1>21 DEF EndDelete, Start
  <2>. QED
    BY <2>2, <2>3
<1>22. ASSUME NEW s \in Scripts, Subscribe(s) PROVE Waiting(w)'
  BY <1>22 DEF Subscribe
<1>23. ASSUME NEW s \in Scripts, Push(s) PROVE Waiting(w)'
  BY <1>23 DEF Push
<1>24. CASE Request
  BY <1>24 DEF Request
<1>25. CASE ExecuteOther
  BY <1>25 DEF ExecuteOther, Pop
<1>26. CASE UNCHANGED vars
  BY <1>26 DEF vars
<1>. QED
  BY <1>1, <1>2, <1>3, <1>4, <1>5, <1>6, <1>7, <1>8, <1>9, <1>10, <1>11, <1>12, <1>13, <1>14, <1>15, <1>16, <1>17, <1>18, <1>19, <1>20, <1>21,
     <1>22, <1>23, <1>24, <1>25, <1>26
  DEF Next, ThreadStep, BrokerStep

(* Steps that touch neither queues nor callers, and move no waiting caller. *)
LEMMA CallsKept ==
    ASSUME TypeOK, CallInv, UNCHANGED <<mTasks, caller>>,
           \A w \in Scripts : pc[w] = "awaiting" => pc'[w] = "awaiting",
           \A w \in Scripts : caller[w] # Null => pc'[w] \in JsPcs /\ code'[w] = "task",
           GoneEnded'
    PROVE  CallInv'
<1>1. RunningCalls'
  BY DEF CallInv, RunningCalls, TypeOK
<1>2. QueuedCalls'
  BY DEF CallInv, QueuedCalls, TypeOK
<1>. QED
  BY <1>1, <1>2 DEF CallInv

(* run keeps the calls apart: the caller, if there is one, did not wait before. *)
LEMMA RunCalls ==
    ASSUME TypeOK, CallInv, NEW s \in mScripts, NEW c \in Scripts \cup {Null}, Run(s, c),
           c \in Scripts => pc[c] = "calling", UNCHANGED <<mScripts, caller, code>>
    PROVE  CallInv'
<1>. USE ScriptAssumption DEF TypeOK
<1>0. s \in Scripts
  OBVIOUS
<1>1. \A w \in Scripts : \/ w = c
                         \/ pc'[w] = pc[w]
                         \/ pc[w] \in {"wait", "waitTimeout"} /\ pc'[w] = "woken"
  BY <1>0, RunEffect
<1>2. c \in Scripts => pc'[c] \in {"js", "awaiting"}
  BY <1>0, RunEffect
<1>3. /\ \A w \in Scripts : pc[w] = "awaiting" => pc'[w] = "awaiting"
      /\ \A w \in Scripts : caller[w] # Null => pc'[w] \in JsPcs /\ code'[w] = "task"
      /\ GoneEnded'
  <2>1. \A w \in Scripts : pc[w] = "awaiting" => pc'[w] = "awaiting"
    BY <1>1
  <2>2. ASSUME NEW w \in Scripts, caller[w] # Null PROVE pc'[w] \in JsPcs /\ code'[w] = "task"
    BY ZenonT(60), <1>1, <1>2, <2>2 DEF CallInv, RunningCalls, JsPcs
  <2>3. ASSUME NEW w \in Scripts, w \notin mScripts PROVE pc'[w] = "ended"
    BY ZenonT(60), <1>1, <2>3 DEF CallInv, GoneEnded
  <2>. QED
    BY <2>1, <2>2, <2>3 DEF GoneEnded
<1>4. CASE mTasks' = mTasks
  BY <1>3, <1>4, CallsKept
<1>5. CASE /\ mTasks' = [mTasks EXCEPT ![s] = Append(@, c)]
           /\ c \in Scripts => pc'[c] = "awaiting"
  <2>1. \A u \in Scripts : \A i \in DOMAIN mTasks'[u] :
           \/ i \in DOMAIN mTasks[u] /\ mTasks'[u][i] = mTasks[u][i]
           \/ u = s /\ i = Len(mTasks[s]) + 1 /\ mTasks'[u][i] = c
    BY <1>0, <1>5
  <2>2. c \in Scripts => /\ \A u \in Scripts : caller[u] # c
                         /\ \A u \in Scripts : \A i \in DOMAIN mTasks[u] : mTasks[u][i] # c
    <3>1. SUFFICES ASSUME c \in Scripts
                   PROVE  /\ \A u \in Scripts : caller[u] # c
                          /\ \A u \in Scripts : \A i \in DOMAIN mTasks[u] : mTasks[u][i] # c
      OBVIOUS
    <3>2. c # Null /\ pc[c] # "awaiting"
      BY <3>1
    <3>. QED
      BY <3>2 DEF CallInv, RunningCalls, QueuedCalls
  <2>3. RunningCalls'
    BY <1>3 DEF CallInv, RunningCalls
  <2>4. ASSUME NEW u \in Scripts, NEW i \in DOMAIN mTasks'[u], mTasks'[u][i] # Null
        PROVE  /\ pc'[mTasks'[u][i]] = "awaiting"
               /\ \A w \in Scripts : caller'[w] # mTasks'[u][i]
    <3>1. CASE i \in DOMAIN mTasks[u] /\ mTasks'[u][i] = mTasks[u][i]
      <4>1. mTasks[u][i] \in Scripts
        BY <2>4, <3>1
      <4>. QED
        BY <1>3, <2>4, <3>1, <4>1 DEF CallInv, QueuedCalls
    <3>2. CASE mTasks'[u][i] = c
      BY SMTT(60), <1>5, <2>2, <2>4, <3>2
    <3>. QED
      BY <2>1, <3>1, <3>2
  <2>5. ASSUME NEW u \in Scripts, NEW v \in Scripts,
               NEW i \in DOMAIN mTasks'[u], NEW j \in DOMAIN mTasks'[v],
               mTasks'[u][i] = mTasks'[v][j], mTasks'[u][i] # Null
        PROVE  u = v /\ i = j
    <3>1. CASE mTasks'[u][i] = c
      <4>1. /\ u = s /\ i = Len(mTasks[s]) + 1
            /\ v = s /\ j = Len(mTasks[s]) + 1
        BY ZenonT(60), <2>1, <2>2, <2>5, <3>1
      <4>. QED
        BY <4>1
    <3>2. CASE mTasks'[u][i] # c
      BY SMTT(60), <2>1, <2>5, <3>2 DEF CallInv, QueuedCalls
    <3>. QED
      BY <3>1, <3>2
  <2>6. QueuedCalls'
    BY <2>4, <2>5 DEF QueuedCalls
  <2>. QED
    BY <1>3, <2>3, <2>6 DEF CallInv
<1>. QED
  BY SMTT(60), <1>0, <1>4, <1>5, RunEffect

(* A task that is taken from the queue takes its caller along. *)
LEMMA ServeCalls ==
    ASSUME TypeOK, CallInv, NEW s \in Scripts, pc[s] \in {"lock", "woken", "expired"},
           NEW due, Serve(s, due), UNCHANGED mScripts
    PROVE  CallInv'
<1>. USE ScriptAssumption DEF TypeOK
<1>0. caller[s] = Null /\ s \in mScripts
  BY DEF CallInv, RunningCalls, GoneEnded, JsPcs
<1>1. /\ \A w \in Scripts \ {s} : pc'[w] = pc[w]
      /\ pc'[s] \in {"js", "wait", "waitTimeout"}
  BY ServeEffect
<1>2. GoneEnded'
  BY <1>0, <1>1 DEF CallInv, GoneEnded
<1>3. CASE UNCHANGED <<mTasks, caller>> /\ \A w \in Scripts \ {s} : code'[w] = code[w]
  BY SMTT(60), <1>0, <1>1, <1>2, <1>3, CallsKept DEF CallInv, RunningCalls
<1>4. CASE /\ mTasks[s] # <<>> /\ mTasks' = [mTasks EXCEPT ![s] = Tail(@)]
           /\ caller' = [caller EXCEPT ![s] = Head(mTasks[s])]
           /\ code' = [code EXCEPT ![s] = "task"] /\ pc'[s] = "js"
  <2>1. 1 \in DOMAIN mTasks[s] /\ caller'[s] = mTasks[s][1]
    BY <1>4
  <2>2. \A u \in Scripts : \A i \in DOMAIN mTasks'[u] :
           IF u = s THEN i + 1 \in DOMAIN mTasks[s] /\ mTasks'[s][i] = mTasks[s][i + 1] /\ i + 1 # 1
           ELSE i \in DOMAIN mTasks[u] /\ mTasks'[u][i] = mTasks[u][i]
    BY <1>4
  <2>3. \A w \in Scripts : pc[w] = "awaiting" => pc'[w] = "awaiting"
    BY <1>1
  <2>4. \A u \in Scripts \ {s} : caller'[u] = caller[u] /\ code'[u] = code[u]
    BY <1>4
  <2>5. RunningCalls'
    BY SMTT(60), <1>1, <1>4, <2>1, <2>3, <2>4 DEF CallInv, RunningCalls, QueuedCalls, JsPcs
  <2>6. ASSUME NEW u \in Scripts, NEW i \in DOMAIN mTasks'[u], mTasks'[u][i] # Null
        PROVE  /\ pc'[mTasks'[u][i]] = "awaiting"
               /\ \A w \in Scripts : caller'[w] # mTasks'[u][i]
    <3>0. PICK k \in DOMAIN mTasks[u] : /\ mTasks'[u][i] = mTasks[u][k]
                                        /\ k = IF u = s THEN i + 1 ELSE i
      BY <2>2
    <3>1. mTasks'[u][i] = mTasks[u][k] /\ (u = s => k # 1)
      BY <2>2, <3>0
    <3>2. mTasks[u][k] \in Scripts
      BY <2>6, <3>1
    <3>3. /\ pc[mTasks[u][k]] = "awaiting"
          /\ \A w \in Scripts : caller[w] # mTasks[u][k]
          /\ mTasks[u][k] # mTasks[s][1]
      BY <2>1, <2>6, <3>1 DEF CallInv, QueuedCalls
    <3>. QED
      BY SMTT(60), <2>1, <2>3, <2>4, <3>1, <3>2, <3>3
  <2>7. ASSUME NEW u \in Scripts, NEW v \in Scripts,
               NEW i \in DOMAIN mTasks'[u], NEW j \in DOMAIN mTasks'[v],
               mTasks'[u][i] = mTasks'[v][j], mTasks'[u][i] # Null
        PROVE  u = v /\ i = j
    <3>1. i \in Nat /\ j \in Nat
      BY SMTT(60), <1>4
    <3>2. PICK k \in DOMAIN mTasks[u] : /\ mTasks'[u][i] = mTasks[u][k]
                                        /\ k = IF u = s THEN i + 1 ELSE i
      BY <2>2
    <3>3. PICK l \in DOMAIN mTasks[v] : /\ mTasks'[v][j] = mTasks[v][l]
                                        /\ l = IF v = s THEN j + 1 ELSE j
      BY SMTT(60), <2>2
    <3>4. u = v /\ k = l
      <4>1. mTasks[u][k] = mTasks[v][l] /\ mTasks[u][k] # Null
        BY <2>7, <3>2, <3>3
      <4>2. QueuedCalls
        BY DEF CallInv
      <4>. QED
        BY <4>1, <4>2 DEF QueuedCalls
    <3>. QED
      BY <3>1, <3>2, <3>3, <3>4
  <2>. QED
    BY <1>2, <2>5, <2>6, <2>7 DEF CallInv, QueuedCalls
<1>. QED
  BY <1>3, <1>4, ServeEffect

(* The answer to a task ends its caller's wait, and with it the call. *)
LEMMA FinishTaskCalls ==
    ASSUME TypeOK, CallInv, NEW s \in Scripts, FinishTask(s)
    PROVE  CallInv'
<1>. USE ScriptAssumption DEF TypeOK
<1>1. /\ pc[s] = "js" /\ caller' = [caller EXCEPT ![s] = Null]
      /\ code' = [code EXCEPT ![s] = "none"] /\ UNCHANGED <<mTasks, mScripts>>
  BY DEF FinishTask, Leave, containerVars
<1>2. \A w \in Scripts : pc'[w] = IF w = s THEN "test" ELSE IF w = caller[s] THEN "js" ELSE pc[w]
  BY DEF FinishTask, Answered
<1>3. ASSUME NEW w \in Scripts, caller'[w] # Null
      PROVE  pc'[w] \in JsPcs /\ code'[w] = "task" /\ pc'[caller'[w]] = "awaiting"
  <2>1. w # s /\ caller[w] # Null /\ caller'[w] = caller[w] /\ caller[w] # caller[s]
    BY <1>1, <1>3 DEF CallInv, RunningCalls
  <2>2. pc[caller[w]] = "awaiting" /\ pc[w] \in JsPcs /\ code[w] = "task" /\ caller[w] \in Scripts
    BY <2>1 DEF CallInv, RunningCalls
  <2>3. caller[w] # s
    BY <1>1, <2>2
  <2>. QED
    BY <1>1, <1>2, <2>1, <2>2, <2>3 DEF JsPcs
<1>4. RunningCalls'
  BY <1>1, <1>3 DEF CallInv, RunningCalls
<1>5. ASSUME NEW u \in Scripts, NEW i \in DOMAIN mTasks[u], mTasks[u][i] # Null
      PROVE  pc'[mTasks[u][i]] = "awaiting" /\ \A w \in Scripts : caller'[w] # mTasks[u][i]
  <2>1. /\ mTasks[u][i] \in Scripts /\ pc[mTasks[u][i]] = "awaiting"
        /\ \A w \in Scripts : caller[w] # mTasks[u][i]
    BY <1>5 DEF CallInv, QueuedCalls
  <2>. QED
    BY <1>1, <1>2, <1>5, <2>1
<1>6. QueuedCalls'
  BY <1>1, <1>5 DEF CallInv, QueuedCalls
<1>7. GoneEnded'
  <2>1. caller[s] # Null => pc[caller[s]] = "awaiting"
    BY DEF CallInv, RunningCalls
  <2>2. ASSUME NEW w \in Scripts, w \notin mScripts PROVE pc'[w] = "ended"
    <3>1. pc[w] = "ended"
      BY <2>2 DEF CallInv, GoneEnded
    <3>. QED
      BY ZenonT(60), <1>1, <1>2, <2>1, <3>1
  <2>. QED
    BY <1>1, <2>2 DEF GoneEnded
<1>. QED
  BY <1>4, <1>6, <1>7 DEF CallInv

(* A container that goes takes its tasks along: their callers are abandoned, those *)
(* of other tasks are not.                                                         *)
LEMMA EndDeleteCalls ==
    ASSUME TypeOK, CallInv, NEW s \in Scripts, EndDelete(s)
    PROVE  CallInv'
<1>. USE ScriptAssumption DEF TypeOK
<1>1. /\ pc[s] = "ended" /\ mTasks' = [mTasks EXCEPT ![s] = <<>>] /\ UNCHANGED caller
  BY DEF EndDelete
<1>2. caller[s] = Null
  BY <1>1 DEF CallInv, RunningCalls, JsPcs
<1>. DEFINE Left(w) == \E i \in DOMAIN mTasks[s] : mTasks[s][i] = w
<1>3. \A w \in Scripts : Left(w) => pc[w] = "awaiting" /\ \A u \in Scripts : caller[u] # w
  BY DEF CallInv, QueuedCalls
<1>4. /\ \A w \in Scripts \ {s} : pc'[w] = (IF Left(w) THEN "abandoned" ELSE pc[w])
      /\ \A w \in Scripts \ {s} : code'[w] = code[w]
      /\ \A w \in Scripts \ {s} : w \in mScripts' <=> w \in mScripts
      /\ s \notin mScripts' => pc'[s] = "ended"
  <2>1. \A w \in Scripts : Abandoned(s)[w] = (IF Left(w) THEN "abandoned" ELSE pc[w])
    BY DEF Abandoned
  <2>2. ~Left(s)
    BY <1>1, <1>3
  <2>3. DOMAIN Abandoned(s) = Scripts
    BY DEF Abandoned
  <2>. HIDE DEF Left
  <2>4. CASE op.kind = "replace"
    BY <2>1, <2>3, <2>4 DEF EndDelete, Start
  <2>5. CASE op.kind # "replace"
    BY <1>1, <2>1, <2>2, <2>5 DEF EndDelete
  <2>. QED
    BY <2>4, <2>5
<1>5. ASSUME NEW w \in Scripts, pc[w] = "awaiting", ~Left(w) PROVE pc'[w] = "awaiting"
  BY <1>1, <1>4, <1>5
<1>6. RunningCalls'
  <2>1. ASSUME NEW w \in Scripts, caller[w] # Null
        PROVE  pc'[w] \in JsPcs /\ code'[w] = "task" /\ pc'[caller[w]] = "awaiting"
    <3>1. /\ w # s /\ pc[w] \in JsPcs /\ code[w] = "task"
          /\ pc[caller[w]] = "awaiting" /\ caller[w] \in Scripts
      BY <1>2, <2>1 DEF CallInv, RunningCalls
    <3>2. ~Left(caller[w])
      BY <1>3, <3>1
    <3>. QED
      BY <1>4, <1>5, <3>1, <3>2 DEF JsPcs
  <2>. QED
    BY <1>1, <2>1 DEF CallInv, RunningCalls
<1>7. QueuedCalls'
  <2>1. \A u \in Scripts : \A i \in DOMAIN mTasks'[u] :
           u # s /\ i \in DOMAIN mTasks[u] /\ mTasks'[u][i] = mTasks[u][i]
    BY <1>1
  <2>2. ASSUME NEW u \in Scripts, NEW i \in DOMAIN mTasks'[u], mTasks'[u][i] # Null
        PROVE  /\ pc'[mTasks'[u][i]] = "awaiting"
               /\ \A w \in Scripts : caller[w] # mTasks'[u][i]
    <3>1. u # s /\ i \in DOMAIN mTasks[u] /\ mTasks'[u][i] = mTasks[u][i]
      BY <2>1
    <3>2. /\ mTasks[u][i] \in Scripts /\ pc[mTasks[u][i]] = "awaiting"
          /\ \A w \in Scripts : caller[w] # mTasks[u][i]
      BY <2>2, <3>1 DEF CallInv, QueuedCalls
    <3>3. ~Left(mTasks[u][i])
      BY <2>2, <3>1 DEF CallInv, QueuedCalls
    <3>. QED
      BY <1>5, <3>1, <3>2, <3>3
  <2>. QED
    BY SMTT(60), <1>1, <2>1, <2>2 DEF CallInv, QueuedCalls
<1>8. GoneEnded'
  <2>1. ASSUME NEW w \in Scripts, w # s, w \notin mScripts' PROVE pc'[w] = "ended"
    <3>1. pc[w] = "ended"
      BY <1>4, <2>1 DEF CallInv, GoneEnded
    <3>2. ~Left(w)
      BY <1>3, <3>1
    <3>. HIDE DEF Left
    <3>. QED
      BY <1>4, <2>1, <3>1, <3>2
  <2>. QED
    BY <1>4, <2>1 DEF GoneEnded
<1>. QED
  BY <1>6, <1>7, <1>8 DEF CallInv

(* No step leaves a task behind whose caller no longer waits. *)
LEMMA CallStep == TypeOK /\ CallInv /\ [Next]_vars => CallInv'
<1>. SUFFICES ASSUME TypeOK, CallInv, [Next]_vars PROVE CallInv'
  OBVIOUS
<1>. USE DEF Goto, containerVars, threadVars, queueVars, countVars
<1>1. ASSUME NEW s \in Scripts, Publish(s) PROVE CallInv'
  BY <1>1, RunCalls, ScriptAssumption DEF Publish
<1>2. ASSUME NEW s \in Scripts, NEW c \in Scripts, CallScript(s, c) PROVE CallInv'
  BY SMTT(60), <1>2, CallsKept DEF CallScript, TypeOK, CallInv, RunningCalls, GoneEnded, JsPcs
<1>3. ASSUME NEW s \in Scripts, SetTimeout(s) PROVE CallInv'
  BY <1>3, CallsKept DEF SetTimeout, TypeOK, CallInv, RunningCalls, GoneEnded, JsPcs
<1>4. ASSUME NEW s \in Scripts, ClearTimeout(s) PROVE CallInv'
  BY <1>4, CallsKept DEF ClearTimeout, TypeOK, CallInv, RunningCalls, GoneEnded, JsPcs
<1>5. ASSUME NEW s \in Scripts, RunScript(s) PROVE CallInv'
  <2>1. CASE callee[s] \in mScripts /\ Run(callee[s], s)
    BY <1>5, <2>1, RunCalls DEF RunScript
  <2>2. CASE Goto(s, "js") /\ UNCHANGED mTasks
    BY <1>5, <2>2, CallsKept DEF RunScript, TypeOK, CallInv, RunningCalls, GoneEnded, JsPcs
  <2>. QED
    BY <1>5, <2>1, <2>2 DEF RunScript
<1>6. ASSUME NEW s \in Scripts, FinishInit(s) PROVE CallInv'
  BY SMTT(60), <1>6, CallsKept DEF FinishInit, Leave, TypeOK, CallInv, RunningCalls, GoneEnded, JsPcs
<1>7. ASSUME NEW s \in Scripts, FailInit(s) PROVE CallInv'
  BY <1>7, CallsKept DEF FailInit, TypeOK, CallInv, RunningCalls, GoneEnded, JsPcs
<1>8. ASSUME NEW s \in Scripts, FinishTask(s) PROVE CallInv'
  BY <1>8, FinishTaskCalls
<1>9. ASSUME NEW s \in Scripts, FinishTimeout(s) PROVE CallInv'
  BY SMTT(60), <1>9, CallsKept DEF FinishTimeout, Leave, TypeOK, CallInv, RunningCalls, GoneEnded, JsPcs
<1>10. ASSUME NEW s \in Scripts, LoopTest(s) PROVE CallInv'
  BY <1>10, CallsKept DEF LoopTest, TypeOK, CallInv, RunningCalls, GoneEnded, JsPcs
<1>11. ASSUME NEW s \in Scripts, EnterLoop(s) PROVE CallInv'
  BY <1>11, ServeCalls DEF EnterLoop
<1>12. ASSUME NEW s \in Scripts, Resume(s) PROVE CallInv'
  <2>1. CASE Goto(s, "ended") /\ UNCHANGED <<mTasks, mTimeouts, caller, code>>
    <3>1. pc[s] \in {"woken", "expired"} /\ UNCHANGED mScripts
      BY <1>12 DEF Resume
    <3>2. caller[s] = Null
      BY <3>1 DEF TypeOK, CallInv, RunningCalls, JsPcs
    <3>3. GoneEnded'
      BY <2>1, <3>1 DEF TypeOK, CallInv, GoneEnded
    <3>. QED
      BY SMTT(60), <2>1, <3>1, <3>2, <3>3, CallsKept DEF TypeOK, CallInv, RunningCalls, JsPcs
  <2>2. CASE \E due \in BOOLEAN : Serve(s, due)
    BY <1>12, <2>2, ServeCalls DEF Resume
  <2>. QED
    BY <1>12, <2>1, <2>2 DEF Resume
<1>13. ASSUME NEW s \in Scripts, Expire(s) PROVE CallInv'
  BY SMTT(60), <1>13, CallsKept DEF Expire, TypeOK, CallInv, RunningCalls, GoneEnded, JsPcs
<1>14. ASSUME NEW s \in Scripts, SpuriousWakeup(s) PROVE CallInv'
  BY SMTT(60), <1>14, CallsKept DEF SpuriousWakeup, TypeOK, CallInv, RunningCalls, GoneEnded, JsPcs
<1>15. ASSUME NEW s \in Scripts, BeginActivate(s) PROVE CallInv'
  BY <1>15, CallsKept DEF BeginActivate, BeginOp, TypeOK, CallInv, RunningCalls, GoneEnded, JsPcs
<1>16. ASSUME NEW s \in Scripts, BeginDeactivate(s) PROVE CallInv'
  BY <1>16, CallsKept DEF BeginDeactivate, BeginOp, TypeOK, CallInv, RunningCalls, GoneEnded, JsPcs
<1>17. ASSUME NEW s \in Scripts, AddScript(s) PROVE CallInv'
  <2>1. /\ s \notin mScripts /\ mScripts' = mScripts \cup {s}
        /\ pc' = [pc EXCEPT ![s] = "js"] /\ code' = [code EXCEPT ![s] = "init"]
        /\ UNCHANGED <<mTasks, caller>>
    BY <1>17 DEF AddScript, Start
  <2>2. pc[s] = "ended"
    BY <2>1 DEF CallInv, GoneEnded
  <2>3. caller[s] = Null
    BY <2>2 DEF TypeOK, CallInv, RunningCalls, JsPcs
  <2>4. GoneEnded'
    BY <2>1 DEF TypeOK, CallInv, GoneEnded
  <2>. QED
    BY SMTT(60), <2>1, <2>2, <2>3, <2>4, CallsKept DEF TypeOK, CallInv, RunningCalls, JsPcs
<1>18. ASSUME NEW s \in Scripts, NEW kind \in {"delete", "replace"}, BeginDelete(s, kind)
      PROVE CallInv'
  BY SMTT(60), <1>18, CallsKept DEF BeginDelete, BeginOp, Pop, ForceQuit, Notified, TypeOK, CallInv, RunningCalls, GoneEnded, JsPcs
<1>19. ASSUME NEW s \in Scripts, EndActivate(s) PROVE CallInv'
  BY SMTT(60), <1>19, CallsKept DEF EndActivate, Notified, TypeOK, CallInv, RunningCalls, GoneEnded, JsPcs
<1>20. ASSUME NEW s \in Scripts, EndDeactivate(s) PROVE CallInv'
  BY <1>20, CallsKept DEF EndDeactivate, TypeOK, CallInv, RunningCalls, GoneEnded, JsPcs
<1>21. ASSUME NEW s \in Scripts, EndDelete(s) PROVE CallInv'
  BY <1>21, EndDeleteCalls
<1>22. ASSUME NEW s \in Scripts, Subscribe(s) PROVE CallInv'
  BY <1>22, CallsKept DEF Subscribe, TypeOK, CallInv, RunningCalls, GoneEnded, JsPcs
<1>23. ASSUME NEW s \in Scripts, Push(s) PROVE CallInv'
  BY <1>23, CallsKept DEF Push, TypeOK, CallInv, RunningCalls, GoneEnded, JsPcs
<1>24. CASE Request
  BY <1>24, CallsKept DEF Request, TypeOK, CallInv, RunningCalls, GoneEnded, JsPcs
<1>25. CASE ExecuteOther
  BY <1>25, CallsKept DEF ExecuteOther, Pop, TypeOK, CallInv, RunningCalls, GoneEnded, JsPcs
<1>26. CASE UNCHANGED vars
  BY <1>26, CallsKept DEF vars, TypeOK, CallInv, RunningCalls, GoneEnded, JsPcs
<1>. QED
  BY <1>1, <1>2, <1>3, <1>4, <1>5, <1>6, <1>7, <1>8, <1>9, <1>10, <1>11, <1>12, <1>13, <1>14, <1>15, <1>16, <1>17, <1>18, <1>19, <1>20, <1>21,
     <1>22, <1>23, <1>24, <1>25, <1>26
  DEF Next, ThreadStep, BrokerStep

(* The invariant holds in every reachable state. *)
THEOREM Invariance == Spec => []Inv
<1>1. Inv /\ [Next]_vars => Inv'
  BY TypeStep, WaitStep, CallStep DEF Inv, WaitsForWork
<1>. QED
  BY InitInv, <1>1, PTL DEF Spec

-----------------------------------------------------------------------------
(* The results *)

(* A script's thread is never found waiting with a task in its queue, or with a    *)
(* time-out that is due to be run: every change of what it waits for comes with a  *)
(* notification, in whatever order publishers, callers and the broker come.        *)
THEOREM NoLostWakeup == Spec => []WaitsForWork
<1>1. Inv => WaitsForWork
  BY DEF Inv
<1>. QED
  BY <1>1, Invariance, PTL

(* The references a caller hands to its task stay valid: for as long as the task   *)
(* is queued or runs, the caller waits in callScript, for that task only.          *)
THEOREM CallsValid == Spec => []CallerWaits
<1>1. Inv => CallerWaits
  <2>. SUFFICES ASSUME Inv, NEW s \in Scripts, CallsOf(s) # {}
                PROVE  pc[s] = "awaiting" /\ Cardinality(CallsOf(s)) = 1
    BY DEF CallerWaits
  <2>1. TypeOK /\ RunningCalls /\ QueuedCalls /\ s # Null
    BY ScriptAssumption DEF Inv, WaitsForWork, CallInv
  <2>2. PICK x \in CallsOf(s) : TRUE
    OBVIOUS
  <2>3. pc[s] = "awaiting"
    BY <2>1, <2>2 DEF CallsOf, RunningCalls, QueuedCalls
  <2>4. ASSUME NEW y \in CallsOf(s) PROVE y = x
    <3>1. x[1] = y[1] /\ x[2] = y[2]
      BY <2>1, <2>2, <2>4 DEF CallsOf, RunningCalls, QueuedCalls
    <3>. QED
      BY <2>2, <2>4, <3>1 DEF CallsOf
  <2>5. CallsOf(s) = {x}
    BY <2>2, <2>4
  <2>. QED
    BY <2>3, <2>5, FS_Singleton
<1>. QED
  BY <1>1, Invariance, PTL
=============================================================================
