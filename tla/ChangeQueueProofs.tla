-------------------------- MODULE ChangeQueueProofs --------------------------
(***************************************************************************)
(* Proofs about ChangeQueue, for any set of threads, any queue capacity    *)
(* and any number of requests: who may touch mQueueInternal, that the      *)
(* queues, modes and locks implement the executor of module Executor, and  *)
(* that the reference count is the number of counted requests outstanding. *)
(***************************************************************************)
EXTENDS ChangeQueue, FiniteSetTheorems, SequenceTheorems, TLAPS

\* The places where a thread owns mMutex whatever it was called for
HoldPcs == {"setTid", "execute", "held", "clearTid", "unlock", "setTidAgain", "heldAgain",
            "drain", "executing", "executingInternal", "sendErrors", "drainInternal",
            "unlockEarly"}
SubmitPcs == {"try", "check", "push", "internal"}
ReturnPcs == {"idle", "held", "executing", "executingInternal", "sendErrors"}

(* Who owns mMutex, and how far the thread id beside it can be wrong: it may be   *)
(* cleared at any time by a thread that unlocked earlier, but it names a thread   *)
(* only while that thread owns the mutex, or has just unlocked it and is about to *)
(* clear the id.                                                                  *)
LockInv ==
    /\ \A t \in All : back[t] \in ReturnPcs
    /\ \A t \in All : pc[t] \in HoldPcs => mMutex = t
    /\ \A t \in All : pc[t] \in SubmitPcs /\ back[t] # "idle" => mMutex = t
    /\ \A t \in All : mCurrentRWHolderOfMMutex = t => mMutex = t \/ pc[t] = "clearLate"
    /\ \A t \in All : pc[t] = "unlock" => mCurrentRWHolderOfMMutex # t
    /\ \A t \in All : pc[t] = "internal" => mMutex = t

(* The worker leaves nothing in mQueueInternal when it has executed something.    *)
DrainInv ==
    /\ InternalDrained
    /\ pc[Worker] = "drain" /\ tasksPerformed => mQueueInternal = <<>>

\* The inductive invariant
Inv == TypeOK /\ LockInv /\ DrainInv

-----------------------------------------------------------------------------
(* Facts about the operators *)

(* The placeholder for "no request" is a request to the types. *)
LEMMA NoRequestType == NoRequest \in Requests
BY DEF NoRequest, Requests, Modes, All

(* The request that requestChange is called with is well formed. *)
LEMMA NewRequestType ==
    ASSUME TypeOK, NEW t \in All, NEW mode \in Modes, NEW nested \in BOOLEAN
    PROVE  NewRequest(t, mode, nested) \in Requests
BY DEF TypeOK, NewRequest, Requests

(* What the first part of requestChange leaves behind, whoever calls it. *)
LEMMA RequestChangeType ==
    ASSUME TypeOK, NEW t \in All, NEW mode \in Modes, NEW nested \in BOOLEAN,
           NEW return \in Pcs, RequestChange(t, mode, nested, return)
    PROVE  /\ issued' \in Nat /\ mRefCount' \in Int
           /\ pending' \in [All -> Requests]
           /\ back' \in [All -> Pcs] /\ pc' \in [All -> Pcs]
<1>1. pending' \in [All -> Requests]
  BY NewRequestType DEF RequestChange, TypeOK
<1>2. issued' \in Nat /\ mRefCount' \in Int
  BY DEF RequestChange, TypeOK
<1>3. back' \in [All -> Pcs]
  BY DEF RequestChange, TypeOK
<1>4. pc' \in [All -> Pcs]
  BY DEF RequestChange, TypeOK, Goto, Pcs, Modes
<1>. QED
  BY <1>1, <1>2, <1>3, <1>4

(* Where a thread goes from requestChange, and where it will return to. *)
LEMMA RequestChangeGoes ==
    ASSUME TypeOK, NEW t \in All, NEW mode \in Modes, NEW nested, NEW return,
           RequestChange(t, mode, nested, return)
    PROVE  /\ back' = [back EXCEPT ![t] = return]
           /\ \E l \in {"lock", "try", "check"} :
                 /\ pc' = [pc EXCEPT ![t] = l]
                 /\ l = "lock" => mode = "SYNC"
BY DEF RequestChange, Goto, Modes

-----------------------------------------------------------------------------
(* The steps of the induction *)

(* The program starts in the invariant: nothing is locked, queued or executed. *)
LEMMA InitInv == Init => Inv
<1>. SUFFICES ASSUME Init PROVE Inv
  OBVIOUS
<1>1. TypeOK
  <2>1. pc \in [All -> Pcs] /\ back \in [All -> Pcs]
    BY DEF Init, Pcs
  <2>2. pending \in [All -> Requests] /\ executing \in Requests
    BY NoRequestType DEF Init
  <2>3. /\ mQueue \in Seq(Requests) /\ mQueueInternal \in Seq(Requests)
        /\ executed \in Seq(Requests)
    BY DEF Init
  <2>4. /\ mMutex \in All \cup {Null} /\ mCurrentRWHolderOfMMutex \in All \cup {Null}
        /\ mMutexReaders \subseteq Threads
    BY DEF Init
  <2>5. mRefCount \in Int /\ issued \in Nat /\ sections \in Nat
    BY DEF Init
  <2>6. tasksPerformed \in BOOLEAN /\ loopEnded \in BOOLEAN
    BY Zenon DEF Init
  <2>. QED
    BY <2>1, <2>2, <2>3, <2>4, <2>5, <2>6 DEF TypeOK
<1>2. LockInv
  BY QueueAssumption DEF Init, LockInv, All, HoldPcs, SubmitPcs, ReturnPcs
<1>3. DrainInv
  BY DEF Init, DrainInv, InternalDrained
<1>. QED
  BY <1>1, <1>2, <1>3 DEF Inv

(* Every step of every thread keeps the variables in their types. *)
LEMMA TypeStep == TypeOK /\ [Next]_vars => TypeOK'
<1>. SUFFICES ASSUME TypeOK, [Next]_vars PROVE TypeOK'
  OBVIOUS
<1>. USE QueueAssumption DEF All, Goto, lockVars, queueVars, workerVars, countVars
<1>1. ASSUME NEW t \in All, Lock(t) PROVE TypeOK'
  BY <1>1 DEF Lock, Acquire, TypeOK, Pcs
<1>2. ASSUME NEW t \in All, SetTid(t) PROVE TypeOK'
  BY <1>2 DEF SetTid, TypeOK, Pcs
<1>3. ASSUME NEW t \in All, ClearTid(t) PROVE TypeOK'
  BY <1>3 DEF ClearTid, TypeOK, Pcs
<1>4. ASSUME NEW t \in All, Unlock(t) PROVE TypeOK'
  BY <1>4 DEF Unlock, TypeOK, Pcs
<1>5. ASSUME NEW t \in All, UnlockEarly(t) PROVE TypeOK'
  BY <1>5 DEF UnlockEarly, TypeOK, Pcs
<1>6. ASSUME NEW t \in All, ClearLate(t) PROVE TypeOK'
  BY <1>6 DEF ClearLate, TypeOK, Pcs
<1>7. ASSUME NEW t \in All, Relock(t) PROVE TypeOK'
  BY <1>7 DEF Relock, Acquire, TypeOK, Pcs
<1>8. ASSUME NEW t \in All, SetTidAgain(t) PROVE TypeOK'
  BY <1>8 DEF SetTidAgain, TypeOK, Pcs
<1>9. ASSUME NEW t \in All, TryLock(t) PROVE TypeOK'
  BY <1>9 DEF TryLock, Acquire, TypeOK, Pcs
<1>10. ASSUME NEW t \in All, ExecuteOwn(t) PROVE TypeOK'
  <2>1. executed' \in Seq(Requests)
    BY <1>10 DEF ExecuteOwn, TypeOK
  <2>2. pending' \in [All -> Requests]
    BY <1>10, NoRequestType DEF ExecuteOwn, TypeOK
  <2>. QED
    BY <1>10, <2>1, <2>2 DEF ExecuteOwn, TypeOK, Pcs
<1>11. ASSUME NEW t \in All, CheckHolder(t) PROVE TypeOK'
  BY <1>11 DEF CheckHolder, TypeOK, Pcs
<1>12. ASSUME NEW t \in All, EmplaceInternal(t) PROVE TypeOK'
  <2>1. mQueueInternal' \in Seq(Requests)
    BY <1>12 DEF EmplaceInternal, TypeOK
  <2>2. pending' \in [All -> Requests]
    BY <1>12, NoRequestType DEF EmplaceInternal, TypeOK
  <2>. QED
    BY <1>12, <2>1, <2>2 DEF EmplaceInternal, TypeOK
<1>13. ASSUME NEW t \in All, Push(t) PROVE TypeOK'
  <2>1. mQueue' \in Seq(Requests)
    BY <1>13 DEF Push, TypeOK
  <2>2. pending' \in [All -> Requests]
    BY <1>13, NoRequestType DEF Push, TypeOK
  <2>. QED
    BY <1>13, <2>1, <2>2 DEF Push, TypeOK
<1>14. ASSUME NEW t \in Threads, BeginPublish(t) PROVE TypeOK'
  BY <1>14 DEF BeginPublish, EnterSection, TypeOK, Pcs
<1>15. ASSUME NEW t \in Threads, EndPublish(t) PROVE TypeOK'
  <2>1. CASE RequestChange(t, "TRY_SYNC_THEN_ASYNC", FALSE, "idle")
    <3>1. /\ issued' \in Nat /\ mRefCount' \in Int /\ pending' \in [All -> Requests]
          /\ back' \in [All -> Pcs] /\ pc' \in [All -> Pcs]
      BY <2>1, RequestChangeType DEF Modes, Pcs
    <3>. QED
      BY <1>15, <3>1 DEF EndPublish, TypeOK
  <2>2. CASE Goto(t, "idle") /\ UNCHANGED <<issued, pending, mRefCount, back>>
    BY <1>15, <2>2 DEF EndPublish, TypeOK, Pcs
  <2>. QED
    BY <1>15, <2>1, <2>2 DEF EndPublish
<1>16. ASSUME NEW t \in Threads, BeginSection(t) PROVE TypeOK'
  BY <1>16 DEF BeginSection, EnterSection, TypeOK, Pcs
<1>17. ASSUME NEW t \in Threads, EndSection(t) PROVE TypeOK'
  BY ZenonT(60), <1>17 DEF EndSection, TypeOK, Pcs
<1>18. ASSUME NEW t \in Threads, NEW mode \in Modes, Request(t, mode) PROVE TypeOK'
  <2>1. /\ issued' \in Nat /\ mRefCount' \in Int /\ pending' \in [All -> Requests]
        /\ back' \in [All -> Pcs] /\ pc' \in [All -> Pcs]
    BY <1>18, RequestChangeType DEF Request, Pcs
  <2>. QED
    BY <1>18, <2>1 DEF Request, TypeOK
<1>19. ASSUME NEW t \in Threads, NEW mode \in {"ASYNC", "TRY_SYNC_THEN_ASYNC"},
           RequestInSection(t, mode)
    PROVE TypeOK'
  <2>1. /\ issued' \in Nat /\ mRefCount' \in Int /\ pending' \in [All -> Requests]
        /\ back' \in [All -> Pcs] /\ pc' \in [All -> Pcs]
    BY ZenonT(60), <1>19, RequestChangeType DEF RequestInSection, Pcs, Modes
  <2>. QED
    BY <1>19, <2>1 DEF RequestInSection, TypeOK
<1>20. CASE RequestInWorker
  <2>1. /\ issued' \in Nat /\ mRefCount' \in Int /\ pending' \in [All -> Requests]
        /\ back' \in [All -> Pcs] /\ pc' \in [All -> Pcs]
    BY ZenonT(60), <1>20, RequestChangeType DEF RequestInWorker, Pcs, Modes
  <2>. QED
    BY <1>20, <2>1 DEF RequestInWorker, TypeOK
<1>21. CASE WorkerPop
  BY <1>21 DEF WorkerPop, TypeOK, Pcs
<1>22. CASE WorkerFinish
  <2>1. executed' \in Seq(Requests)
    BY <1>22 DEF WorkerFinish, TypeOK
  <2>2. mRefCount' \in Int /\ executing' \in Requests
    BY <1>22, NoRequestType DEF WorkerFinish, TypeOK
  <2>. QED
    BY <1>22, <2>1, <2>2 DEF WorkerFinish, TypeOK, Pcs
<1>23. CASE WorkerLoopEnds
  BY <1>23 DEF WorkerLoopEnds, TypeOK, Pcs
<1>24. CASE WorkerSendErrorsDone
  BY <1>24 DEF WorkerSendErrorsDone, TypeOK, Pcs
<1>25. CASE WorkerPopInternal
  <2>1. executing' \in Requests /\ mQueueInternal' \in Seq(Requests)
    <3>1. CASE mQueueInternal # <<>>
      <4>1. Head(mQueueInternal) \in Requests /\ Tail(mQueueInternal) \in Seq(Requests)
        BY <3>1, HeadTailProperties DEF TypeOK
      <4>. QED
        BY <1>25, <3>1, <4>1 DEF WorkerPopInternal
    <3>2. CASE mQueueInternal = <<>>
      BY <1>25, <3>2 DEF WorkerPopInternal, TypeOK
    <3>. QED
      BY <3>1, <3>2
  <2>2. pc' \in [All -> Pcs]
    BY <1>25 DEF WorkerPopInternal, TypeOK, Pcs
  <2>. QED
    BY <1>25, <2>1, <2>2 DEF WorkerPopInternal, TypeOK
<1>26. CASE WorkerDestruct
  BY <1>26 DEF WorkerDestruct, TypeOK, Pcs
<1>27. CASE UNCHANGED vars
  BY <1>27 DEF vars, TypeOK, Pcs
<1>. QED
  BY <1>1, <1>2, <1>3, <1>4, <1>5, <1>6, <1>7, <1>8, <1>9, <1>10, <1>11, <1>12, <1>13, <1>14, <1>15, <1>16, <1>17, <1>18, <1>19, <1>20, <1>21, <1>22, <1>23, <1>24, <1>25, <1>26, <1>27 DEF Next, Locking, Submitting, WorkerStep

(* No step lets a thread act as the owner of mMutex, or appear to be it in         *)
(* requestChange, unless it is.                                                   *)
LEMMA LockStep == TypeOK /\ LockInv /\ [Next]_vars => LockInv'
<1>. SUFFICES ASSUME TypeOK, LockInv, [Next]_vars PROVE LockInv'
  OBVIOUS
<1>. USE QueueAssumption DEF All, Goto, lockVars, queueVars, workerVars, countVars
<1>1. ASSUME NEW t \in All, Lock(t) PROVE LockInv'
  BY <1>1 DEF Lock, Acquire, TypeOK, LockInv, HoldPcs, SubmitPcs, ReturnPcs
<1>2. ASSUME NEW t \in All, SetTid(t) PROVE LockInv'
  BY <1>2 DEF SetTid, TypeOK, LockInv, HoldPcs, SubmitPcs, ReturnPcs
<1>3. ASSUME NEW t \in All, ClearTid(t) PROVE LockInv'
  BY <1>3 DEF ClearTid, TypeOK, LockInv, HoldPcs, SubmitPcs, ReturnPcs
<1>4. ASSUME NEW t \in All, Unlock(t) PROVE LockInv'
  BY <1>4 DEF Unlock, TypeOK, LockInv, HoldPcs, SubmitPcs, ReturnPcs
<1>5. ASSUME NEW t \in All, UnlockEarly(t) PROVE LockInv'
  BY <1>5 DEF UnlockEarly, TypeOK, LockInv, HoldPcs, SubmitPcs, ReturnPcs
<1>6. ASSUME NEW t \in All, ClearLate(t) PROVE LockInv'
  BY <1>6 DEF ClearLate, TypeOK, LockInv, HoldPcs, SubmitPcs, ReturnPcs
<1>7. ASSUME NEW t \in All, Relock(t) PROVE LockInv'
  BY <1>7 DEF Relock, Acquire, TypeOK, LockInv, HoldPcs, SubmitPcs, ReturnPcs
<1>8. ASSUME NEW t \in All, SetTidAgain(t) PROVE LockInv'
  BY <1>8 DEF SetTidAgain, TypeOK, LockInv, HoldPcs, SubmitPcs, ReturnPcs
<1>9. ASSUME NEW t \in All, TryLock(t) PROVE LockInv'
  BY <1>9 DEF TryLock, Acquire, TypeOK, LockInv, HoldPcs, SubmitPcs, ReturnPcs
<1>10. ASSUME NEW t \in All, ExecuteOwn(t) PROVE LockInv'
  BY <1>10 DEF ExecuteOwn, TypeOK, LockInv, HoldPcs, SubmitPcs, ReturnPcs
<1>11. ASSUME NEW t \in All, CheckHolder(t) PROVE LockInv'
  BY <1>11 DEF CheckHolder, TypeOK, LockInv, HoldPcs, SubmitPcs, ReturnPcs
<1>12. ASSUME NEW t \in All, EmplaceInternal(t) PROVE LockInv'
  BY <1>12 DEF EmplaceInternal, TypeOK, LockInv, HoldPcs, SubmitPcs, ReturnPcs
<1>13. ASSUME NEW t \in All, Push(t) PROVE LockInv'
  BY <1>13 DEF Push, TypeOK, LockInv, HoldPcs, SubmitPcs, ReturnPcs
<1>14. ASSUME NEW t \in Threads, BeginPublish(t) PROVE LockInv'
  BY <1>14 DEF BeginPublish, EnterSection, TypeOK, LockInv, HoldPcs, SubmitPcs, ReturnPcs
<1>15. ASSUME NEW t \in Threads, EndPublish(t) PROVE LockInv'
  BY ZenonT(60), <1>15 DEF EndPublish, RequestChange, NewRequest, TypeOK, LockInv, HoldPcs, SubmitPcs, ReturnPcs
<1>16. ASSUME NEW t \in Threads, BeginSection(t) PROVE LockInv'
  BY <1>16 DEF BeginSection, EnterSection, TypeOK, LockInv, HoldPcs, SubmitPcs, ReturnPcs
<1>17. ASSUME NEW t \in Threads, EndSection(t) PROVE LockInv'
  BY <1>17 DEF EndSection, TypeOK, LockInv, HoldPcs, SubmitPcs, ReturnPcs
<1>18. ASSUME NEW t \in Threads, NEW mode \in Modes, Request(t, mode) PROVE LockInv'
  <2>1. RequestChange(t, mode, FALSE, "idle")
    BY <1>18 DEF Request
  <2>2. back' = [back EXCEPT ![t] = "idle"]
    BY <2>1, RequestChangeGoes
  <2>3. PICK l \in {"lock", "try", "check"} : pc' = [pc EXCEPT ![t] = l]
    BY <2>1, RequestChangeGoes
  <2>. QED
    BY <1>18, <2>2, <2>3 DEF Request, TypeOK, LockInv, HoldPcs, SubmitPcs, ReturnPcs
<1>19. ASSUME NEW t \in Threads, NEW mode \in {"ASYNC", "TRY_SYNC_THEN_ASYNC"},
           RequestInSection(t, mode)
    PROVE LockInv'
  BY SMTT(60), <1>19 DEF RequestInSection, RequestChange, NewRequest, TypeOK, LockInv, HoldPcs, SubmitPcs, ReturnPcs
<1>20. CASE RequestInWorker
  BY SMTT(60), <1>20 DEF RequestInWorker, RequestChange, NewRequest, TypeOK, LockInv, HoldPcs, SubmitPcs, ReturnPcs
<1>21. CASE WorkerPop
  BY <1>21 DEF WorkerPop, TypeOK, LockInv, HoldPcs, SubmitPcs, ReturnPcs
<1>22. CASE WorkerFinish
  BY <1>22 DEF WorkerFinish, TypeOK, LockInv, HoldPcs, SubmitPcs, ReturnPcs
<1>23. CASE WorkerLoopEnds
  BY <1>23 DEF WorkerLoopEnds, TypeOK, LockInv, HoldPcs, SubmitPcs, ReturnPcs
<1>24. CASE WorkerSendErrorsDone
  BY <1>24 DEF WorkerSendErrorsDone, TypeOK, LockInv, HoldPcs, SubmitPcs, ReturnPcs
<1>25. CASE WorkerPopInternal
  BY <1>25 DEF WorkerPopInternal, TypeOK, LockInv, HoldPcs, SubmitPcs, ReturnPcs
<1>26. CASE WorkerDestruct
  BY <1>26 DEF WorkerDestruct, TypeOK, LockInv, HoldPcs, SubmitPcs, ReturnPcs
<1>27. CASE UNCHANGED vars
  BY <1>27 DEF vars, TypeOK, LockInv, HoldPcs, SubmitPcs, ReturnPcs
<1>. QED
  BY <1>1, <1>2, <1>3, <1>4, <1>5, <1>6, <1>7, <1>8, <1>9, <1>10, <1>11, <1>12, <1>13, <1>14, <1>15, <1>16, <1>17, <1>18, <1>19, <1>20, <1>21, <1>22, <1>23, <1>24, <1>25, <1>26, <1>27 DEF Next, Locking, Submitting, WorkerStep

(* Nobody but the worker can add to mQueueInternal while the worker is past its   *)
(* last look at it.                                                               *)
LEMMA DrainStep == TypeOK /\ LockInv /\ DrainInv /\ [Next]_vars => DrainInv'
<1>. SUFFICES ASSUME TypeOK, LockInv, DrainInv, [Next]_vars PROVE DrainInv'
  OBVIOUS
<1>. USE QueueAssumption DEF All, Goto, lockVars, queueVars, workerVars, countVars
<1>1. ASSUME NEW t \in All, Lock(t) PROVE DrainInv'
  BY <1>1 DEF Lock, Acquire, TypeOK, LockInv, DrainInv, InternalDrained, HoldPcs
<1>2. ASSUME NEW t \in All, SetTid(t) PROVE DrainInv'
  BY <1>2 DEF SetTid, TypeOK, LockInv, DrainInv, InternalDrained, HoldPcs
<1>3. ASSUME NEW t \in All, ClearTid(t) PROVE DrainInv'
  BY <1>3 DEF ClearTid, TypeOK, LockInv, DrainInv, InternalDrained, HoldPcs
<1>4. ASSUME NEW t \in All, Unlock(t) PROVE DrainInv'
  BY <1>4 DEF Unlock, TypeOK, LockInv, DrainInv, InternalDrained, HoldPcs
<1>5. ASSUME NEW t \in All, UnlockEarly(t) PROVE DrainInv'
  BY <1>5 DEF UnlockEarly, TypeOK, LockInv, DrainInv, InternalDrained, HoldPcs
<1>6. ASSUME NEW t \in All, ClearLate(t) PROVE DrainInv'
  BY <1>6 DEF ClearLate, TypeOK, LockInv, DrainInv, InternalDrained, HoldPcs
<1>7. ASSUME NEW t \in All, Relock(t) PROVE DrainInv'
  BY <1>7 DEF Relock, Acquire, TypeOK, LockInv, DrainInv, InternalDrained, HoldPcs
<1>8. ASSUME NEW t \in All, SetTidAgain(t) PROVE DrainInv'
  BY <1>8 DEF SetTidAgain, TypeOK, LockInv, DrainInv, InternalDrained, HoldPcs
<1>9. ASSUME NEW t \in All, TryLock(t) PROVE DrainInv'
  BY <1>9 DEF TryLock, Acquire, TypeOK, LockInv, DrainInv, InternalDrained, HoldPcs
<1>10. ASSUME NEW t \in All, ExecuteOwn(t) PROVE DrainInv'
  BY <1>10 DEF ExecuteOwn, TypeOK, LockInv, DrainInv, InternalDrained, HoldPcs
<1>11. ASSUME NEW t \in All, CheckHolder(t) PROVE DrainInv'
  BY <1>11 DEF CheckHolder, TypeOK, LockInv, DrainInv, InternalDrained, HoldPcs
<1>12. ASSUME NEW t \in All, EmplaceInternal(t) PROVE DrainInv'
  BY <1>12 DEF EmplaceInternal, TypeOK, LockInv, DrainInv, InternalDrained, HoldPcs, ReturnPcs
<1>13. ASSUME NEW t \in All, Push(t) PROVE DrainInv'
  BY <1>13 DEF Push, TypeOK, LockInv, DrainInv, InternalDrained, HoldPcs, ReturnPcs
<1>14. ASSUME NEW t \in Threads, BeginPublish(t) PROVE DrainInv'
  BY <1>14 DEF BeginPublish, EnterSection, TypeOK, LockInv, DrainInv, InternalDrained, HoldPcs
<1>15. ASSUME NEW t \in Threads, EndPublish(t) PROVE DrainInv'
  BY <1>15 DEF EndPublish, RequestChange, NewRequest, TypeOK, LockInv, DrainInv, InternalDrained, HoldPcs
<1>16. ASSUME NEW t \in Threads, BeginSection(t) PROVE DrainInv'
  BY <1>16 DEF BeginSection, EnterSection, TypeOK, LockInv, DrainInv, InternalDrained, HoldPcs
<1>17. ASSUME NEW t \in Threads, EndSection(t) PROVE DrainInv'
  BY <1>17 DEF EndSection, TypeOK, LockInv, DrainInv, InternalDrained, HoldPcs
<1>18. ASSUME NEW t \in Threads, NEW mode \in Modes, Request(t, mode) PROVE DrainInv'
  BY <1>18 DEF Request, RequestChange, NewRequest, TypeOK, LockInv, DrainInv, InternalDrained, HoldPcs
<1>19. ASSUME NEW t \in Threads, NEW mode \in {"ASYNC", "TRY_SYNC_THEN_ASYNC"},
           RequestInSection(t, mode)
    PROVE DrainInv'
  BY <1>19 DEF RequestInSection, RequestChange, NewRequest, TypeOK, LockInv, DrainInv, InternalDrained, HoldPcs
<1>20. CASE RequestInWorker
  BY <1>20 DEF RequestInWorker, RequestChange, NewRequest, TypeOK, LockInv, DrainInv, InternalDrained, HoldPcs
<1>21. CASE WorkerPop
  BY <1>21 DEF WorkerPop, TypeOK, LockInv, DrainInv, InternalDrained, HoldPcs
<1>22. CASE WorkerFinish
  BY <1>22 DEF WorkerFinish, TypeOK, LockInv, DrainInv, InternalDrained, HoldPcs
<1>23. CASE WorkerLoopEnds
  BY <1>23 DEF WorkerLoopEnds, TypeOK, LockInv, DrainInv, InternalDrained, HoldPcs
<1>24. CASE WorkerSendErrorsDone
  BY <1>24 DEF WorkerSendErrorsDone, TypeOK, LockInv, DrainInv, InternalDrained, HoldPcs
<1>25. CASE WorkerPopInternal
  BY <1>25 DEF WorkerPopInternal, TypeOK, LockInv, DrainInv, InternalDrained, HoldPcs
<1>26. CASE WorkerDestruct
  BY <1>26 DEF WorkerDestruct, TypeOK, LockInv, DrainInv, InternalDrained, HoldPcs
<1>27. CASE UNCHANGED vars
  BY <1>27 DEF vars, TypeOK, LockInv, DrainInv, InternalDrained, HoldPcs
<1>. QED
  BY <1>1, <1>2, <1>3, <1>4, <1>5, <1>6, <1>7, <1>8, <1>9, <1>10, <1>11, <1>12, <1>13, <1>14, <1>15, <1>16, <1>17, <1>18, <1>19, <1>20, <1>21, <1>22, <1>23, <1>24, <1>25, <1>26, <1>27 DEF Next, Locking, Submitting, WorkerStep

(* The invariant holds in every reachable state. *)
THEOREM Invariance == Spec => []Inv
<1>1. Inv /\ [Next]_vars => Inv'
  BY TypeStep, LockStep, DrainStep DEF Inv
<1>. QED
  BY InitInv, <1>1, PTL DEF Spec

-----------------------------------------------------------------------------
(* The results *)

(* The variables keep their types, whatever the number of threads and requests.   *)
THEOREM TypeCorrect == Spec => []TypeOK
<1>1. Inv => TypeOK
  BY DEF Inv
<1>. QED
  BY Invariance, <1>1, PTL

(* requestChange and processInternalQueue touch mQueueInternal only in the thread *)
(* that owns mMutex, although requestChange decides by a thread id that is not    *)
(* written together with the lock.                                                *)
THEOREM InternalListProtected == Spec => []InternalExclusive
<1>1. Inv => InternalExclusive
  BY DEF Inv, LockInv, InternalExclusive, HoldPcs
<1>. QED
  BY Invariance, <1>1, PTL

(* The worker thread unlocks mMutex only after it has emptied mQueueInternal: no  *)
(* request of its own is left there for as long as nobody calls requestChange.    *)
THEOREM InternalListEmptied == Spec => []InternalDrained
<1>1. Inv => InternalDrained
  BY DEF Inv, DrainInv
<1>. QED
  BY Invariance, <1>1, PTL

-----------------------------------------------------------------------------
(* The executor *)

\* The places where a thread does not own mMutex
FreePcs == {"idle", "reading", "lock", "relock", "clearLate", "destruct"}
\* What the worker returns to with a request in hand
BusyPcs == {"executing", "executingInternal"}

(* Where a thread has a request in hand, and of which kind it can be there.  A    *)
(* counted request is in the hands of a thread that does not own mMutex, and its  *)
(* thread never takes the ways on which the request is executed at once or put    *)
(* into mQueueInternal.  The worker is always in one of its own places.           *)
PlaceInv ==
    /\ \A t \in All : pc[t] \in FreePcs => mMutex # t
    /\ \A t \in All : pc[t] \in SubmitPcs /\ back[t] = "idle" => mMutex # t
    /\ \A t \in All : pc[t] \in SubmitPcs \cup {"execute"} => pending[t] # NoRequest
    /\ \A t \in All : pending[t] # NoRequest
                        => pc[t] \in SubmitPcs \cup {"lock", "setTid", "execute"}
    /\ \A t \in All : pending[t] # NoRequest /\ Counted(pending[t])
                        => pc[t] \in {"check", "push", "internal"} /\ back[t] = "idle"
    /\ pc[Worker] \in {"lock", "setTid"} => pending[Worker] = NoRequest
    /\ pc[Worker] \in SubmitPcs => back[Worker] \in BusyPcs \cup {"sendErrors"}
    /\ pc[Worker] \notin {"execute", "clearTid", "unlock", "idle"}
    /\ executing # NoRequest <=>
         \/ pc[Worker] \in BusyPcs
         \/ pc[Worker] \in SubmitPcs /\ back[Worker] \in BusyPcs

\* Two requests cannot be told apart by those who made them
Same(q, r) == q.id = r.id /\ q.owner = r.owner

(* Every request outstanding has been issued; those in mQueueInternal are not     *)
(* counted, and the one in the hands of a thread is its own.                      *)
IssuedInv ==
    /\ \A i \in DOMAIN mQueue : mQueue[i].id \in 1..issued
    /\ \A i \in DOMAIN mQueueInternal :
          mQueueInternal[i].id \in 1..issued /\ ~Counted(mQueueInternal[i])
    /\ executing # NoRequest => executing.id \in 1..issued
    /\ \A t \in All : pending[t] # NoRequest => pending[t].id \in 1..issued /\ pending[t].owner = t

(* No request is both in mQueueInternal and elsewhere, or both in mQueue and      *)
(* being executed.                                                                *)
DistinctInv ==
    /\ \A i, j \in DOMAIN mQueueInternal :
          i # j => ~Same(mQueueInternal[i], mQueueInternal[j])
    /\ \A i \in DOMAIN mQueue, j \in DOMAIN mQueueInternal : ~Same(mQueue[i], mQueueInternal[j])
    /\ \A i \in DOMAIN mQueue : ~Same(mQueue[i], executing)
    /\ \A i \in DOMAIN mQueueInternal : ~Same(mQueueInternal[i], executing)

OnceInv == IssuedInv /\ DistinctInv

(* mQueue holds the requests of each thread in their order. *)
QueueOrder ==
    \A i, j \in DOMAIN mQueue :
        i < j /\ mQueue[i].owner = mQueue[j].owner => mQueue[i].id < mQueue[j].id

(* A counted request being executed is older than those its thread has in mQueue. *)
ExecutingOldest ==
    \A i \in DOMAIN mQueue :
        executing # NoRequest /\ Counted(executing) /\ mQueue[i].owner = executing.owner
            => executing.id < mQueue[i].id

(* The request a thread has in hand is its youngest. *)
PendingYoungest ==
    \A t \in All : pending[t] # NoRequest =>
        /\ \A i \in DOMAIN mQueue : mQueue[i].owner = t => mQueue[i].id < pending[t].id
        /\ \A i \in DOMAIN mQueueInternal :
              mQueueInternal[i].owner = t => mQueueInternal[i].id < pending[t].id
        /\ executing # NoRequest /\ executing.owner = t => executing.id < pending[t].id

OrderInv == QueueOrder /\ ExecutingOldest /\ PendingYoungest

CountedOutstanding == {r \in Outstanding : Counted(r)}

(* mRefCount is exactly the number of counted requests outstanding. *)
CountInv == IsFiniteSet(CountedOutstanding) /\ mRefCount = Cardinality(CountedOutstanding)

ExecutorInv == Inv /\ PlaceInv /\ OnceInv /\ OrderInv /\ CountInv

-----------------------------------------------------------------------------
(* Facts about the operators *)

(* The request that requestChange is called with is not the placeholder. *)
LEMMA NewRequestReal ==
    ASSUME TypeOK, NEW t, NEW mode, NEW nested
    PROVE  /\ NewRequest(t, mode, nested) # NoRequest
           /\ NewRequest(t, mode, nested).id = issued + 1
           /\ NewRequest(t, mode, nested).owner = t
           /\ Counted(NewRequest(t, mode, nested)) <=> mode = "ASYNC" /\ ~nested
BY DEF TypeOK, NewRequest, NoRequest, Counted

(* Taking the first element of a queue moves each of the others by one. *)
LEMMA PopMoves ==
    ASSUME NEW S, NEW q \in Seq(S), q # <<>>
    PROVE  /\ DOMAIN q = 1..Len(q) /\ 1 \in DOMAIN q /\ Head(q) = q[1]
           /\ DOMAIN Tail(q) = 1..(Len(q) - 1)
           /\ \A i \in DOMAIN Tail(q) : i + 1 \in DOMAIN q /\ Tail(q)[i] = q[i + 1]
           /\ \A i, j \in DOMAIN Tail(q) : i < j => i + 1 < j + 1
           /\ \A i, j \in DOMAIN Tail(q) : i # j => i + 1 # j + 1
           /\ \A i \in DOMAIN Tail(q) : 1 < i + 1
OBVIOUS

-----------------------------------------------------------------------------
(* The steps of the induction *)

(* The program starts with no request anywhere. *)
LEMMA InitPlaces == Init => PlaceInv /\ OnceInv /\ OrderInv
<1>. SUFFICES ASSUME Init PROVE PlaceInv /\ OnceInv /\ OrderInv
  OBVIOUS
<1>1. PlaceInv
  BY QueueAssumption DEF Init, PlaceInv, All, FreePcs, SubmitPcs, BusyPcs
<1>2. OnceInv /\ OrderInv
  BY DEF Init, OnceInv, IssuedInv, DistinctInv, OrderInv, QueueOrder, ExecutingOldest,
     PendingYoungest
<1>. QED
  BY <1>1, <1>2

(* requestChange takes its request in hand in a place where it may be. *)
LEMMA RequestPlaces ==
    ASSUME Inv, PlaceInv, NEW t \in All, NEW mode \in Modes, NEW nested \in BOOLEAN,
           NEW return \in ReturnPcs, RequestChange(t, mode, nested, return),
           mMutex' = mMutex, executing' = executing,
           nested \/ mMutex # t, return = "idle" <=> ~nested, mode = "SYNC" => ~nested,
           t = Worker => return = pc[t] /\ nested /\ return \in BusyPcs \cup {"sendErrors"}
    PROVE  PlaceInv'
<1>. USE DEF All, Inv
<1>1. PICK r : /\ pending' = [pending EXCEPT ![t] = r] /\ r # NoRequest
               /\ Counted(r) <=> mode = "ASYNC" /\ ~nested
  BY ZenonT(60), NewRequestReal DEF RequestChange
<1>2. back' = [back EXCEPT ![t] = return]
  BY RequestChangeGoes
<1>3. PICK l \in {"lock", "try", "check"} :
         /\ pc' = [pc EXCEPT ![t] = l]
         /\ l = "lock" => mode = "SYNC"
         /\ mode = "ASYNC" => l = "check"
  BY DEF RequestChange, Goto, Modes
<1>. QED
  BY <1>1, <1>2, <1>3, QueueAssumption
  DEF TypeOK, LockInv, PlaceInv, HoldPcs, SubmitPcs, FreePcs, BusyPcs, ReturnPcs

(* No step brings a request into the hands of a thread in the wrong place. *)
LEMMA PlaceStep == Inv /\ PlaceInv /\ OnceInv /\ [Next]_vars => PlaceInv'
<1>. SUFFICES ASSUME Inv, PlaceInv, OnceInv, [Next]_vars PROVE PlaceInv'
  OBVIOUS
<1>. USE QueueAssumption DEF All, Goto, lockVars, queueVars, workerVars, countVars, Inv
<1>1. ASSUME NEW t \in All, Lock(t) PROVE PlaceInv'
  BY <1>1 DEF Lock, Acquire, TypeOK, LockInv, PlaceInv, HoldPcs, SubmitPcs, FreePcs, BusyPcs
<1>2. ASSUME NEW t \in All, SetTid(t) PROVE PlaceInv'
  BY <1>2 DEF SetTid, TypeOK, LockInv, PlaceInv, HoldPcs, SubmitPcs, FreePcs, BusyPcs
<1>3. ASSUME NEW t \in All, ClearTid(t) PROVE PlaceInv'
  BY <1>3 DEF ClearTid, TypeOK, LockInv, PlaceInv, HoldPcs, SubmitPcs, FreePcs, BusyPcs
<1>4. ASSUME NEW t \in All, Unlock(t) PROVE PlaceInv'
  BY <1>4 DEF Unlock, TypeOK, LockInv, PlaceInv, HoldPcs, SubmitPcs, FreePcs, BusyPcs
<1>5. ASSUME NEW t \in All, UnlockEarly(t) PROVE PlaceInv'
  BY <1>5 DEF UnlockEarly, TypeOK, LockInv, PlaceInv, HoldPcs, SubmitPcs, FreePcs, BusyPcs
<1>6. ASSUME NEW t \in All, ClearLate(t) PROVE PlaceInv'
  BY <1>6 DEF ClearLate, TypeOK, LockInv, PlaceInv, HoldPcs, SubmitPcs, FreePcs, BusyPcs
<1>7. ASSUME NEW t \in All, Relock(t) PROVE PlaceInv'
  BY <1>7 DEF Relock, Acquire, TypeOK, LockInv, PlaceInv, HoldPcs, SubmitPcs, FreePcs, BusyPcs
<1>8. ASSUME NEW t \in All, SetTidAgain(t) PROVE PlaceInv'
  BY <1>8 DEF SetTidAgain, TypeOK, LockInv, PlaceInv, HoldPcs, SubmitPcs, FreePcs, BusyPcs
<1>9. ASSUME NEW t \in All, TryLock(t) PROVE PlaceInv'
  <2>1. CASE Acquire(t) /\ Goto(t, "setTid")
    <3>1. back[t] = "idle" /\ ~Counted(pending[t]) /\ t # Worker
      BY <1>9, <2>1 DEF TryLock, Acquire, LockInv, PlaceInv, SubmitPcs, BusyPcs
    <3>. QED
      BY <1>9, <2>1, <3>1 DEF TryLock, Acquire, TypeOK, LockInv, PlaceInv, HoldPcs, SubmitPcs, FreePcs, BusyPcs
  <2>2. CASE Goto(t, "check") /\ UNCHANGED lockVars
    BY <1>9, <2>2 DEF TryLock, TypeOK, LockInv, PlaceInv, HoldPcs, SubmitPcs, FreePcs, BusyPcs
  <2>. QED
    BY <1>9, <2>1, <2>2 DEF TryLock
<1>10. ASSUME NEW t \in All, ExecuteOwn(t) PROVE PlaceInv'
  BY <1>10 DEF ExecuteOwn, TypeOK, LockInv, PlaceInv, HoldPcs, SubmitPcs, FreePcs, BusyPcs
<1>11. ASSUME NEW t \in All, CheckHolder(t) PROVE PlaceInv'
  BY <1>11 DEF CheckHolder, TypeOK, LockInv, PlaceInv, HoldPcs, SubmitPcs, FreePcs, BusyPcs
<1>12. ASSUME NEW t \in All, EmplaceInternal(t) PROVE PlaceInv'
  <2>1. back[t] \in ReturnPcs /\ back[t] # "idle"
    BY <1>12 DEF EmplaceInternal, LockInv, PlaceInv, SubmitPcs
  <2>. QED
    BY <1>12, <2>1 DEF EmplaceInternal, ReturnPcs, TypeOK, LockInv, PlaceInv, HoldPcs, SubmitPcs, FreePcs, BusyPcs
<1>13. ASSUME NEW t \in All, Push(t) PROVE PlaceInv'
  <2>1. back[t] \in ReturnPcs /\ (back[t] = "idle" => mMutex # t /\ t # Worker)
    BY <1>13 DEF Push, LockInv, PlaceInv, SubmitPcs, BusyPcs
  <2>. QED
    BY <1>13, <2>1 DEF Push, ReturnPcs, TypeOK, LockInv, PlaceInv, HoldPcs, SubmitPcs, FreePcs, BusyPcs
<1>14. ASSUME NEW t \in Threads, BeginPublish(t) PROVE PlaceInv'
  BY <1>14 DEF BeginPublish, EnterSection, TypeOK, LockInv, PlaceInv, HoldPcs, SubmitPcs, FreePcs, BusyPcs
<1>15. ASSUME NEW t \in Threads, EndPublish(t) PROVE PlaceInv'
  <2>1. CASE RequestChange(t, "TRY_SYNC_THEN_ASYNC", FALSE, "idle")
    BY <1>15, <2>1, RequestPlaces DEF EndPublish, Modes, ReturnPcs, PlaceInv, FreePcs
  <2>2. CASE Goto(t, "idle") /\ UNCHANGED <<issued, pending, mRefCount, back>>
    BY <1>15, <2>2 DEF EndPublish, TypeOK, LockInv, PlaceInv, HoldPcs, SubmitPcs, FreePcs, BusyPcs
  <2>. QED
    BY <1>15, <2>1, <2>2 DEF EndPublish
<1>16. ASSUME NEW t \in Threads, BeginSection(t) PROVE PlaceInv'
  BY <1>16 DEF BeginSection, EnterSection, TypeOK, LockInv, PlaceInv, HoldPcs, SubmitPcs, FreePcs, BusyPcs
<1>17. ASSUME NEW t \in Threads, EndSection(t) PROVE PlaceInv'
  BY <1>17 DEF EndSection, TypeOK, LockInv, PlaceInv, HoldPcs, SubmitPcs, FreePcs, BusyPcs
<1>18. ASSUME NEW t \in Threads, NEW mode \in Modes, Request(t, mode) PROVE PlaceInv'
  BY <1>18, RequestPlaces DEF Request, ReturnPcs, PlaceInv, FreePcs
<1>19. ASSUME NEW t \in Threads, NEW mode \in {"ASYNC", "TRY_SYNC_THEN_ASYNC"},
           RequestInSection(t, mode)
    PROVE PlaceInv'
  BY <1>19, RequestPlaces DEF RequestInSection, Modes, ReturnPcs
<1>20. CASE RequestInWorker
  BY <1>20, RequestPlaces DEF RequestInWorker, Modes, ReturnPcs, BusyPcs
<1>21. CASE WorkerPop
  <2>1. Head(mQueue) # NoRequest
    BY <1>21 DEF WorkerPop, TypeOK, OnceInv, IssuedInv, NoRequest
  <2>. QED
    BY <1>21, <2>1 DEF WorkerPop, TypeOK, LockInv, PlaceInv, HoldPcs, SubmitPcs, FreePcs, BusyPcs
<1>22. CASE WorkerFinish
  BY <1>22 DEF WorkerFinish, TypeOK, LockInv, PlaceInv, HoldPcs, SubmitPcs, FreePcs, BusyPcs
<1>23. CASE WorkerLoopEnds
  BY <1>23 DEF WorkerLoopEnds, TypeOK, LockInv, PlaceInv, HoldPcs, SubmitPcs, FreePcs, BusyPcs
<1>24. CASE WorkerSendErrorsDone
  BY <1>24 DEF WorkerSendErrorsDone, TypeOK, LockInv, PlaceInv, HoldPcs, SubmitPcs, FreePcs, BusyPcs
<1>25. CASE WorkerPopInternal
  <2>1. CASE mQueueInternal # <<>>
    <3>1. Head(mQueueInternal) # NoRequest
      BY <2>1 DEF TypeOK, OnceInv, IssuedInv, NoRequest
    <3>. QED
      BY <1>25, <2>1, <3>1 DEF WorkerPopInternal, TypeOK, LockInv, PlaceInv, HoldPcs, SubmitPcs, FreePcs, BusyPcs
  <2>2. CASE mQueueInternal = <<>>
    BY <1>25, <2>2 DEF WorkerPopInternal, TypeOK, LockInv, PlaceInv, HoldPcs, SubmitPcs, FreePcs, BusyPcs
  <2>. QED
    BY <2>1, <2>2
<1>26. CASE WorkerDestruct
  BY <1>26 DEF WorkerDestruct, TypeOK, LockInv, PlaceInv, HoldPcs, SubmitPcs, FreePcs, BusyPcs
<1>27. CASE UNCHANGED vars
  BY <1>27 DEF vars, TypeOK, LockInv, PlaceInv, HoldPcs, SubmitPcs, FreePcs, BusyPcs
<1>. QED
  BY <1>1, <1>2, <1>3, <1>4, <1>5, <1>6, <1>7, <1>8, <1>9, <1>10, <1>11, <1>12, <1>13, <1>14, <1>15, <1>16, <1>17, <1>18, <1>19, <1>20, <1>21, <1>22, <1>23, <1>24, <1>25, <1>26, <1>27 DEF Next, Locking, Submitting, WorkerStep

(* requestChange issues a request with a number of its own, the highest so far. *)
LEMMA RequestOnce ==
    ASSUME Inv, OnceInv, OrderInv, NEW t \in All, NEW mode, NEW nested, NEW return,
           RequestChange(t, mode, nested, return), UNCHANGED <<queueVars, executing>>
    PROVE  OnceInv' /\ OrderInv'
<1>. USE DEF All, Inv, queueVars
<1>. DEFINE r == NewRequest(t, mode, nested)
<1>0. r.id = issued + 1 /\ r.owner = t
  BY NewRequestReal
<1>1. pending' = [pending EXCEPT ![t] = r]
  BY DEF RequestChange
<1>. HIDE DEF r
<1>2. issued \in Nat /\ issued' = issued + 1
  BY DEF RequestChange, TypeOK
<1>. USE DEF OnceInv, OrderInv
<1>3. OnceInv'
  BY SMTT(60), <1>0, <1>1, <1>2 DEF TypeOK, IssuedInv, DistinctInv
<1>4. QueueOrder' /\ ExecutingOldest'
  BY <1>0, <1>1, <1>2 DEF QueueOrder, ExecutingOldest
<1>5. PendingYoungest'
  BY <1>0, <1>1, <1>2 DEF TypeOK, IssuedInv, PendingYoungest
<1>. QED
  BY <1>3, <1>4, <1>5

(* A request that moves from the hands of its thread to the end of mQueue, or of  *)
(* mQueueInternal, and from the head of either to the worker, stays in one place  *)
(* and in its order.                                                              *)
LEMMA OnceStep == Inv /\ PlaceInv /\ OnceInv /\ OrderInv /\ [Next]_vars => OnceInv' /\ OrderInv'
<1>. SUFFICES ASSUME Inv, PlaceInv, OnceInv, OrderInv, [Next]_vars
              PROVE  OnceInv' /\ OrderInv'
  OBVIOUS
<1>. USE QueueAssumption
     DEF All, lockVars, queueVars, workerVars, countVars, Inv, OnceInv, OrderInv
<1>0. /\ NoRequest.id = 0 /\ executing.id \in Nat /\ issued \in Nat
      /\ pending \in [All -> Requests] /\ \A t \in All : pending[t].id \in Nat
  BY DEF TypeOK, NoRequest, Requests
<1>1. CASE UNCHANGED <<queueVars, pending, executing, issued>>
  BY <1>1 DEF IssuedInv, DistinctInv, QueueOrder, ExecutingOldest, PendingYoungest
<1>2. ASSUME NEW t \in All, ExecuteOwn(t) PROVE OnceInv' /\ OrderInv'
  <2>1. /\ pending' = [pending EXCEPT ![t] = NoRequest]
        /\ UNCHANGED <<mQueue, mQueueInternal, executing, issued>>
    BY <1>2 DEF ExecuteOwn
  <2>. QED
    BY <1>0, <2>1 DEF IssuedInv, DistinctInv, QueueOrder, ExecutingOldest, PendingYoungest
<1>3. ASSUME NEW t \in All, EmplaceInternal(t) PROVE OnceInv' /\ OrderInv'
  <2>1. pending[t] # NoRequest /\ ~Counted(pending[t])
    BY <1>3 DEF EmplaceInternal, LockInv, PlaceInv, SubmitPcs
  <2>2. /\ DOMAIN mQueueInternal' = 1..(Len(mQueueInternal) + 1)
        /\ \A i \in 1..Len(mQueueInternal) : mQueueInternal'[i] = mQueueInternal[i]
        /\ mQueueInternal'[Len(mQueueInternal) + 1] = pending[t]
        /\ DOMAIN mQueueInternal = 1..Len(mQueueInternal) /\ Len(mQueueInternal) \in Nat
    BY <1>3 DEF EmplaceInternal, TypeOK
  <2>3. /\ pending' = [pending EXCEPT ![t] = NoRequest]
        /\ UNCHANGED <<mQueue, executing, issued>>
    BY <1>3 DEF EmplaceInternal
  <2>5. IssuedInv'
    BY <1>0, <2>1, <2>2, <2>3 DEF IssuedInv
  <2>6. DistinctInv'
    BY SMTT(60), <1>0, <2>1, <2>2, <2>3 DEF IssuedInv, DistinctInv, PendingYoungest, QueueOrder, Same
  <2>7. QueueOrder'
    BY <1>0, <2>1, <2>2, <2>3 DEF IssuedInv, QueueOrder, PendingYoungest
  <2>8. ExecutingOldest'
    BY <1>0, <2>1, <2>2, <2>3 DEF IssuedInv, QueueOrder, ExecutingOldest, PendingYoungest
  <2>9. PendingYoungest'
    BY SMTT(60), <1>0, <2>1, <2>2, <2>3 DEF IssuedInv, PendingYoungest
  <2>. QED
    BY <2>5, <2>6, <2>7, <2>8, <2>9
<1>4. ASSUME NEW t \in All, Push(t) PROVE OnceInv' /\ OrderInv'
  <2>1. pending[t] # NoRequest
    BY <1>4 DEF Push, PlaceInv, SubmitPcs
  <2>2. /\ DOMAIN mQueue' = 1..(Len(mQueue) + 1)
        /\ \A i \in 1..Len(mQueue) : mQueue'[i] = mQueue[i]
        /\ mQueue'[Len(mQueue) + 1] = pending[t]
        /\ DOMAIN mQueue = 1..Len(mQueue) /\ Len(mQueue) \in Nat
    BY <1>4 DEF Push, TypeOK
  <2>3. /\ pending' = [pending EXCEPT ![t] = NoRequest]
        /\ UNCHANGED <<mQueueInternal, executing, issued>>
    BY <1>4 DEF Push
  <2>5. IssuedInv'
    BY <1>0, <2>1, <2>2, <2>3 DEF IssuedInv
  <2>6. DistinctInv'
    BY SMTT(60), <1>0, <2>1, <2>2, <2>3 DEF IssuedInv, DistinctInv, PendingYoungest, QueueOrder, Same
  <2>7. QueueOrder'
    BY SMTT(60), <1>0, <2>1, <2>2, <2>3 DEF IssuedInv, QueueOrder, PendingYoungest
  <2>8. ExecutingOldest'
    BY <1>0, <2>1, <2>2, <2>3 DEF IssuedInv, QueueOrder, ExecutingOldest, PendingYoungest
  <2>9. PendingYoungest'
    BY SMTT(60), <1>0, <2>1, <2>2, <2>3 DEF IssuedInv, PendingYoungest
  <2>. QED
    BY <2>5, <2>6, <2>7, <2>8, <2>9
<1>5. ASSUME NEW t \in Threads, EndPublish(t) PROVE OnceInv' /\ OrderInv'
  <2>1. CASE RequestChange(t, "TRY_SYNC_THEN_ASYNC", FALSE, "idle")
    BY <1>5, <2>1, RequestOnce DEF EndPublish
  <2>2. CASE UNCHANGED <<issued, pending, mRefCount, back>>
    BY <1>5, <1>1, <2>2 DEF EndPublish
  <2>. QED
    BY <1>5, <2>1, <2>2 DEF EndPublish
<1>6. ASSUME NEW t \in Threads, NEW mode \in Modes, Request(t, mode)
      PROVE  OnceInv' /\ OrderInv'
  BY <1>6, RequestOnce DEF Request
<1>7. ASSUME NEW t \in Threads, NEW mode \in {"ASYNC", "TRY_SYNC_THEN_ASYNC"},
             RequestInSection(t, mode)
      PROVE  OnceInv' /\ OrderInv'
  BY <1>7, RequestOnce DEF RequestInSection
<1>8. CASE RequestInWorker
  BY <1>8, RequestOnce DEF RequestInWorker
<1>9. CASE WorkerPop
  <2>1. /\ 1 \in DOMAIN mQueue /\ executing' = mQueue[1]
        /\ \A i \in DOMAIN mQueue' : i + 1 \in DOMAIN mQueue /\ mQueue'[i] = mQueue[i + 1]
        /\ \A i, j \in DOMAIN mQueue' : i < j => i + 1 < j + 1
        /\ \A i \in DOMAIN mQueue' : 1 < i + 1
    BY <1>9, PopMoves DEF WorkerPop, TypeOK
  <2>2. UNCHANGED <<mQueueInternal, pending, issued>> /\ executing = NoRequest
    BY <1>9 DEF WorkerPop, PlaceInv, SubmitPcs, BusyPcs
  <2>5. IssuedInv'
    BY <1>0, <2>1, <2>2 DEF IssuedInv
  <2>6. DistinctInv'
    BY <1>0, <2>1, <2>2 DEF IssuedInv, DistinctInv, PendingYoungest, QueueOrder, Same
  <2>7. QueueOrder'
    BY <1>0, <2>1, <2>2 DEF IssuedInv, QueueOrder, PendingYoungest
  <2>8. ExecutingOldest'
    BY <1>0, <2>1, <2>2 DEF IssuedInv, QueueOrder, ExecutingOldest, PendingYoungest
  <2>9. PendingYoungest'
    BY <1>0, <2>1, <2>2 DEF IssuedInv, PendingYoungest
  <2>. QED
    BY <2>5, <2>6, <2>7, <2>8, <2>9
<1>10. CASE WorkerFinish
  <2>1. executing' = NoRequest /\ UNCHANGED <<mQueue, mQueueInternal, pending, issued>>
    BY <1>10 DEF WorkerFinish
  <2>. QED
    BY <1>0, <2>1 DEF IssuedInv, DistinctInv, QueueOrder, ExecutingOldest, PendingYoungest, Same
<1>11. CASE WorkerPopInternal
  <2>1. CASE mQueueInternal # <<>>
    <3>0. executing' = Head(mQueueInternal) /\ mQueueInternal' = Tail(mQueueInternal)
      BY <1>11, <2>1 DEF WorkerPopInternal
    <3>1. /\ 1 \in DOMAIN mQueueInternal /\ executing' = mQueueInternal[1]
          /\ \A i \in DOMAIN mQueueInternal' :
                i + 1 \in DOMAIN mQueueInternal /\ mQueueInternal'[i] = mQueueInternal[i + 1]
          /\ \A i, j \in DOMAIN mQueueInternal' : i # j => i + 1 # j + 1
          /\ \A i \in DOMAIN mQueueInternal' : 1 < i + 1
      BY <2>1, <3>0, PopMoves DEF TypeOK
    <3>2. UNCHANGED <<mQueue, pending, issued>>
      BY <1>11 DEF WorkerPopInternal
    <3>5. IssuedInv'
      BY <1>0, <3>1, <3>2 DEF IssuedInv
    <3>6. DistinctInv'
      BY <1>0, <3>1, <3>2 DEF IssuedInv, DistinctInv, PendingYoungest, QueueOrder, Same
    <3>7. QueueOrder'
      BY <1>0, <3>1, <3>2 DEF IssuedInv, QueueOrder, PendingYoungest
    <3>8. ExecutingOldest'
      BY <1>0, <3>1, <3>2 DEF IssuedInv, QueueOrder, ExecutingOldest, PendingYoungest
    <3>9. PendingYoungest'
      BY <1>0, <3>1, <3>2 DEF IssuedInv, PendingYoungest
    <3>. QED
      BY <3>5, <3>6, <3>7, <3>8, <3>9
  <2>2. CASE mQueueInternal = <<>>
    BY <1>11, <1>1, <2>2 DEF WorkerPopInternal
  <2>. QED
    BY <2>1, <2>2
<1>12. \/ UNCHANGED <<queueVars, pending, executing, issued>>
       \/ \E t \in All : ExecuteOwn(t) \/ EmplaceInternal(t) \/ Push(t)
       \/ \E t \in Threads :
             \/ EndPublish(t)
             \/ \E mode \in Modes : Request(t, mode)
             \/ \E mode \in {"ASYNC", "TRY_SYNC_THEN_ASYNC"} : RequestInSection(t, mode)
       \/ RequestInWorker \/ WorkerPop \/ WorkerFinish \/ WorkerPopInternal
  BY ZenonT(60) DEF Next, Locking, Submitting, WorkerStep, vars, Lock, SetTid, ClearTid, Unlock, UnlockEarly,
     ClearLate, Relock, SetTidAgain, TryLock, CheckHolder, BeginPublish, BeginSection,
     EndSection, WorkerLoopEnds, WorkerSendErrorsDone, WorkerDestruct
<1>. QED
  BY <1>1, <1>2, <1>3, <1>4, <1>5, <1>6, <1>7, <1>8, <1>9, <1>10, <1>11, <1>12

-----------------------------------------------------------------------------
(* What a step does to the requests outstanding *)

Keeps == UNCHANGED <<Outstanding, executed, issued, mRefCount>>

Issues(r) ==
    /\ r.id = issued + 1 /\ r.owner \in All /\ r \notin Outstanding
    /\ Outstanding' = Outstanding \cup {r}
    /\ issued' = issued + 1
    /\ mRefCount' = IF Counted(r) THEN mRefCount + 1 ELSE mRefCount
    /\ UNCHANGED executed

Executes(r) ==
    /\ r \in Outstanding
    /\ \A q \in Outstanding : Same(q, r) => q = r
    /\ \A q \in Outstanding :
          Counted(r) /\ Counted(q) /\ q.owner = r.owner => r.id <= q.id
    /\ Outstanding' = Outstanding \ {r}
    /\ executed' = Append(executed, r)
    /\ mRefCount' = IF Counted(r) THEN mRefCount - 1 ELSE mRefCount
    /\ UNCHANGED issued

(* The elements of a queue that has been appended to, or popped from. *)
LEMMA ElementsMove ==
    ASSUME NEW S, NEW q \in Seq(S)
    PROVE  /\ \A r \in S : Elements(Append(q, r)) = Elements(q) \cup {r}
           /\ q # <<>> => Elements(q) = Elements(Tail(q)) \cup {Head(q)}
<1>1. ASSUME NEW r \in S PROVE Elements(Append(q, r)) = Elements(q) \cup {r}
  <2>1. /\ DOMAIN Append(q, r) = DOMAIN q \cup {Len(q) + 1}
        /\ \A i \in DOMAIN q : Append(q, r)[i] = q[i]
        /\ Append(q, r)[Len(q) + 1] = r
    BY <1>1
  <2>. QED
    BY <2>1 DEF Elements
<1>2. ASSUME q # <<>> PROVE Elements(q) = Elements(Tail(q)) \cup {Head(q)}
  <2>1. ASSUME NEW i \in DOMAIN q, i # 1 PROVE q[i] \in Elements(Tail(q))
    <3>1. i - 1 \in DOMAIN Tail(q) /\ (i - 1) + 1 = i
      BY <1>2, <2>1
    <3>2. Tail(q)[i - 1] = q[(i - 1) + 1]
      BY <1>2, <3>1, PopMoves
    <3>. QED
      BY <3>1, <3>2 DEF Elements
  <2>2. Elements(q) \subseteq Elements(Tail(q)) \cup {Head(q)}
    BY <1>2, <2>1, PopMoves DEF Elements
  <2>3. Elements(Tail(q)) \cup {Head(q)} \subseteq Elements(q)
    BY <1>2, PopMoves DEF Elements
  <2>. QED
    BY <2>2, <2>3
<1>. QED
  BY <1>1, <1>2

(* A thread that gives its request away leaves the others in their hands. *)
LEMMA SubmittedGiven ==
    ASSUME TypeOK, IssuedInv, NEW t \in All, pending[t] # NoRequest,
           pending' = [pending EXCEPT ![t] = NoRequest]
    PROVE  pending[t] \in Submitted /\ Submitted' = Submitted \ {pending[t]}
<1>1. \A u \in All : u # t /\ pending[u] # NoRequest => pending[u] # pending[t]
  BY DEF IssuedInv
<1>2. \A u \in All : pending'[u] = IF u = t THEN NoRequest ELSE pending[u]
  BY DEF TypeOK
<1>. QED
  BY <1>1, <1>2 DEF Submitted

(* requestChange makes one request more outstanding. *)
LEMMA RequestIssues ==
    ASSUME Inv, OnceInv, NEW t \in All, pending[t] = NoRequest, NEW mode \in Modes,
           NEW nested \in BOOLEAN, NEW return, RequestChange(t, mode, nested, return),
           UNCHANGED <<mQueue, mQueueInternal, executing, executed>>
    PROVE  \E r \in Requests : Issues(r)
<1>. DEFINE r == NewRequest(t, mode, nested)
<1>1. r \in Requests /\ r # NoRequest /\ r.id = issued + 1 /\ r.owner = t
  BY NewRequestReal, NewRequestType DEF Inv
<1>2. /\ pending' = [pending EXCEPT ![t] = r] /\ issued' = issued + 1
      /\ mRefCount' = IF Counted(r) THEN mRefCount + 1 ELSE mRefCount
  BY DEF RequestChange
<1>. HIDE DEF r
<1>3. Submitted' = Submitted \cup {r}
  <2>1. \A u \in All : pending'[u] = IF u = t THEN r ELSE pending[u]
    BY <1>2 DEF Inv, TypeOK
  <2>. QED
    BY <1>1, <2>1 DEF Submitted
<1>4. Outstanding' = Outstanding \cup {r}
  BY <1>3 DEF Outstanding
<1>5. r \notin Outstanding
  <2>1. issued + 1 \notin 1..issued
    BY DEF Inv, TypeOK
  <2>. QED
    BY <1>1, <2>1 DEF Outstanding, Elements, Submitted, OnceInv, IssuedInv
<1>. QED
  BY <1>1, <1>2, <1>4, <1>5 DEF Issues

(* Every step leaves the requests outstanding as they are, issues one or executes *)
(* one that no older ordered request of the same thread is waiting before.        *)
LEMMA StepKinds ==
    ASSUME Inv, PlaceInv, OnceInv, OrderInv, [Next]_vars
    PROVE  Keeps \/ (\E r \in Requests : Issues(r)) \/ (\E r \in Requests : Executes(r))
<1>. DEFINE Goal == Keeps \/ (\E r \in Requests : Issues(r)) \/ (\E r \in Requests : Executes(r))
<1>. SUFFICES Goal
  OBVIOUS
<1>. USE QueueAssumption DEF lockVars, queueVars, workerVars, countVars, Inv, OnceInv, OrderInv
<1>0. All = Threads \cup {Worker}
  BY DEF All
<1>1. CASE UNCHANGED <<queueVars, pending, executing, issued, executed, mRefCount>>
  BY <1>1 DEF Keeps, Outstanding, Submitted
<1>2. ASSUME NEW t \in All, ExecuteOwn(t) PROVE Goal
  <2>. DEFINE r == pending[t]
  <2>1. r # NoRequest /\ ~Counted(r) /\ r \in Requests
    BY <1>2 DEF ExecuteOwn, PlaceInv, SubmitPcs, TypeOK
  <2>2. r \in Submitted /\ Submitted' = Submitted \ {r}
    BY <1>2, <2>1, SubmittedGiven DEF ExecuteOwn
  <2>3. \A i \in DOMAIN mQueue : ~Same(mQueue[i], r)
    BY <2>1 DEF IssuedInv, PendingYoungest, Same
  <2>4. \A i \in DOMAIN mQueueInternal : ~Same(mQueueInternal[i], r)
    BY <2>1 DEF IssuedInv, PendingYoungest, Same
  <2>5. executing # NoRequest => ~Same(executing, r)
    BY <2>1 DEF IssuedInv, PendingYoungest, Same
  <2>6. \A q \in Outstanding : Same(q, r) => q = r
    BY <2>1, <2>3, <2>4, <2>5 DEF Outstanding, Elements, Submitted, IssuedInv, Same
  <2>7. Outstanding' = Outstanding \ {r}
    <3>1. r \notin Elements(mQueue) \cup Elements(mQueueInternal) \cup ({executing} \ {NoRequest})
      BY <2>3, <2>4, <2>5 DEF Elements, Same
    <3>. QED
      BY <1>2, <2>2, <3>1 DEF ExecuteOwn, Outstanding
  <2>8. Executes(r)
    BY <1>2, <2>1, <2>2, <2>6, <2>7 DEF Executes, ExecuteOwn, Outstanding
  <2>. QED
    BY <2>1, <2>8
<1>3. ASSUME NEW t \in All, EmplaceInternal(t) PROVE Goal
  <2>1. pending[t] # NoRequest /\ pending[t] \in Requests
    BY <1>3 DEF EmplaceInternal, PlaceInv, SubmitPcs, TypeOK
  <2>2. pending[t] \in Submitted /\ Submitted' = Submitted \ {pending[t]}
    BY <1>3, <2>1, SubmittedGiven DEF EmplaceInternal
  <2>3. Elements(mQueueInternal)' = Elements(mQueueInternal) \cup {pending[t]}
    BY <1>3, <2>1, ElementsMove DEF EmplaceInternal, TypeOK
  <2>4. Outstanding' = Outstanding
    BY <1>3, <2>2, <2>3 DEF EmplaceInternal, Outstanding
  <2>. QED
    BY <1>3, <2>4 DEF EmplaceInternal, Keeps
<1>4. ASSUME NEW t \in All, Push(t) PROVE Goal
  <2>1. pending[t] # NoRequest /\ pending[t] \in Requests
    BY <1>4 DEF Push, PlaceInv, SubmitPcs, TypeOK
  <2>2. pending[t] \in Submitted /\ Submitted' = Submitted \ {pending[t]}
    BY <1>4, <2>1, SubmittedGiven DEF Push
  <2>3. Elements(mQueue)' = Elements(mQueue) \cup {pending[t]}
    BY <1>4, <2>1, ElementsMove DEF Push, TypeOK
  <2>4. Outstanding' = Outstanding
    BY <1>4, <2>2, <2>3 DEF Push, Outstanding
  <2>. QED
    BY <1>4, <2>4 DEF Push, Keeps
<1>5. ASSUME NEW t \in Threads, EndPublish(t) PROVE Goal
  <2>1. CASE RequestChange(t, "TRY_SYNC_THEN_ASYNC", FALSE, "idle")
    <3>1. pending[t] = NoRequest
      BY <1>0, <1>5 DEF EndPublish, PlaceInv, SubmitPcs
    <3>. QED
      BY <1>0, <1>5, <2>1, <3>1, RequestIssues DEF EndPublish, Modes
  <2>2. CASE UNCHANGED <<issued, pending, mRefCount, back>>
    BY <1>5, <1>1, <2>2 DEF EndPublish
  <2>. QED
    BY <1>5, <2>1, <2>2 DEF EndPublish
<1>6. ASSUME NEW t \in Threads, NEW mode \in Modes, Request(t, mode) PROVE Goal
  <2>1. pending[t] = NoRequest
    BY <1>0, <1>6 DEF Request, PlaceInv, SubmitPcs
  <2>. QED
    BY <1>0, <1>6, <2>1, RequestIssues DEF Request
<1>7. ASSUME NEW t \in Threads, NEW mode \in {"ASYNC", "TRY_SYNC_THEN_ASYNC"},
             RequestInSection(t, mode)
      PROVE  Goal
  <2>1. pending[t] = NoRequest
    BY <1>0, <1>7 DEF RequestInSection, PlaceInv, SubmitPcs
  <2>. QED
    BY <1>0, <1>7, <2>1, RequestIssues DEF RequestInSection, Modes
<1>8. CASE RequestInWorker
  <2>1. pending[Worker] = NoRequest
    BY <1>0, <1>8 DEF RequestInWorker, PlaceInv, SubmitPcs
  <2>. QED
    BY <1>0, <1>8, <2>1, RequestIssues DEF RequestInWorker, Modes
<1>9. CASE WorkerPop
  <2>1. Elements(mQueue) = Elements(mQueue)' \cup {executing'}
    BY <1>9, ElementsMove DEF WorkerPop, TypeOK
  <2>2. executing' # NoRequest /\ executing = NoRequest
    BY <1>9 DEF WorkerPop, TypeOK, IssuedInv, NoRequest, PlaceInv, SubmitPcs, BusyPcs
  <2>3. Outstanding' = Outstanding
    BY <1>9, <2>1, <2>2 DEF WorkerPop, Outstanding, Submitted
  <2>. QED
    BY <1>9, <2>3 DEF WorkerPop, Keeps
<1>10. CASE WorkerFinish
  <2>. DEFINE r == executing
  <2>1. r # NoRequest /\ r \in Requests
    BY <1>10 DEF WorkerFinish, PlaceInv, BusyPcs, TypeOK
  <2>2. \A i \in DOMAIN mQueue : ~Same(mQueue[i], r)
    BY DEF DistinctInv
  <2>3. \A i \in DOMAIN mQueueInternal : ~Same(mQueueInternal[i], r)
    BY DEF DistinctInv
  <2>4. \A t \in All : pending[t] # NoRequest => ~Same(pending[t], r)
    BY <2>1 DEF IssuedInv, PendingYoungest, Same
  <2>5. r \notin Elements(mQueue) \cup Elements(mQueueInternal) \cup Submitted
    BY <2>2, <2>3, <2>4 DEF Elements, Submitted, Same
  <2>6. Outstanding' = Outstanding \ {r} /\ r \in Outstanding
    BY <1>10, <2>1, <2>5 DEF WorkerFinish, Outstanding, Submitted
  <2>7. \A q \in Outstanding : Same(q, r) => q = r
    BY <2>2, <2>3, <2>4 DEF Outstanding, Elements, Submitted
  <2>8. ASSUME NEW q \in Outstanding, Counted(r), Counted(q), q.owner = r.owner
        PROVE  r.id <= q.id
    <3>1. r.id \in Nat
      BY <2>1 DEF Requests
    <3>2. CASE \E i \in DOMAIN mQueue : q = mQueue[i]
      BY <2>1, <2>8, <3>1, <3>2 DEF ExecutingOldest, IssuedInv
    <3>3. CASE \E t \in All : q = pending[t] /\ pending[t] # NoRequest
      BY <2>1, <2>8, <3>1, <3>3 DEF PendingYoungest, IssuedInv
    <3>4. CASE q = executing
      BY <3>1, <3>4
    <3>. QED
      BY <2>8, <3>2, <3>3, <3>4 DEF Outstanding, Elements, Submitted, IssuedInv
  <2>9. Executes(r)
    BY <1>10, <2>6, <2>7, <2>8 DEF Executes, WorkerFinish
  <2>. QED
    BY <2>1, <2>9
<1>11. CASE WorkerPopInternal
  <2>1. CASE mQueueInternal # <<>>
    <3>1. executing' = Head(mQueueInternal) /\ mQueueInternal' = Tail(mQueueInternal)
      BY <1>11, <2>1 DEF WorkerPopInternal
    <3>2. Elements(mQueueInternal) = Elements(mQueueInternal)' \cup {executing'}
      BY <2>1, <3>1, ElementsMove DEF TypeOK
    <3>3. executing' # NoRequest /\ executing = NoRequest
      BY <1>11, <2>1, <3>1
      DEF WorkerPopInternal, TypeOK, IssuedInv, NoRequest, PlaceInv, SubmitPcs, BusyPcs
    <3>4. Outstanding' = Outstanding
      BY <1>11, <3>2, <3>3 DEF WorkerPopInternal, Outstanding, Submitted
    <3>. QED
      BY <1>11, <3>4 DEF WorkerPopInternal, Keeps
  <2>2. CASE mQueueInternal = <<>>
    BY <1>11, <1>1, <2>2 DEF WorkerPopInternal
  <2>. QED
    BY <2>1, <2>2
<1>12. \/ UNCHANGED <<queueVars, pending, executing, issued, executed, mRefCount>>
       \/ \E t \in All : ExecuteOwn(t) \/ EmplaceInternal(t) \/ Push(t)
       \/ \E t \in Threads :
             \/ EndPublish(t)
             \/ \E mode \in Modes : Request(t, mode)
             \/ \E mode \in {"ASYNC", "TRY_SYNC_THEN_ASYNC"} : RequestInSection(t, mode)
       \/ RequestInWorker \/ WorkerPop \/ WorkerFinish \/ WorkerPopInternal
  BY ZenonT(60) DEF Next, Locking, Submitting, WorkerStep, vars, Lock, SetTid, ClearTid, Unlock,
     UnlockEarly, ClearLate, Relock, SetTidAgain, TryLock, CheckHolder, BeginPublish,
     BeginSection, EndSection, WorkerLoopEnds, WorkerSendErrorsDone, WorkerDestruct
<1>. QED
  BY <1>1, <1>2, <1>3, <1>4, <1>5, <1>6, <1>7, <1>8, <1>9, <1>10, <1>11, <1>12

(* The reference count follows the counted requests through every step. *)
LEMMA CountStep ==
    ASSUME Inv, PlaceInv, OnceInv, OrderInv, CountInv, [Next]_vars
    PROVE  CountInv'
<1>. USE DEF CountInv
<1>1. CASE Keeps
  BY <1>1 DEF Keeps, CountedOutstanding
<1>2. ASSUME NEW r \in Requests, Issues(r) PROVE CountInv'
  <2>1. CASE Counted(r)
    <3>1. CountedOutstanding' = CountedOutstanding \cup {r} /\ r \notin CountedOutstanding
      BY <1>2, <2>1 DEF Issues, CountedOutstanding
    <3>. QED
      BY <1>2, <2>1, <3>1, FS_AddElement DEF Issues
  <2>2. CASE ~Counted(r)
    <3>1. CountedOutstanding' = CountedOutstanding
      BY <1>2, <2>2 DEF Issues, CountedOutstanding
    <3>. QED
      BY <1>2, <2>2, <3>1 DEF Issues
  <2>. QED
    BY <2>1, <2>2
<1>3. ASSUME NEW r \in Requests, Executes(r) PROVE CountInv'
  <2>1. CASE Counted(r)
    <3>1. CountedOutstanding' = CountedOutstanding \ {r} /\ r \in CountedOutstanding
      BY <1>3, <2>1 DEF Executes, CountedOutstanding
    <3>. QED
      BY <1>3, <2>1, <3>1, FS_RemoveElement DEF Executes
  <2>2. CASE ~Counted(r)
    <3>1. CountedOutstanding' = CountedOutstanding
      BY <1>3, <2>2 DEF Executes, CountedOutstanding
    <3>. QED
      BY <1>3, <2>2, <3>1 DEF Executes
  <2>. QED
    BY <2>1, <2>2
<1>. QED
  BY <1>1, <1>2, <1>3, StepKinds

(* At the start nothing is outstanding. *)
LEMMA InitOutstanding == Init => Outstanding = {} /\ CountInv
<1>. SUFFICES ASSUME Init PROVE Outstanding = {} /\ CountInv
  OBVIOUS
<1>1. Outstanding = {}
  <2>1. DOMAIN mQueue = {} /\ DOMAIN mQueueInternal = {}
    BY DEF Init
  <2>2. \A t \in All : pending[t] = NoRequest
    BY DEF Init
  <2>. QED
    BY <2>1, <2>2 DEF Init, Outstanding, Elements, Submitted
<1>2. CountInv
  BY <1>1, FS_EmptySet DEF Init, CountInv, CountedOutstanding
<1>. QED
  BY <1>1, <1>2

(* Where the requests are, their order and their number, in every reachable state. *)
THEOREM ExecutorInvariance == Spec => []ExecutorInv
<1>1. Init => ExecutorInv
  BY InitInv, InitPlaces, InitOutstanding DEF ExecutorInv
<1>2. ExecutorInv /\ [Next]_vars => ExecutorInv'
  BY TypeStep, LockStep, DrainStep, PlaceStep, OnceStep, CountStep DEF ExecutorInv, Inv
<1>. QED
  BY <1>1, <1>2, PTL DEF Spec

-----------------------------------------------------------------------------
(* The results *)

(* mRefCount, which requestChange takes and executeChangeRequest gives back in      *)
(* different threads, is zero only when no counted request is outstanding: cleanup *)
(* deletes no subscriber that a queued request still names.                        *)
THEOREM RefCountSound == Spec => []RefCountCovers
<1>1. ExecutorInv => RefCountCovers
  BY FS_EmptySet DEF ExecutorInv, CountInv, CountedOutstanding, RefCountCovers
<1>. QED
  BY <1>1, ExecutorInvariance, PTL

(* A sequence of requests is seen element by element. *)
LEMMA SeenAppend ==
    ASSUME NEW e \in Seq(Requests), NEW r \in Requests
    PROVE  [i \in DOMAIN Append(e, r) |-> Seen(Append(e, r)[i])]
             = Append([i \in DOMAIN e |-> Seen(e[i])], Seen(r))
<1>. DEFINE S(x) == Seen(x)
            f == [i \in DOMAIN e |-> S(e[i])]
            T == {S(x) : x \in Requests}
<1>. SUFFICES [i \in DOMAIN Append(e, r) |-> S(Append(e, r)[i])] = Append(f, S(r))
  OBVIOUS
<1>. HIDE DEF S
<1>1. f \in Seq(T) /\ Len(f) = Len(e) /\ S(r) \in T
  OBVIOUS
<1>. QED
  BY <1>1

(* Every step of the threads and the worker is one of the executor's, or none: the *)
(* step that issues or executes a request, seen from outside.                      *)
LEMMA StepRefines == ExecutorInv /\ [Next]_vars => [Promise!Next]_(Promise!vars)
<1>. SUFFICES ASSUME ExecutorInv, [Next]_vars PROVE [Promise!Next]_(Promise!vars)
  OBVIOUS
<1>. DEFINE out == {Seen(r) : r \in Outstanding}
            ex == [i \in DOMAIN executed |-> Seen(executed[i])]
<1>1. CASE Keeps
  BY <1>1 DEF Keeps, Promise!vars
<1>2. ASSUME NEW r \in Requests, Issues(r) PROVE Promise!Next
  <2>1. Seen(r) = [id |-> issued + 1, owner |-> r.owner, ordered |-> Counted(r)]
    BY <1>2 DEF Issues, Seen
  <2>2. out' = out \cup {Seen(r)}
    BY <1>2 DEF Issues
  <2>3. ex' = ex /\ issued' = issued + 1 /\ r.owner \in All /\ Counted(r) \in BOOLEAN
    BY <1>2 DEF Issues, Counted
  <2>4. Promise!Issue(r.owner, Counted(r))
    BY <2>1, <2>2, <2>3 DEF Promise!Issue
  <2>. QED
    BY <2>3, <2>4 DEF Promise!Next
<1>3. ASSUME NEW r \in Requests, Executes(r) PROVE Promise!Next
  <2>1. Seen(r) \in out
    BY <1>3 DEF Executes
  <2>2. \A q \in out : Seen(r).ordered /\ q.ordered /\ q.owner = Seen(r).owner => Seen(r).id <= q.id
    BY <1>3 DEF Executes, Seen
  <2>3. out' = out \ {Seen(r)}
    <3>1. \A q \in Outstanding : Seen(q) = Seen(r) => q = r
      BY <1>3 DEF Executes, Seen, Same
    <3>. QED
      BY <1>3, <3>1 DEF Executes
  <2>4. ex' = Append(ex, Seen(r)) /\ issued' = issued
    <3>1. executed \in Seq(Requests) /\ executed' = Append(executed, r) /\ issued' = issued
      BY <1>3 DEF Executes, ExecutorInv, Inv, TypeOK
    <3>. QED
      BY <3>1, SeenAppend
  <2>5. Promise!Execute(Seen(r))
    BY <2>2, <2>3, <2>4 DEF Promise!Execute
  <2>. QED
    BY <2>1, <2>5 DEF Promise!Next
<1>. QED
  BY <1>1, <1>2, <1>3, StepKinds DEF ExecutorInv

(* requestChange keeps its promise for any number of threads and requests and any  *)
(* capacity of mQueue: no request is dropped or executed twice, and an ASYNC       *)
(* request is never executed before an older one of its thread, by whichever of    *)
(* the two queues and three modes they go.                                         *)
THEOREM ExecutorImplemented == Spec => ImplementsExecutor
<1>1. Init => Promise!Init
  <2>1. Init => Outstanding = {}
    BY InitOutstanding
  <2>2. Init => executed = <<>> /\ issued = 0
    BY DEF Init
  <2>. QED
    BY <2>1, <2>2 DEF Promise!Init
<1>. QED
  BY <1>1, ExecutorInvariance, StepRefines, PTL DEF Spec, ImplementsExecutor, Promise!Spec
=============================================================================
