----------------------------- MODULE WebUIProofs -----------------------------
(***************************************************************************)
(* Proofs about WebUI and ScriptStore, for any scripts, callers and        *)
(* bounds: the database and the containers agree once the requests are     *)
(* executed, and the page has the one interval it knows of.                *)
(***************************************************************************)
EXTENDS WebUI, SequenceTheorems, FiniteSetTheorems, TLAPS

(* A script whose addition is queued has a row that is active, and its deletion is *)
(* not queued; provided no request was made while another one was queued.          *)
PendingInv ==
    \A n \in Names : ~mixed[n] /\ (\E i \in DOMAIN mQueueInternal : mQueueInternal[i].name = n) =>
        db[n] = "active" /\ \A i \in DOMAIN mQueue : mQueue[i] # n

(* Whoever is to be answered by an addition waits for it, and for no other one.    *)
PutInv ==
    \A i \in DOMAIN mQueueInternal : mQueueInternal[i].put # Nobody =>
        /\ calls[mQueueInternal[i].put].st = "queued"
        /\ \A j \in DOMAIN mQueueInternal : mQueueInternal[j].put = mQueueInternal[i].put => i = j

(* Calls that act on a script have its name, and an answered update has a list; an *)
(* update never waits for the worker.                                              *)
CallInv ==
    \A c \in Callers :
        /\ calls[c].fn \in Functions \ Updates => calls[c].name \in Names
        /\ calls[c].fn \in Updates => /\ calls[c].st # "queued"
                                      /\ calls[c].st = "ok" => calls[c].view \in Views

\* The calls that set an interval when they are answered
Setting == {"onMount", "refresh"}
Setters == {c \in Callers : calls[c].fn \in Setting}

(* Each of them was started by onMount or a change of the rate.                    *)
TimerInv == IsFiniteSet(Setters) /\ lastTimer + Cardinality(Setters) <= rates + 1

(* As long as no such call was overtaken there is at most one, and while it waits  *)
(* the page is shown and has no interval.                                          *)
IntervalInv ==
    /\ mounted /\ initDone /\ ~refreshLost /\ ~Awaiting({"refresh"})
         => refreshIntervalTimeoutId \in timers
    /\ ~overlapped =>
         /\ timers \subseteq {refreshIntervalTimeoutId}
         /\ ~mounted => timers = {}
         /\ \A c, d \in Setters : c = d
         /\ Setters # {} => mounted /\ timers = {}

\* The inductive invariant
Inv == TypeOK /\ StoreAgrees /\ PendingInv /\ PutInv /\ CallInv /\ TimerInv /\ IntervalInv

-----------------------------------------------------------------------------
(* The store *)

Deleting(n) == \E i \in DOMAIN mQueue : mQueue[i] = n
Adding(n) == \E i \in DOMAIN mQueueInternal : mQueueInternal[i].name = n

(* What is left when the first element of a queue is taken. *)
LEMMA TailElements ==
    ASSUME NEW S, NEW s \in Seq(S), s # <<>>
    PROVE  /\ Tail(s) \in Seq(S) /\ Len(Tail(s)) = Len(s) - 1
           /\ 1 \in DOMAIN s /\ Head(s) = s[1] /\ Head(s) \in S
           /\ \A i \in DOMAIN Tail(s) :
                 i \in Nat \ {0} /\ i + 1 \in DOMAIN s /\ Tail(s)[i] = s[i + 1]
           /\ \A i \in DOMAIN s : i = 1 \/ (i - 1 \in DOMAIN Tail(s) /\ Tail(s)[i - 1] = s[i])
OBVIOUS

(* What is there when an element is added. *)
LEMMA AppendElements ==
    ASSUME NEW S, NEW s \in Seq(S), NEW e \in S
    PROVE  /\ Append(s, e) \in Seq(S) /\ Len(Append(s, e)) = Len(s) + 1
           /\ \A i \in DOMAIN Append(s, e) : \/ i \in DOMAIN s /\ Append(s, e)[i] = s[i]
                                             \/ i = Len(s) + 1 /\ Append(s, e)[i] = e
           /\ \A i \in DOMAIN s : i \in DOMAIN Append(s, e) /\ Append(s, e)[i] = s[i]
           /\ Len(s) + 1 \in DOMAIN Append(s, e) /\ Append(s, e)[Len(s) + 1] = e
           /\ Len(s) + 1 \notin DOMAIN s
OBVIOUS

\* The part of the invariant that is about the store alone
StoreInv == StoreTypeOK /\ StoreAgrees /\ PendingInv

(* A request that is made while one is queued marks the name; the others find the  *)
(* database and the container in agreement.                                        *)
LEMMA RequestAgrees ==
    ASSUME StoreInv, NEW n \in Names, NoteMixed(n), StoreTypeOK',
           \A m \in Names \ {n} : /\ db'[m] = db[m] /\ mScripts'[m] = mScripts[m]
                                  /\ Adding(m)' <=> Adding(m)
                                  /\ Deleting(m)' <=> Deleting(m),
           Queued(n)' \/ (~Queued(n) /\ ~mixed[n] => Agree(n)'),
           ~Queued(n) => (Adding(n)' => db'[n] = "active" /\ ~Deleting(n)')
    PROVE  StoreInv'
<1>. USE DEF StoreInv
<1>1. /\ mixed'[n] <=> (mixed[n] \/ Queued(n))
      /\ \A m \in Names \ {n} : mixed'[m] = mixed[m]
  BY DEF NoteMixed, StoreTypeOK
<1>2. \A m \in Names : /\ Queued(m) <=> (Adding(m) \/ Deleting(m))
                       /\ Queued(m)' <=> (Adding(m)' \/ Deleting(m)')
  BY DEF Queued, Adding, Deleting
<1>3. ASSUME NEW m \in Names PROVE (Queued(m) \/ mixed[m] \/ Agree(m))'
  <2>1. CASE m = n
    BY <1>1, <2>1
  <2>2. CASE m # n
    BY <1>1, <1>2, <2>2 DEF StoreAgrees, Agree
  <2>. QED
    BY <2>1, <2>2
<1>4. ASSUME NEW m \in Names, ~mixed'[m], Adding(m)' PROVE db'[m] = "active" /\ ~Deleting(m)'
  <2>1. CASE m = n
    BY <1>1, <1>4, <2>1
  <2>2. CASE m # n
    BY <1>1, <1>4, <2>2 DEF PendingInv, Adding, Deleting
  <2>. QED
    BY <2>1, <2>2
<1>. QED
  BY <1>3, <1>4 DEF StoreAgrees, PendingInv, Adding, Deleting

(* What a step does to the store. *)
StoreMoves ==
    \/ UNCHANGED storeVars
    \/ \E n \in Names : \/ \E c \in Callers : PutScript(n, c)
                        \/ DeleteScript(n) \/ ActivateScript(n) \/ DeactivateScript(n)
    \/ \E status \in {"RUNNING", "INIT_FAILED"} : ExecuteAddScript(status)
    \/ ExecuteDeleteScript
    \/ Restart
    \/ /\ UNCHANGED <<db, mScripts, mQueue, mixed, restarts>>
       /\ \E cs : mQueueInternal' = Forget(cs)

(* Every operation on the store keeps its invariant. *)
LEMMA StoreStep ==
    ASSUME StoreInv, StoreMoves
    PROVE  StoreInv'
<1>. USE StoreAssumption DEF StoreInv
<1>t. /\ db \in [Names -> {"none", "active", "inactive"}]
      /\ mScripts \in [Names -> {"none", "RUNNING", "DEACTIVATED", "INIT_FAILED"}]
      /\ mQueue \in Seq(Names) /\ Len(mQueue) <= MaxQueue
      /\ mQueueInternal \in Seq(Additions) /\ Len(mQueueInternal) <= MaxQueue
      /\ mixed \in [Names -> BOOLEAN] /\ restarts \in 0..MaxRestarts
  BY DEF StoreTypeOK
<1>0. ASSUME NEW n \in Names, NoteMixed(n) PROVE mixed' \in [Names -> BOOLEAN]
  BY <1>t, <1>0 DEF NoteMixed
<1>q. \A m \in Names : Queued(m) <=> (Adding(m) \/ Deleting(m))
  BY DEF Queued, Adding, Deleting
<1>1. CASE UNCHANGED storeVars
  BY <1>1 DEF storeVars, StoreTypeOK, StoreAgrees, PendingInv, Queued, Agree
<1>2. ASSUME NEW n \in Names, NEW c \in Callers, PutScript(n, c) PROVE StoreInv'
  <2>. DEFINE r == [name |-> n, put |-> c]
  <2>1. r \in Additions /\ r.name = n
    BY DEF Additions
  <2>2. /\ Len(mQueueInternal) < MaxQueue /\ db' = [db EXCEPT ![n] = "active"] /\ NoteMixed(n)
        /\ mQueueInternal' = Append(mQueueInternal, r) /\ UNCHANGED <<mScripts, mQueue, restarts>>
    BY <1>2 DEF PutScript
  <2>. HIDE DEF r
  <2>3. /\ mQueueInternal' \in Seq(Additions) /\ Len(mQueueInternal') <= MaxQueue
        /\ \A m \in Names : Adding(m)' <=> (Adding(m) \/ m = n)
    <3>1. /\ mQueueInternal' \in Seq(Additions) /\ Len(mQueueInternal') = Len(mQueueInternal) + 1
      BY <1>t, <2>1, <2>2, AppendElements
    <3>2. \A m \in Names : Adding(m)' <=> (Adding(m) \/ m = n)
      BY <1>t, <2>1, <2>2, AppendElements DEF Adding
    <3>3. Len(mQueueInternal) \in Nat
      BY <1>t
    <3>. QED
      BY <2>2, <3>1, <3>2, <3>3
  <2>4. StoreTypeOK'
    BY <1>t, <1>0, <2>2, <2>3 DEF StoreTypeOK
  <2>5. \A m \in Names : Deleting(m)' <=> Deleting(m)
    BY <2>2 DEF Deleting
  <2>6. Queued(n)'
    BY <2>3 DEF Queued, Adding
  <2>. QED
    BY <1>t, <1>q, <2>2, <2>3, <2>4, <2>5, <2>6, RequestAgrees
<1>3. ASSUME NEW n \in Names, DeleteScript(n) PROVE StoreInv'
  <2>1. /\ Len(mQueue) < MaxQueue /\ mQueue' = Append(mQueue, n) /\ NoteMixed(n)
        /\ UNCHANGED <<db, mScripts, mQueueInternal, restarts>>
    BY <1>3 DEF DeleteScript
  <2>2. /\ mQueue' \in Seq(Names) /\ Len(mQueue') <= MaxQueue
        /\ \A m \in Names : Deleting(m)' <=> (Deleting(m) \/ m = n)
    <3>1. mQueue' \in Seq(Names) /\ Len(mQueue') = Len(mQueue) + 1
      BY <1>t, <2>1, AppendElements
    <3>2. \A m \in Names : Deleting(m)' <=> (Deleting(m) \/ m = n)
      BY <1>t, <2>1, AppendElements DEF Deleting
    <3>3. Len(mQueue) \in Nat
      BY <1>t
    <3>. QED
      BY <2>1, <3>1, <3>2, <3>3
  <2>3. StoreTypeOK'
    BY <1>t, <1>0, <2>1, <2>2 DEF StoreTypeOK
  <2>4. \A m \in Names : Adding(m)' <=> Adding(m)
    BY <2>1 DEF Adding
  <2>5. Queued(n)'
    BY <2>2 DEF Queued, Deleting
  <2>. QED
    BY <1>q, <2>1, <2>2, <2>3, <2>4, <2>5, RequestAgrees
<1>4. ASSUME NEW n \in Names, ActivateScript(n) \/ DeactivateScript(n) PROVE StoreInv'
  <2>1. NoteMixed(n) /\ UNCHANGED <<mQueue, mQueueInternal, restarts>>
    BY <1>4 DEF ActivateScript, DeactivateScript
  <2>2. /\ db' \in [Names -> {"none", "active", "inactive"}]
        /\ mScripts' \in [Names -> {"none", "RUNNING", "DEACTIVATED", "INIT_FAILED"}]
        /\ \A m \in Names \ {n} : db'[m] = db[m] /\ mScripts'[m] = mScripts[m]
        /\ Agree(n) => Agree(n)'
    <3>1. CASE ActivateScript(n)
      BY <1>t, <3>1 DEF ActivateScript, UpdateActive, Agree
    <3>2. CASE DeactivateScript(n)
      BY <1>t, <3>2 DEF DeactivateScript, UpdateActive, Agree
    <3>. QED
      BY <1>4, <3>1, <3>2
  <2>3. StoreTypeOK'
    BY <1>t, <1>0, <2>1, <2>2 DEF StoreTypeOK
  <2>4. \A m \in Names : (Adding(m)' <=> Adding(m)) /\ (Deleting(m)' <=> Deleting(m))
    BY <2>1 DEF Adding, Deleting
  <2>5. ~Queued(n) /\ ~mixed[n] => Agree(n)'
    BY <2>2 DEF StoreAgrees
  <2>. QED
    BY <1>q, <2>1, <2>2, <2>3, <2>4, <2>5, RequestAgrees
<1>5. ASSUME NEW status \in {"RUNNING", "INIT_FAILED"}, ExecuteAddScript(status) PROVE StoreInv'
  <2>. DEFINE n == Head(mQueueInternal).name
  <2>1. /\ mQueueInternal # <<>> /\ mQueueInternal' = Tail(mQueueInternal)
        /\ mScripts' = [mScripts EXCEPT ![n] = status] /\ UNCHANGED <<db, mQueue, mixed, restarts>>
    BY <1>5 DEF ExecuteAddScript
  <2>2. /\ n \in Names /\ Adding(n)
        /\ mQueueInternal' \in Seq(Additions) /\ Len(mQueueInternal') <= MaxQueue
        /\ \A m \in Names : /\ Adding(m)' => Adding(m)
                            /\ m # n => (Adding(m)' <=> Adding(m))
    <3>1. /\ mQueueInternal' \in Seq(Additions) /\ Len(mQueueInternal') = Len(mQueueInternal) - 1
          /\ 1 \in DOMAIN mQueueInternal /\ mQueueInternal[1].name = n
          /\ Head(mQueueInternal) \in Additions
      BY <1>t, <2>1, TailElements
    <3>2. \A m \in Names : /\ Adding(m)' => Adding(m)
                           /\ m # n => (Adding(m)' <=> Adding(m))
      <4>1. /\ \A i \in DOMAIN mQueueInternal' :
                  i + 1 \in DOMAIN mQueueInternal /\ mQueueInternal'[i] = mQueueInternal[i + 1]
            /\ \A i \in DOMAIN mQueueInternal :
                  i = 1 \/ (i - 1 \in DOMAIN mQueueInternal' /\ mQueueInternal'[i - 1] = mQueueInternal[i])
        BY <1>t, <2>1, TailElements
      <4>. HIDE DEF n
      <4>. QED
        BY <3>1, <4>1 DEF Adding
    <3>3. Len(mQueueInternal) \in Nat
      BY <1>t
    <3>4. n \in Names
      BY <3>1 DEF Additions
    <3>. QED
      BY SMTT(60), <1>t, <3>1, <3>2, <3>3, <3>4 DEF Adding
  <2>. HIDE DEF n
  <2>3. StoreTypeOK'
    BY <1>t, <2>1, <2>2 DEF StoreTypeOK
  <2>4. \A m \in Names : Deleting(m)' <=> Deleting(m)
    BY <2>1 DEF Deleting
  <2>5. ASSUME NEW m \in Names PROVE (Queued(m) \/ mixed[m] \/ Agree(m))'
    <3>1. CASE m = n
      <4>1. ~mixed[n] => db[n] = "active"
        BY <2>2 DEF PendingInv, Adding
      <4>2. mScripts'[n] = status
        BY <1>t, <2>1, <2>2
      <4>. QED
        BY <2>1, <3>1, <4>1, <4>2 DEF Agree
    <3>2. CASE m # n
      <4>1. Queued(m)' <=> Queued(m)
        BY <1>q, <2>2, <2>4, <3>2 DEF Queued, Adding, Deleting
      <4>2. mScripts'[m] = mScripts[m]
        BY <1>t, <2>1, <3>2
      <4>. QED
        BY <2>1, <4>1, <4>2 DEF StoreAgrees, Agree
    <3>. QED
      BY <3>1, <3>2
  <2>6. PendingInv'
    BY <2>1, <2>2 DEF PendingInv, Adding
  <2>. QED
    BY <2>3, <2>5, <2>6 DEF StoreAgrees
<1>6. CASE ExecuteDeleteScript
  <2>. DEFINE n == Head(mQueue)
  <2>1. /\ mQueue # <<>> /\ mQueue' = Tail(mQueue) /\ mScripts' = [mScripts EXCEPT ![n] = "none"]
        /\ db' = [db EXCEPT ![n] = "none"] /\ UNCHANGED <<mQueueInternal, mixed, restarts>>
    BY <1>6 DEF ExecuteDeleteScript
  <2>2. /\ n \in Names /\ Deleting(n)
        /\ mQueue' \in Seq(Names) /\ Len(mQueue') <= MaxQueue
        /\ \A m \in Names : /\ Deleting(m)' => Deleting(m)
                            /\ m # n => (Deleting(m)' <=> Deleting(m))
    <3>1. /\ mQueue' \in Seq(Names) /\ Len(mQueue') = Len(mQueue) - 1
          /\ 1 \in DOMAIN mQueue /\ mQueue[1] = n /\ n \in Names
      BY <1>t, <2>1, TailElements
    <3>2. \A m \in Names : /\ Deleting(m)' => Deleting(m)
                           /\ m # n => (Deleting(m)' <=> Deleting(m))
      <4>1. /\ \A i \in DOMAIN mQueue' : i + 1 \in DOMAIN mQueue /\ mQueue'[i] = mQueue[i + 1]
            /\ \A i \in DOMAIN mQueue :
                  i = 1 \/ (i - 1 \in DOMAIN mQueue' /\ mQueue'[i - 1] = mQueue[i])
        BY <1>t, <2>1, TailElements
      <4>. HIDE DEF n
      <4>. QED
        BY <3>1, <4>1 DEF Deleting
    <3>3. Len(mQueue) \in Nat
      BY <1>t
    <3>. QED
      <4>. HIDE DEF n
      <4>1. Deleting(n)
        BY <3>1 DEF Deleting
      <4>. QED
        BY <1>t, <3>1, <3>2, <3>3, <4>1
  <2>. HIDE DEF n
  <2>3. StoreTypeOK'
    BY <1>t, <2>1, <2>2 DEF StoreTypeOK
  <2>4. \A m \in Names : Adding(m)' <=> Adding(m)
    BY <2>1 DEF Adding
  <2>5. \A m \in Names : IF m = n THEN mScripts'[m] = "none" /\ db'[m] = "none"
                         ELSE mScripts'[m] = mScripts[m] /\ db'[m] = db[m]
    BY <1>t, <2>1
  <2>6. ASSUME NEW m \in Names PROVE (Queued(m) \/ mixed[m] \/ Agree(m))'
    <3>1. CASE m = n
      BY <2>5, <3>1 DEF Agree
    <3>2. CASE m # n
      <4>1. Queued(m)' <=> Queued(m)
        BY <1>q, <2>2, <2>4, <3>2 DEF Queued, Adding, Deleting
      <4>. QED
        BY <2>1, <2>5, <3>2, <4>1 DEF StoreAgrees, Agree
    <3>. QED
      BY <3>1, <3>2
  <2>7. ASSUME NEW m \in Names, ~mixed'[m], Adding(m)' PROVE db'[m] = "active" /\ ~Deleting(m)'
    <3>1. db[m] = "active" /\ ~Deleting(m)
      BY <2>1, <2>4, <2>7 DEF PendingInv, Adding, Deleting
    <3>. QED
      BY <2>2, <2>5, <3>1
  <2>. QED
    BY <2>3, <2>6, <2>7 DEF StoreAgrees, PendingInv, Adding, Deleting
<1>7. CASE Restart
  <2>1. PICK failing \in SUBSET Names : mScripts' = Load(db, failing)
    BY <1>7 DEF Restart
  <2>2. /\ restarts' \in 0..MaxRestarts /\ UNCHANGED db /\ mQueue' = <<>> /\ mQueueInternal' = <<>>
        /\ mixed' = [n \in Names |-> FALSE]
    BY <1>t, <1>7 DEF Restart
  <2>3. /\ mScripts' \in [Names -> {"none", "RUNNING", "DEACTIVATED", "INIT_FAILED"}]
        /\ \A n \in Names : Agree(n)'
    BY <1>t, <2>1, <2>2 DEF Load, Agree
  <2>4. /\ mQueue' \in Seq(Names) /\ mQueueInternal' \in Seq(Additions)
        /\ Len(mQueue') = 0 /\ Len(mQueueInternal') = 0
    BY <2>2
  <2>. QED
    BY <1>t, <2>2, <2>3, <2>4 DEF StoreTypeOK, StoreAgrees, PendingInv
<1>8. ASSUME UNCHANGED <<db, mScripts, mQueue, mixed, restarts>>, NEW cs, mQueueInternal' = Forget(cs)
      PROVE  StoreInv'
  <2>1. /\ DOMAIN mQueueInternal' = DOMAIN mQueueInternal
        /\ \A i \in DOMAIN mQueueInternal : /\ mQueueInternal'[i] \in Additions
                                            /\ mQueueInternal'[i].name = mQueueInternal[i].name
    <3>1. DOMAIN mQueueInternal' = DOMAIN mQueueInternal
      BY <1>8 DEF Forget
    <3>2. ASSUME NEW i \in DOMAIN mQueueInternal
          PROVE  mQueueInternal'[i] \in Additions /\ mQueueInternal'[i].name = mQueueInternal[i].name
      <4>1. mQueueInternal[i] \in Additions
        BY <1>t
      <4>2. mQueueInternal'[i] \in {mQueueInternal[i], [mQueueInternal[i] EXCEPT !.put = Nobody]}
        BY <1>8 DEF Forget
      <4>. QED
        BY <4>1, <4>2 DEF Additions
    <3>. QED
      BY <3>1, <3>2
  <2>2. mQueueInternal' \in Seq(Additions) /\ Len(mQueueInternal') = Len(mQueueInternal)
    <3>1. Len(mQueueInternal) \in Nat /\ DOMAIN mQueueInternal = 1..Len(mQueueInternal)
      BY <1>t
    <3>2. mQueueInternal' \in [1..Len(mQueueInternal) -> Additions]
      BY <1>8, <2>1, <3>1 DEF Forget
    <3>. QED
      BY <3>1, <3>2
  <2>. QED
    <3>1. StoreTypeOK'
      BY <1>t, <1>8, <2>2 DEF StoreTypeOK
    <3>2. \A m \in Names : (Adding(m)' <=> Adding(m)) /\ (Queued(m)' <=> Queued(m))
      BY <1>8, <2>1 DEF Adding, Queued
    <3>3. StoreAgrees'
      BY <1>8, <3>2 DEF StoreAgrees, Agree
    <3>4. PendingInv'
      BY <1>8, <3>2 DEF PendingInv, Adding
    <3>. QED
      BY <3>1, <3>3, <3>4
<1>. QED
  BY <1>1, <1>2, <1>3, <1>4, <1>5, <1>6, <1>7, <1>8 DEF StoreMoves

(* The steps of the page and of the broker operate on the store for a script that  *)
(* the page names, or not at all.                                                  *)
LEMMA StoreKinds ==
    ASSUME CallInv, [Next]_vars
    PROVE  StoreMoves
<1>1. ASSUME NEW n \in Names, NEW fn \in Functions \ Updates, ClickScript(n, fn)
      PROVE StoreMoves
  BY <1>1 DEF ClickScript, Click, StoreMoves
<1>2. CASE PageShow
  BY <1>2 DEF PageShow, StoreMoves
<1>3. CASE ChangeRate
  BY <1>3 DEF ChangeRate, StoreMoves
<1>4. CASE Destroy
  BY <1>4 DEF Destroy, StoreMoves
<1>5. CASE Tick
  BY <1>5 DEF Tick, StoreMoves
<1>6. ASSUME NEW c \in Callers, FinishUpdate(c) PROVE StoreMoves
  BY <1>6 DEF FinishUpdate, StoreMoves
<1>7. ASSUME NEW c \in Callers, FinishToggle(c) PROVE StoreMoves
  BY <1>7 DEF FinishToggle, StoreMoves
<1>8. ASSUME NEW c \in Callers, FinishEdit(c) PROVE StoreMoves
  BY <1>8 DEF FinishEdit, StoreMoves
<1>9. ASSUME NEW c \in Callers, FetchFails(c) PROVE StoreMoves
  BY <1>9 DEF FetchFails, StoreMoves
<1>10. ASSUME NEW c \in Callers, ServeNow(c) PROVE StoreMoves
  <2>1. CASE UNCHANGED storeVars
    BY <2>1 DEF StoreMoves
  <2>2. CASE /\ calls[c].fn \in {"activate", "deactivate", "deleteScript"}
             /\ \/ ActivateScript(calls[c].name) \/ DeactivateScript(calls[c].name)
                \/ DeleteScript(calls[c].name)
    <3>1. calls[c].name \in Names
      BY <2>2 DEF CallInv, Functions, Updates
    <3>. QED
      BY <2>2, <3>1 DEF StoreMoves
  <2>. QED
    BY <1>10, <2>1, <2>2 DEF ServeNow
<1>11. ASSUME NEW c \in Callers, ServePut(c) PROVE StoreMoves
  <2>1. calls[c].name \in Names
    BY <1>11 DEF ServePut, CallInv, Functions, Updates
  <2>. QED
    BY <1>11, <2>1 DEF ServePut, StoreMoves
<1>12. CASE AddAndAnswer
  BY <1>12 DEF AddAndAnswer, StoreMoves
<1>13. CASE Delete
  BY <1>13 DEF Delete, StoreMoves
<1>14. CASE Crash
  BY <1>14 DEF Crash, StoreMoves
<1>15. CASE UNCHANGED vars
  BY <1>15 DEF vars, StoreMoves
<1>. QED
  BY <1>1, <1>2, <1>3, <1>4, <1>5, <1>6, <1>7, <1>8, <1>9, <1>10, <1>11, <1>12, <1>13, <1>14, <1>15
  DEF Next, Continue, Answer, Worker

-----------------------------------------------------------------------------
(* The calls *)

CallRecords == [fn: Functions, name: Names \cup {Nobody}, st: {"sent", "queued", "ok", "error"},
                view: Views \cup {Nobody}]

\* What the invariant says of the calls
CallsInv == calls \in [Callers -> {Free} \cup CallRecords] /\ CallInv

(* A function that starts takes a free caller. *)
LEMMA BeginEffect ==
    ASSUME NEW fn, NEW n, Begin(fn, n)
    PROVE  \E c \in Callers : calls[c] = Free /\ calls' = [calls EXCEPT ![c] = Call(fn, n)]
<1>1. \E c \in Callers : calls[c] = Free
  BY DEF Begin
<1>. DEFINE c == CHOOSE c \in Callers : calls[c] = Free
<1>2. c \in Callers /\ calls[c] = Free
  BY <1>1
<1>3. calls' = [calls EXCEPT ![c] = Call(fn, n)]
  BY DEF Begin
<1>. HIDE DEF c
<1>. QED
  BY <1>2, <1>3

(* One call changes to one that is well formed. *)
LEMMA CallChanges ==
    ASSUME CallsInv, NEW c \in Callers, NEW r \in {Free} \cup CallRecords,
           calls' = [calls EXCEPT ![c] = r],
           r.fn \in Functions \ Updates => r.name \in Names,
           r.fn \in Updates => r.st # "queued" /\ (r.st = "ok" => r.view \in Views)
    PROVE  /\ CallsInv' /\ calls'[c] = r
           /\ \A d \in Callers \ {c} : calls'[d] = calls[d]
BY DEF CallsInv, CallInv

(* What the list shows are states of containers. *)
LEMMA ListedType == StoreTypeOK => Listed \in Views
BY DEF StoreTypeOK, Listed, Views, Shown

(* No step makes a call that is not well formed. *)
LEMMA CallsStep == TypeOK /\ CallInv /\ PutInv /\ [Next]_vars => CallsInv'
<1>. SUFFICES ASSUME TypeOK, CallInv, PutInv, [Next]_vars PROVE CallsInv'
  OBVIOUS
<1>. USE StoreAssumption DEF uiVars, managerVars
<1>a. CallsInv
  BY DEF TypeOK, CallsInv, CallRecords
<1>b. /\ Free \in {Free} \cup CallRecords /\ Free.fn \notin Functions /\ Free.st = "none"
      /\ Updates \subseteq Functions
  BY DEF Free, Functions, Updates
<1>c. \A fn \in Functions, n \in Names \cup {Nobody} :
         /\ Call(fn, n) \in CallRecords /\ Call(fn, n).fn = fn /\ Call(fn, n).name = n
         /\ Call(fn, n).st = "sent"
  BY DEF Call, CallRecords
<1>d. \A fn \in Functions, n \in Names \cup {Nobody} :
         Begin(fn, n) /\ (fn \in Functions \ Updates => n \in Names) => CallsInv'
  <2>. SUFFICES ASSUME NEW fn \in Functions, NEW n \in Names \cup {Nobody}, Begin(fn, n),
                       fn \in Functions \ Updates => n \in Names
                PROVE  CallsInv'
    OBVIOUS
  <2>1. PICK c \in Callers : calls' = [calls EXCEPT ![c] = Call(fn, n)]
    BY BeginEffect
  <2>2. /\ Call(fn, n) \in {Free} \cup CallRecords /\ Call(fn, n).st \notin {"ok", "queued"}
        /\ Call(fn, n).fn \in Functions \ Updates => Call(fn, n).name \in Names
    BY <1>c
  <2>. QED
    BY <1>a, <2>1, <2>2, CallChanges
<1>e. ASSUME NEW c \in Callers, calls' = [calls EXCEPT ![c] = Free] PROVE CallsInv'
  BY <1>a, <1>b, <1>e, CallChanges
<1>f. ASSUME NEW c \in Callers, calls[c].st # "none", NEW st \in {"queued", "ok", "error"},
             calls[c].fn \notin Updates,
             calls' = [calls EXCEPT ![c].st = st]
      PROVE  CallsInv'
  <2>. DEFINE r == [calls[c] EXCEPT !.st = st]
  <2>1. calls[c] \in CallRecords
    BY <1>a, <1>b, <1>f DEF CallsInv
  <2>2. r \in CallRecords /\ r.fn = calls[c].fn /\ r.name = calls[c].name /\ r.st = st
    BY <2>1 DEF CallRecords
  <2>3. calls' = [calls EXCEPT ![c] = r]
    BY <1>f
  <2>. HIDE DEF r
  <2>. QED
    BY ZenonT(60), <1>a, <1>f, <2>2, <2>3, CallChanges DEF CallInv
<1>g. UNCHANGED calls => CallsInv'
  BY <1>a DEF CallsInv, CallInv
<1>1. ASSUME NEW n \in Names, NEW fn \in Functions \ Updates, ClickScript(n, fn)
      PROVE CallsInv'
  BY <1>1, <1>d DEF ClickScript
<1>2. CASE PageShow
  BY <1>2, <1>b, <1>d DEF PageShow, Updates
<1>3. CASE ChangeRate
  BY <1>3, <1>b, <1>d, <1>g DEF ChangeRate, Updates
<1>4. CASE Destroy
  BY <1>4, <1>g DEF Destroy
<1>5. CASE Tick
  BY <1>5, <1>b, <1>d DEF Tick, Updates
<1>6. ASSUME NEW c \in Callers, FinishUpdate(c) PROVE CallsInv'
  BY <1>6, <1>e DEF FinishUpdate
<1>7. ASSUME NEW c \in Callers, FinishToggle(c) PROVE CallsInv'
  <2>1. CASE calls' = [calls EXCEPT ![c] = Free]
    BY <1>e, <2>1
  <2>2. CASE calls' = [calls EXCEPT ![c] = Call("updateStatus", Nobody)]
    <3>1. "updateStatus" \in Functions /\ "updateStatus" \in Updates
      BY DEF Functions, Updates
    <3>. QED
      <4>. DEFINE r == Call("updateStatus", Nobody)
      <4>1. r \in CallRecords /\ r.fn \in Updates /\ r.st = "sent"
        BY <1>c, <3>1
      <4>2. calls' = [calls EXCEPT ![c] = r]
        BY <2>2
      <4>. HIDE DEF r
      <4>. QED
        BY <1>a, <4>1, <4>2, CallChanges
  <2>. QED
    BY <1>7, <2>1, <2>2 DEF FinishToggle
<1>8. ASSUME NEW c \in Callers, FinishEdit(c) PROVE CallsInv'
  BY <1>8, <1>e DEF FinishEdit
<1>9. ASSUME NEW c \in Callers, FetchFails(c) PROVE CallsInv'
  BY <1>9, <1>e DEF FetchFails
<1>10. ASSUME NEW c \in Callers, ServeNow(c) PROVE CallsInv'
  <2>1. CASE calls[c].fn \in Updates /\ calls' = [calls EXCEPT ![c].st = "ok", ![c].view = Listed]
    <3>. DEFINE r == [calls[c] EXCEPT !.st = "ok", !.view = Listed]
    <3>1. calls[c] \in CallRecords /\ Listed \in Views
      BY <1>10, <1>a, <1>b, ListedType DEF ServeNow, CallsInv, TypeOK
    <3>2. r \in CallRecords /\ r.fn = calls[c].fn /\ r.view = Listed /\ r.st = "ok"
      BY <3>1 DEF CallRecords
    <3>3. calls' = [calls EXCEPT ![c] = r]
      BY <1>a, <2>1, <3>1 DEF CallsInv, CallRecords
    <3>. HIDE DEF r
    <3>. QED
      BY <1>a, <2>1, <3>1, <3>2, <3>3, CallChanges
  <2>2. CASE calls[c].fn \notin Updates /\ calls' = [calls EXCEPT ![c].st = "ok"]
    BY <1>10, <1>f, <2>2 DEF ServeNow
  <2>. QED
    BY <1>10, <2>1, <2>2 DEF ServeNow, Updates
<1>11. ASSUME NEW c \in Callers, ServePut(c) PROVE CallsInv'
  BY <1>11, <1>f DEF ServePut, Updates
<1>12. CASE AddAndAnswer
  <2>1. mQueueInternal # <<>> /\ mQueueInternal \in Seq(Additions)
    BY <1>12 DEF AddAndAnswer, ExecuteAddScript, TypeOK, StoreTypeOK
  <2>. DEFINE c == Head(mQueueInternal).put
  <2>2. 1 \in DOMAIN mQueueInternal /\ mQueueInternal[1].put = c /\ Head(mQueueInternal) \in Additions
    BY <2>1, TailElements
  <2>3. c \in Callers \cup {Nobody}
    BY <2>2 DEF Additions
  <2>4. CASE c = Nobody
    BY <1>12, <1>g, <2>4 DEF AddAndAnswer
  <2>5. CASE c # Nobody
    <3>1. c \in Callers /\ calls[c].st = "queued"
      BY <2>2, <2>3, <2>5 DEF PutInv
    <3>2. calls[c].fn \notin Updates
      BY <3>1 DEF CallInv
    <3>3. PICK st \in {"ok", "error"} : calls' = [calls EXCEPT ![c].st = st]
      BY <1>12, <2>5 DEF AddAndAnswer
    <3>. HIDE DEF c
    <3>. QED
      BY <1>f, <3>1, <3>2, <3>3
  <2>. QED
    BY <2>4, <2>5
<1>13. CASE Delete
  BY <1>13, <1>g DEF Delete
<1>14. CASE Crash
  <2>1. \A c \in Callers : calls'[c] \in {Free, calls[c]}
    BY <1>14 DEF Crash
  <2>2. calls' \in [Callers -> {Free} \cup CallRecords]
    BY <1>14, <1>a DEF Crash, CallsInv
  <2>. QED
    BY <1>a, <1>b, <2>1, <2>2 DEF CallsInv, CallInv
<1>15. CASE UNCHANGED vars
  BY <1>15, <1>g DEF vars
<1>. QED
  BY <1>1, <1>2, <1>3, <1>4, <1>5, <1>6, <1>7, <1>8, <1>9, <1>10, <1>11, <1>12, <1>13, <1>14, <1>15
  DEF Next, Continue, Answer, Worker

(* Whoever waits for an addition goes on doing so as long as nothing is taken from *)
(* or added to the queue.                                                          *)
LEMMA PutKept ==
    ASSUME StoreTypeOK, PutInv, UNCHANGED mQueueInternal,
           \A c \in Callers : calls[c].st = "queued" => calls'[c].st = "queued"
    PROVE  PutInv'
<1>1. \A i \in DOMAIN mQueueInternal : mQueueInternal[i].put \in Callers \cup {Nobody}
  <2>1. mQueueInternal \in Seq(Additions)
    BY DEF StoreTypeOK
  <2>2. \A i \in DOMAIN mQueueInternal : mQueueInternal[i] \in Additions
    BY <2>1
  <2>. QED
    BY <2>2 DEF Additions
<1>. QED
  BY <1>1 DEF PutInv

(* Every step keeps the answers of the additions apart. *)
LEMMA PutStep == TypeOK /\ CallInv /\ PutInv /\ [Next]_vars => PutInv'
<1>. SUFFICES ASSUME TypeOK, CallInv, PutInv, [Next]_vars PROVE PutInv'
  OBVIOUS
<1>. USE StoreAssumption DEF uiVars, managerVars, storeVars
<1>t. /\ StoreTypeOK /\ mQueueInternal \in Seq(Additions)
      /\ \A i \in DOMAIN mQueueInternal : mQueueInternal[i].put \in Callers \cup {Nobody}
      /\ calls \in [Callers -> {Free} \cup CallRecords]
  <2>1. StoreTypeOK /\ mQueueInternal \in Seq(Additions)
    BY DEF TypeOK, StoreTypeOK
  <2>2. \A i \in DOMAIN mQueueInternal : mQueueInternal[i] \in Additions
    BY <2>1
  <2>3. \A i \in DOMAIN mQueueInternal : mQueueInternal[i].put \in Callers \cup {Nobody}
    BY <2>2 DEF Additions
  <2>4. calls \in [Callers -> {Free} \cup CallRecords]
    BY DEF TypeOK, CallRecords
  <2>. QED
    BY <2>1, <2>3, <2>4
<1>a. Free.st = "none" /\ \A fn, n : Call(fn, n).st = "sent"
  BY DEF Free, Call
<1>b. ASSUME NEW c \in Callers, calls[c].st # "queued", NEW r, calls' = [calls EXCEPT ![c] = r],
             UNCHANGED mQueueInternal
      PROVE  PutInv'
  BY <1>t, <1>b, PutKept
<1>c. ASSUME NEW fn, NEW n, Begin(fn, n), UNCHANGED mQueueInternal PROVE PutInv'
  <2>1. PICK c \in Callers : calls[c] = Free /\ calls' = [calls EXCEPT ![c] = Call(fn, n)]
    BY <1>c, BeginEffect
  <2>. QED
    BY <1>a, <1>b, <1>c, <2>1
<1>d. UNCHANGED <<calls, mQueueInternal>> => PutInv'
  BY <1>t, PutKept
<1>1. ASSUME NEW n \in Names, NEW fn \in Functions \ Updates, ClickScript(n, fn)
      PROVE PutInv'
  BY <1>1, <1>c DEF ClickScript
<1>2. CASE PageShow
  BY <1>2, <1>c DEF PageShow
<1>3. CASE ChangeRate
  BY <1>3, <1>c, <1>d DEF ChangeRate
<1>4. CASE Destroy
  BY <1>4, <1>d DEF Destroy
<1>5. CASE Tick
  BY <1>5, <1>c DEF Tick
<1>6. ASSUME NEW c \in Callers, FinishUpdate(c) PROVE PutInv'
  BY <1>6, <1>b DEF FinishUpdate
<1>7. ASSUME NEW c \in Callers, FinishToggle(c) PROVE PutInv'
  BY <1>7, <1>b DEF FinishToggle
<1>8. ASSUME NEW c \in Callers, FinishEdit(c) PROVE PutInv'
  BY <1>8, <1>b DEF FinishEdit
<1>9. ASSUME NEW c \in Callers, FetchFails(c) PROVE PutInv'
  <2>1. /\ DOMAIN mQueueInternal' = DOMAIN mQueueInternal
        /\ \A i \in DOMAIN mQueueInternal :
              IF mQueueInternal[i].put = c THEN mQueueInternal'[i].put = Nobody
              ELSE mQueueInternal'[i].put = mQueueInternal[i].put
    <3>1. DOMAIN mQueueInternal' = DOMAIN mQueueInternal
      BY <1>9 DEF FetchFails, Forget
    <3>2. ASSUME NEW i \in DOMAIN mQueueInternal
          PROVE  IF mQueueInternal[i].put = c THEN mQueueInternal'[i].put = Nobody
                 ELSE mQueueInternal'[i].put = mQueueInternal[i].put
      <4>1. mQueueInternal[i] \in Additions
        BY <1>t
      <4>2. mQueueInternal'[i] = IF mQueueInternal[i].put = c
                                 THEN [mQueueInternal[i] EXCEPT !.put = Nobody] ELSE mQueueInternal[i]
        BY <1>9 DEF FetchFails, Forget
      <4>. QED
        BY <4>1, <4>2 DEF Additions
    <3>. QED
      BY <3>1, <3>2
  <2>2. \A d \in Callers \ {c} : calls'[d] = calls[d]
    BY <1>9, <1>t DEF FetchFails
  <2>3. ASSUME NEW i \in DOMAIN mQueueInternal', mQueueInternal'[i].put # Nobody
        PROVE  /\ calls'[mQueueInternal'[i].put].st = "queued"
               /\ \A j \in DOMAIN mQueueInternal' : mQueueInternal'[j].put = mQueueInternal'[i].put => i = j
    <3>1. /\ i \in DOMAIN mQueueInternal /\ mQueueInternal'[i].put = mQueueInternal[i].put
          /\ mQueueInternal[i].put \in Callers \ {c}
      BY <1>t, <2>1, <2>3
    <3>. QED
      BY <2>1, <2>2, <2>3, <3>1 DEF PutInv
  <2>. QED
    BY <2>3 DEF PutInv
<1>10. ASSUME NEW c \in Callers, ServeNow(c) PROVE PutInv'
  <2>1. UNCHANGED mQueueInternal
    BY <1>10 DEF ServeNow, ActivateScript, DeactivateScript, DeleteScript
  <2>2. \A d \in Callers \ {c} : calls'[d] = calls[d]
    BY <1>10, <1>t DEF ServeNow
  <2>. QED
    BY <1>10, <1>t, <2>1, <2>2, PutKept DEF ServeNow
<1>11. ASSUME NEW c \in Callers, ServePut(c) PROVE PutInv'
  <2>. DEFINE r == [name |-> calls[c].name, put |-> c]
  <2>1. calls[c].st = "sent" /\ mQueueInternal' = Append(mQueueInternal, r) /\ r.put = c
    BY <1>11 DEF ServePut, PutScript
  <2>. HIDE DEF r
  <2>2. \A i \in DOMAIN mQueueInternal' :
           \/ i \in DOMAIN mQueueInternal /\ mQueueInternal'[i] = mQueueInternal[i]
           \/ i = Len(mQueueInternal) + 1 /\ mQueueInternal'[i] = r
    BY <1>t, <2>1
  <2>3. calls'[c].st = "queued" /\ \A d \in Callers \ {c} : calls'[d] = calls[d]
    <3>1. calls[c] \in CallRecords
      BY <1>t, <1>a, <2>1
    <3>. QED
      BY <1>11, <1>t, <3>1 DEF ServePut, CallRecords
  <2>4. \A i \in DOMAIN mQueueInternal : mQueueInternal[i].put # c
    BY <2>1 DEF PutInv
  <2>5. ASSUME NEW i \in DOMAIN mQueueInternal', mQueueInternal'[i].put # Nobody
        PROVE  calls'[mQueueInternal'[i].put].st = "queued"
    BY <1>t, <2>1, <2>2, <2>3, <2>5 DEF PutInv
  <2>6. ASSUME NEW i \in DOMAIN mQueueInternal', mQueueInternal'[i].put # Nobody,
               NEW j \in DOMAIN mQueueInternal', mQueueInternal'[j].put = mQueueInternal'[i].put
        PROVE  i = j
    BY <2>1, <2>2, <2>4, <2>6 DEF PutInv
  <2>. QED
    BY <2>5, <2>6 DEF PutInv
<1>12. CASE AddAndAnswer
  <2>. DEFINE c == Head(mQueueInternal).put
  <2>1. mQueueInternal # <<>> /\ mQueueInternal' = Tail(mQueueInternal)
    BY <1>12 DEF AddAndAnswer, ExecuteAddScript
  <2>2. /\ 1 \in DOMAIN mQueueInternal /\ mQueueInternal[1].put = c
        /\ \A i \in DOMAIN mQueueInternal' : /\ i \in Nat \ {0} /\ i + 1 \in DOMAIN mQueueInternal
                                            /\ mQueueInternal'[i] = mQueueInternal[i + 1]
    BY <1>t, <2>1, TailElements
  <2>3. \A d \in Callers \ {c} : calls'[d] = calls[d]
    BY <1>12, <1>t DEF AddAndAnswer
  <2>. HIDE DEF c
  <2>4. ASSUME NEW i \in DOMAIN mQueueInternal', mQueueInternal'[i].put # Nobody
        PROVE  calls'[mQueueInternal'[i].put].st = "queued"
    <3>1. mQueueInternal[i + 1].put # c
      <4>1. i + 1 # 1
        BY <2>2
      <4>. QED
        BY <2>2, <2>4, <4>1 DEF PutInv
    <3>. QED
      BY <1>t, <2>2, <2>3, <2>4, <3>1 DEF PutInv
  <2>5. ASSUME NEW i \in DOMAIN mQueueInternal', mQueueInternal'[i].put # Nobody,
               NEW j \in DOMAIN mQueueInternal', mQueueInternal'[j].put = mQueueInternal'[i].put
        PROVE  i = j
    <3>1. i + 1 = j + 1
      BY <2>2, <2>5 DEF PutInv
    <3>. QED
      BY <2>2, <3>1
  <2>. QED
    BY <2>4, <2>5 DEF PutInv
<1>13. CASE Delete
  BY <1>13, <1>d DEF Delete, ExecuteDeleteScript
<1>14. CASE Crash
  BY <1>14 DEF Crash, Restart, PutInv
<1>15. CASE UNCHANGED vars
  BY <1>15, <1>d DEF vars
<1>. QED
  BY <1>1, <1>2, <1>3, <1>4, <1>5, <1>6, <1>7, <1>8, <1>9, <1>10, <1>11, <1>12, <1>13, <1>14, <1>15
  DEF Next, Continue, Answer, Worker

-----------------------------------------------------------------------------
(* The intervals *)

(* A step that starts no call that sets an interval, and loses one at most noticed. *)
Undisturbed ==
    /\ UNCHANGED <<managerVars, mounted, overlapped>> /\ rates' >= rates
    /\ \A c \in Callers : calls'[c].fn \in Setting => calls'[c].fn = calls[c].fn
    /\ \/ refreshLost'
       \/ /\ UNCHANGED refreshLost
          /\ \A c \in Callers : calls[c].fn \in Setting => calls'[c].fn = calls[c].fn

(* Only the end of onMount and refresh, a change of the rate and onDestroy touch    *)
(* the intervals.                                                                  *)
LEMMA IntervalKinds ==
    ASSUME TypeOK, CallInv, PutInv, [Next]_vars
    PROVE  \/ Undisturbed
           \/ \E c \in Callers : FinishUpdate(c) /\ calls[c].fn \in Setting
           \/ ChangeRate /\ Refreshes
           \/ Destroy
<1>. DEFINE Kind == \/ Undisturbed
                    \/ \E c \in Callers : FinishUpdate(c) /\ calls[c].fn \in Setting
                    \/ ChangeRate /\ Refreshes
                    \/ Destroy
<1>. SUFFICES Kind
  OBVIOUS
<1>. USE DEF uiVars, managerVars, userVars, auxVars
<1>t. calls \in [Callers -> {Free} \cup CallRecords] /\ rates \in Nat
  BY WebUIAssumption DEF TypeOK, CallRecords
<1>a. Free.fn \notin Setting /\ \A fn, n : Call(fn, n).fn = fn
  BY DEF Free, Call, Setting
<1>b. ASSUME NEW fn, fn \notin Setting, NEW n, Begin(fn, n)
      PROVE  \A c \in Callers : \/ calls'[c].fn = calls[c].fn
                                \/ calls[c].fn \notin Setting /\ calls'[c].fn \notin Setting
  <2>1. PICK c \in Callers : calls[c] = Free /\ calls' = [calls EXCEPT ![c] = Call(fn, n)]
    BY <1>b, BeginEffect
  <2>. QED
    BY <1>t, <1>a, <1>b, <2>1
<1>c. ASSUME NEW c \in Callers, calls[c].fn \notin Setting, NEW r, r.fn \notin Setting,
             calls' = [calls EXCEPT ![c] = r]
      PROVE  \A d \in Callers : \/ calls'[d].fn = calls[d].fn
                                \/ calls[d].fn \notin Setting /\ calls'[d].fn \notin Setting
  BY <1>t, <1>c
<1>d. ASSUME UNCHANGED <<managerVars, mounted, overlapped, refreshLost>>, rates' >= rates,
             \A d \in Callers : \/ calls'[d].fn = calls[d].fn
                                \/ calls[d].fn \notin Setting /\ calls'[d].fn \notin Setting
      PROVE  Kind
  BY <1>d DEF Undisturbed
<1>e. rates >= rates
  BY <1>t
<1>1. ASSUME NEW n \in Names, NEW fn \in Functions \ Updates, ClickScript(n, fn)
      PROVE Kind
  <2>1. fn \notin Setting
    BY DEF Setting, Functions, Updates
  <2>. QED
    BY <1>1, <1>b, <1>d, <1>e, <2>1 DEF ClickScript
<1>2. CASE PageShow
  <2>1. "updateStatus" \notin Setting
    BY DEF Setting
  <2>. QED
    BY <1>2, <1>b, <1>d, <1>e, <2>1 DEF PageShow
<1>3. CASE ChangeRate
  <2>1. CASE Refreshes
    BY <1>3, <2>1
  <2>2. CASE ~Refreshes
    <3>1. rates' >= rates
      BY <1>3, <1>t DEF ChangeRate
    <3>. QED
      BY <1>3, <1>d, <2>2, <3>1 DEF ChangeRate
  <2>. QED
    BY <2>1, <2>2
<1>4. CASE Destroy
  BY <1>4
<1>5. CASE Tick
  <2>1. "updateStatus" \notin Setting
    BY DEF Setting
  <2>. QED
    BY <1>5, <1>b, <1>d, <1>e, <2>1 DEF Tick
<1>6. ASSUME NEW c \in Callers, FinishUpdate(c) PROVE Kind
  <2>1. CASE calls[c].fn \in Setting
    BY <1>6, <2>1
  <2>2. CASE calls[c].fn \notin Setting
    <3>1. UNCHANGED <<managerVars, mounted, overlapped, refreshLost, rates>>
      <4>1. calls[c].fn \notin {"onMount", "refresh"}
        BY <2>2 DEF Setting
      <4>2. initDone' = initDone
        BY <1>6, <4>1 DEF FinishUpdate, TypeOK
      <4>. QED
        BY <1>6, <4>1, <4>2 DEF FinishUpdate
    <3>. QED
      BY <1>6, <1>a, <1>c, <1>d, <1>e, <2>2, <3>1 DEF FinishUpdate
  <2>. QED
    BY <2>1, <2>2
<1>7. ASSUME NEW c \in Callers, FinishToggle(c) PROVE Kind
  <2>1. /\ calls[c].fn \notin Setting
        /\ (IF scripts[calls[c].name] = "absent" THEN Free ELSE Call("updateStatus", Nobody)).fn \notin Setting
    BY <1>7, <1>a DEF FinishToggle, Setting
  <2>. QED
    BY <1>7, <1>c, <1>d, <1>e, <2>1 DEF FinishToggle
<1>8. ASSUME NEW c \in Callers, FinishEdit(c) PROVE Kind
  <2>1. calls[c].fn \notin Setting
    BY <1>8 DEF FinishEdit, Setting
  <2>. QED
    BY <1>8, <1>a, <1>c, <1>d, <1>e, <2>1 DEF FinishEdit
<1>9. ASSUME NEW c \in Callers, FetchFails(c) PROVE Kind
  <2>1. /\ UNCHANGED <<managerVars, mounted, overlapped, rates>>
        /\ refreshLost' = (refreshLost \/ calls[c].fn \in {"onMount", "refresh"})
    BY <1>9 DEF FetchFails
  <2>2. /\ \A d \in Callers \ {c} : calls'[d] = calls[d]
        /\ calls'[c].fn \notin Setting
    BY <1>9, <1>t, <1>a DEF FetchFails
  <2>3. refreshLost' \in BOOLEAN /\ refreshLost \in BOOLEAN
    BY <2>1 DEF TypeOK
  <2>. QED
    BY <1>e, <2>1, <2>2, <2>3 DEF Undisturbed, Setting
<1>10. ASSUME NEW c \in Callers, ServeNow(c) PROVE Kind
  <2>1. \A d \in Callers : calls'[d].fn = calls[d].fn
    <3>1. calls[c] \in CallRecords
      BY <1>10, <1>t DEF ServeNow, Free
    <3>. QED
      BY <1>10, <1>t, <3>1 DEF ServeNow, CallRecords
  <2>. QED
    BY <1>10, <1>d, <1>e, <2>1 DEF ServeNow
<1>11. ASSUME NEW c \in Callers, ServePut(c) PROVE Kind
  <2>1. \A d \in Callers : calls'[d].fn = calls[d].fn
    <3>1. calls[c] \in CallRecords
      BY <1>11, <1>t DEF ServePut, Free
    <3>. QED
      BY <1>11, <1>t, <3>1 DEF ServePut, CallRecords
  <2>. QED
    BY <1>11, <1>d, <1>e, <2>1 DEF ServePut
<1>12. CASE AddAndAnswer
  <2>. DEFINE c == Head(mQueueInternal).put
  <2>1. mQueueInternal # <<>> /\ mQueueInternal \in Seq(Additions)
    BY <1>12 DEF AddAndAnswer, ExecuteAddScript, TypeOK, StoreTypeOK
  <2>2. 1 \in DOMAIN mQueueInternal /\ mQueueInternal[1].put = c /\ Head(mQueueInternal) \in Additions
    BY <2>1, TailElements
  <2>3. c \in Callers \cup {Nobody}
    BY <2>2 DEF Additions
  <2>4. CASE c = Nobody
    BY <1>12, <1>d, <1>e, <2>4 DEF AddAndAnswer
  <2>5. CASE c # Nobody
    <3>1. c \in Callers /\ calls[c].st = "queued"
      BY <2>2, <2>3, <2>5 DEF PutInv
    <3>2. PICK st : calls' = [calls EXCEPT ![c].st = st]
      BY <1>12, <2>5 DEF AddAndAnswer
    <3>3. UNCHANGED <<managerVars, mounted, overlapped, refreshLost, rates>>
      BY <1>12 DEF AddAndAnswer
    <3>. HIDE DEF c
    <3>4. calls[c] \in CallRecords
      BY <1>t, <3>1 DEF Free
    <3>5. \A d \in Callers : calls'[d].fn = calls[d].fn
      BY <1>t, <3>2, <3>4 DEF CallRecords
    <3>. QED
      BY <1>d, <1>e, <3>3, <3>5
  <2>. QED
    BY <2>4, <2>5
<1>13. CASE Delete
  BY <1>13, <1>d, <1>e DEF Delete
<1>14. CASE Crash
  <2>. DEFINE lost == {c \in Callers : calls[c].st \in {"sent", "queued"}}
  <2>1. /\ UNCHANGED <<managerVars, mounted, overlapped, rates>>
        /\ refreshLost' = (refreshLost \/ \E c \in lost : calls[c].fn \in {"onMount", "refresh"})
        /\ calls' = [c \in Callers |-> IF c \in lost THEN Free ELSE calls[c]]
    BY <1>14 DEF Crash
  <2>. HIDE DEF lost
  <2>2. refreshLost' \in BOOLEAN /\ refreshLost \in BOOLEAN
    BY <2>1 DEF TypeOK
  <2>3. \A c \in Callers : calls'[c] = IF c \in lost THEN Free ELSE calls[c]
    BY <2>1
  <2>4. CASE refreshLost'
    BY <1>a, <1>e, <2>1, <2>3, <2>4 DEF Undisturbed
  <2>5. CASE ~refreshLost'
    <3>1. refreshLost' = refreshLost /\ \A c \in lost : calls[c].fn \notin Setting
      BY <2>1, <2>2, <2>5 DEF Setting
    <3>. QED
      BY <1>a, <1>d, <1>e, <2>1, <2>3, <3>1
  <2>. QED
    BY <2>4, <2>5
<1>15. CASE UNCHANGED vars
  BY <1>15, <1>d, <1>e DEF vars
<1>. QED
  BY <1>1, <1>2, <1>3, <1>4, <1>5, <1>6, <1>7, <1>8, <1>9, <1>10, <1>11, <1>12, <1>13, <1>14, <1>15
  DEF Next, Continue, Answer, Worker

(* The calls that set an interval, after each kind of step. *)
LEMMA SettersStep ==
    ASSUME calls \in [Callers -> {Free} \cup CallRecords]
    PROVE  /\ Undisturbed => Setters' \subseteq Setters
           /\ Undisturbed /\ ~refreshLost' => Setters' = Setters
           /\ UNCHANGED calls => Setters' = Setters
           /\ \A c \in Callers : FinishUpdate(c) /\ calls[c].fn \in Setting =>
                c \in Setters /\ Setters' = Setters \ {c}
           /\ ChangeRate /\ Refreshes =>
                \E c \in Callers : /\ c \notin Setters /\ Setters' = Setters \cup {c}
                                   /\ calls'[c].fn = "refresh"
<1>a. Free.fn \notin Setting
  BY DEF Free, Setting
<1>1. Undisturbed => Setters' \subseteq Setters
  BY DEF Undisturbed, Setters
<1>2. Undisturbed /\ ~refreshLost' => Setters' = Setters
  BY DEF Undisturbed, Setters
<1>3. UNCHANGED calls => Setters' = Setters
  BY DEF Setters
<1>4. ASSUME NEW c \in Callers, FinishUpdate(c), calls[c].fn \in Setting
      PROVE  c \in Setters /\ Setters' = Setters \ {c}
  <2>1. calls' = [calls EXCEPT ![c] = Free]
    BY <1>4 DEF FinishUpdate
  <2>2. calls'[c] = Free /\ \A d \in Callers \ {c} : calls'[d] = calls[d]
    BY <2>1
  <2>. QED
    BY <1>a, <1>4, <2>2 DEF Setters
<1>5. ASSUME ChangeRate, Refreshes
      PROVE  \E c \in Callers : /\ c \notin Setters /\ Setters' = Setters \cup {c}
                                /\ calls'[c].fn = "refresh"
  <2>1. Begin("refresh", Nobody)
    BY <1>5 DEF ChangeRate
  <2>2. PICK c \in Callers : calls[c] = Free /\ calls' = [calls EXCEPT ![c] = Call("refresh", Nobody)]
    BY <2>1, BeginEffect
  <2>3. calls'[c].fn = "refresh" /\ \A d \in Callers \ {c} : calls'[d] = calls[d]
    BY <2>2 DEF Call
  <2>4. "refresh" \in Setting
    BY DEF Setting
  <2>5. c \notin Setters /\ Setters' = Setters \cup {c}
    BY <1>a, <2>2, <2>3, <2>4 DEF Setters
  <2>. QED
    BY <2>3, <2>5
<1>. QED
  BY <1>1, <1>2, <1>3, <1>4, <1>5

(* No more intervals are set than onMount and the changes of the rate account for. *)
LEMMA TimerStep ==
    ASSUME TypeOK, CallInv, PutInv, TimerInv, [Next]_vars
    PROVE  TimerInv'
<1>t. /\ calls \in [Callers -> {Free} \cup CallRecords] /\ rates \in Nat /\ lastTimer \in Nat
      /\ IsFiniteSet(Setters) /\ Cardinality(Setters) \in Nat
      /\ lastTimer + Cardinality(Setters) <= rates + 1
  <2>1. IsFiniteSet(Setters) /\ lastTimer + Cardinality(Setters) <= rates + 1
    BY DEF TimerInv
  <2>2. Cardinality(Setters) \in Nat
    BY <2>1, FS_CardinalityType
  <2>. QED
    BY <2>1, <2>2, WebUIAssumption DEF TypeOK, CallRecords, Timers, NoTimer
<1>1. CASE Undisturbed
  <2>1. Setters' \in SUBSET Setters /\ lastTimer' = lastTimer /\ rates' >= rates /\ rates' \in Nat
    <3>1. rates' = rates \/ rates' = rates + 1
      BY ZenonT(60), <1>t DEF Next, vars, userVars, ClickScript, PageShow, ChangeRate, Destroy, Tick, Continue,
         FinishUpdate, FinishToggle, FinishEdit, FetchFails, Answer, ServeNow, ServePut, Worker,
         AddAndAnswer, Delete, Crash
    <3>. QED
      BY SMTT(60), <1>t, <1>1, <3>1, SettersStep DEF Undisturbed, managerVars
  <2>2. /\ IsFiniteSet(Setters') /\ Cardinality(Setters') <= Cardinality(Setters)
    BY <1>t, <2>1, FS_Subset
  <2>3. Cardinality(Setters') \in Nat
    BY <2>2, FS_CardinalityType
  <2>. QED
    BY <1>t, <2>1, <2>2, <2>3 DEF TimerInv
<1>2. ASSUME NEW c \in Callers, FinishUpdate(c), calls[c].fn \in Setting PROVE TimerInv'
  <2>1. c \in Setters /\ Setters' = Setters \ {c}
    BY <1>t, <1>2, SettersStep
  <2>2. lastTimer' = lastTimer + 1 /\ rates' = rates
    BY <1>2 DEF FinishUpdate, SetInterval, Setting, userVars
  <2>3. IsFiniteSet(Setters') /\ Cardinality(Setters') = Cardinality(Setters) - 1
    BY <1>t, <2>1, FS_RemoveElement
  <2>. QED
    BY <1>t, <2>2, <2>3 DEF TimerInv
<1>3. CASE ChangeRate /\ Refreshes
  <2>1. PICK c \in Callers : c \notin Setters /\ Setters' = Setters \cup {c}
    BY <1>t, <1>3, SettersStep
  <2>2. lastTimer' = lastTimer /\ rates' = rates + 1
    BY <1>3 DEF ChangeRate
  <2>3. IsFiniteSet(Setters') /\ Cardinality(Setters') = Cardinality(Setters) + 1
    BY <1>t, <2>1, FS_AddElement
  <2>. QED
    BY <1>t, <2>2, <2>3 DEF TimerInv
<1>4. CASE Destroy
  <2>1. Setters' = Setters /\ UNCHANGED <<lastTimer, rates>>
    BY <1>t, <1>4, SettersStep DEF Destroy, userVars
  <2>. QED
    BY <1>t, <2>1 DEF TimerInv
<1>. QED
  BY <1>1, <1>2, <1>3, <1>4, IntervalKinds

(* Every step keeps the interval known. *)
LEMMA IntervalStep ==
    ASSUME TypeOK, CallInv, PutInv, IntervalInv, [Next]_vars
    PROVE  IntervalInv'
<1>t. /\ calls \in [Callers -> {Free} \cup CallRecords]
      /\ mounted \in BOOLEAN /\ initDone \in BOOLEAN /\ overlapped \in BOOLEAN /\ refreshLost \in BOOLEAN
  BY DEF TypeOK, CallRecords
<1>a. /\ Awaiting({"refresh"}) <=> \E c \in Callers : calls[c].fn = "refresh"
      /\ Awaiting({"refresh"})' <=> \E c \in Callers : calls'[c].fn = "refresh"
      /\ Awaiting({"onMount", "refresh"}) <=> Setters # {}
  BY DEF Awaiting, Setters, Setting
<1>1. CASE Undisturbed
  <2>1. /\ UNCHANGED <<initDone, oldRefreshRate, refreshIntervalTimeoutId, timers, lastTimer>>
        /\ UNCHANGED <<mounted, overlapped>> /\ Setters' \subseteq Setters
    BY <1>t, <1>1, SettersStep DEF Undisturbed, managerVars
  <2>2. ~refreshLost' => ~refreshLost /\ (~Awaiting({"refresh"})' => ~Awaiting({"refresh"}))
    <3>. SUFFICES ASSUME ~refreshLost'
                  PROVE  ~refreshLost /\ (~Awaiting({"refresh"})' => ~Awaiting({"refresh"}))
      OBVIOUS
    <3>1. ~refreshLost /\ \A c \in Callers : calls[c].fn \in Setting => calls'[c].fn = calls[c].fn
      BY <1>1 DEF Undisturbed
    <3>2. "refresh" \in Setting
      BY DEF Setting
    <3>. QED
      BY <1>a, <3>1, <3>2
  <2>. QED
    BY <2>1, <2>2 DEF IntervalInv
<1>2. ASSUME NEW c \in Callers, FinishUpdate(c), calls[c].fn \in Setting PROVE IntervalInv'
  <2>1. c \in Setters /\ Setters' = Setters \ {c}
    BY <1>t, <1>2, SettersStep
  <2>2. /\ timers' = timers \cup {refreshIntervalTimeoutId'}
        /\ UNCHANGED <<mounted, overlapped>>
    BY <1>2 DEF FinishUpdate, SetInterval, Setting, auxVars
  <2>3. ~overlapped => Setters' = {} /\ mounted /\ timers = {}
    BY <2>1 DEF IntervalInv
  <2>. QED
    BY <2>2, <2>3 DEF IntervalInv
<1>3. CASE ChangeRate /\ Refreshes
  <2>1. PICK c \in Callers : /\ c \notin Setters /\ Setters' = Setters \cup {c}
                             /\ calls'[c].fn = "refresh"
    BY <1>t, <1>3, SettersStep
  <2>2. /\ mounted /\ mounted' = mounted /\ timers' = timers \ {refreshIntervalTimeoutId}
        /\ overlapped' = (overlapped \/ Setters # {})
        /\ refreshIntervalTimeoutId' = refreshIntervalTimeoutId
    BY <1>3, <1>a DEF ChangeRate
  <2>3. Awaiting({"refresh"})'
    BY <1>a, <2>1
  <2>4. ~overlapped' => ~overlapped /\ Setters = {}
    BY <1>t, <2>2
  <2>. QED
    BY <2>1, <2>2, <2>3, <2>4 DEF IntervalInv
<1>4. CASE Destroy
  <2>1. Setters' = Setters
    BY <1>t, <1>4, SettersStep DEF Destroy
  <2>2. /\ ~mounted' /\ timers' = timers \ {refreshIntervalTimeoutId}
        /\ overlapped' = (overlapped \/ Setters # {})
        /\ refreshIntervalTimeoutId' = refreshIntervalTimeoutId
    BY <1>4, <1>a DEF Destroy
  <2>3. ~overlapped' => ~overlapped /\ Setters = {}
    BY <1>t, <2>2
  <2>. QED
    BY <2>1, <2>2, <2>3 DEF IntervalInv
<1>. QED
  BY <1>1, <1>2, <1>3, <1>4, IntervalKinds

-----------------------------------------------------------------------------
(* The invariant *)

\* What the type invariant says besides the store and the calls
PageType ==
    /\ scripts \in Views
    /\ mounted \in BOOLEAN /\ initDone \in BOOLEAN /\ oldRefreshRate \in {0, 1}
    /\ refreshIntervalTimeoutId \in Timers \cup {NoTimer}
    /\ timers \subseteq Timers /\ lastTimer \in Timers \cup {NoTimer}
    /\ clicks \in 0..MaxClicks /\ rates \in 0..MaxRates /\ failures \in 0..MaxFailures
    /\ refreshLost \in BOOLEAN /\ overlapped \in BOOLEAN

LEMMA TypeSplit ==
    TypeOK <=> StoreTypeOK /\ PageType /\ calls \in [Callers -> {Free} \cup CallRecords]
BY DEF TypeOK, PageType, CallRecords

(* Every step leaves the variables of the page in their types. *)
LEMMA PageStep ==
    ASSUME TypeOK, CallInv, TimerInv, [Next]_vars
    PROVE  PageType'
<1>. USE WebUIAssumption DEF PageType, uiVars, managerVars, userVars, auxVars
<1>t. PageType /\ calls \in [Callers -> {Free} \cup CallRecords]
  BY TypeSplit
<1>a. UNCHANGED <<scripts, mounted, managerVars, userVars, auxVars>> => PageType'
  BY <1>t
<1>1. ASSUME NEW n \in Names, NEW fn \in Functions \ Updates, ClickScript(n, fn)
      PROVE PageType'
  BY <1>1, <1>t DEF ClickScript, Click
<1>2. CASE PageShow
  BY <1>2, <1>t DEF PageShow
<1>3. CASE ChangeRate
  <2>1. rates' \in 0..MaxRates
    BY <1>3, <1>t DEF ChangeRate
  <2>2. refreshRate' \in {0, 1}
    <3>1. \A k \in Nat : k % 2 \in {0, 1}
      OBVIOUS
    <3>2. refreshRate' = rates' % 2 /\ rates' \in Nat
      BY <2>1 DEF refreshRate
    <3>. QED
      BY <3>1, <3>2
  <2>3. /\ oldRefreshRate' \in {oldRefreshRate, refreshRate'} /\ timers' \subseteq timers
        /\ overlapped' \in BOOLEAN
        /\ UNCHANGED <<scripts, mounted, initDone, refreshIntervalTimeoutId, lastTimer,
                       clicks, failures, refreshLost>>
    BY <1>3, <1>t DEF ChangeRate
  <2>. QED
    BY <1>t, <2>1, <2>2, <2>3
<1>4. CASE Destroy
  BY <1>4, <1>t DEF Destroy
<1>5. CASE Tick
  BY <1>5, <1>a DEF Tick
<1>6. ASSUME NEW c \in Callers, FinishUpdate(c) PROVE PageType'
  <2>1. scripts' \in Views
    BY <1>6 DEF FinishUpdate, CallInv
  <2>2. initDone' \in BOOLEAN /\ UNCHANGED <<mounted, oldRefreshRate, userVars, auxVars>>
    BY <1>6, <1>t DEF FinishUpdate
  <2>3. /\ refreshIntervalTimeoutId' \in Timers \cup {NoTimer}
        /\ timers' \subseteq Timers /\ lastTimer' \in Timers \cup {NoTimer}
    <3>1. CASE calls[c].fn \in Setting
      <4>1. lastTimer \in Nat /\ rates \in 0..MaxRates
        BY <1>t DEF Timers, NoTimer
      <4>2. lastTimer + 1 <= rates + 1
        <5>1. IsFiniteSet(Setters) /\ Setters # {} /\ lastTimer + Cardinality(Setters) <= rates + 1
          BY <3>1 DEF TimerInv, Setters
        <5>2. Cardinality(Setters) \in Nat \ {0}
          BY <5>1, FS_CardinalityType, FS_EmptySet
        <5>. QED
          BY <4>1, <5>1, <5>2
      <4>3. lastTimer + 1 \in Timers
        BY <4>1, <4>2 DEF Timers
      <4>. QED
        BY <1>6, <1>t, <3>1, <4>3 DEF FinishUpdate, SetInterval, Setting
    <3>2. CASE calls[c].fn \notin Setting
      BY <1>6, <1>t, <3>2 DEF FinishUpdate, Setting
    <3>. QED
      BY <3>1, <3>2
  <2>. QED
    BY <1>t, <2>1, <2>2, <2>3
<1>7. ASSUME NEW c \in Callers, FinishToggle(c) PROVE PageType'
  BY <1>7, <1>a DEF FinishToggle
<1>8. ASSUME NEW c \in Callers, FinishEdit(c) PROVE PageType'
  <2>1. scripts' \in Views
    BY <1>8, <1>t DEF FinishEdit, Views, Shown
  <2>. QED
    BY <1>8, <1>t, <2>1 DEF FinishEdit
<1>9. ASSUME NEW c \in Callers, FetchFails(c) PROVE PageType'
  BY <1>9, <1>t DEF FetchFails
<1>10. ASSUME NEW c \in Callers, ServeNow(c) PROVE PageType'
  BY <1>10, <1>a DEF ServeNow
<1>11. ASSUME NEW c \in Callers, ServePut(c) PROVE PageType'
  BY <1>11, <1>a DEF ServePut
<1>12. CASE AddAndAnswer
  BY <1>12, <1>a DEF AddAndAnswer
<1>13. CASE Delete
  BY <1>13, <1>a DEF Delete
<1>14. CASE Crash
  BY <1>14, <1>t DEF Crash
<1>15. CASE UNCHANGED vars
  BY <1>15, <1>a DEF vars
<1>. QED
  BY <1>1, <1>2, <1>3, <1>4, <1>5, <1>6, <1>7, <1>8, <1>9, <1>10, <1>11, <1>12, <1>13, <1>14, <1>15
  DEF Next, Continue, Answer, Worker

(* The broker and the page start in the invariant. *)
LEMMA InitInv == Init => Inv
<1>. SUFFICES ASSUME Init PROVE Inv
  OBVIOUS
<1>. USE StoreAssumption, WebUIAssumption
<1>1. StoreInv
  <2>1. PICK failing \in SUBSET Names : mScripts = Load(db, failing)
    BY DEF Init, StoreInit
  <2>2. /\ db \in [Names -> {"none", "active", "inactive"}] /\ mQueue = <<>> /\ mQueueInternal = <<>>
        /\ mixed = [n \in Names |-> FALSE] /\ restarts = 0
    BY DEF Init, StoreInit
  <2>3. /\ mScripts \in [Names -> {"none", "RUNNING", "DEACTIVATED", "INIT_FAILED"}]
        /\ \A n \in Names : Agree(n)
    BY <2>1, <2>2 DEF Load, Agree
  <2>4. /\ mQueue \in Seq(Names) /\ mQueueInternal \in Seq(Additions)
        /\ Len(mQueue) = 0 /\ Len(mQueueInternal) = 0
    BY <2>2
  <2>. QED
    BY <2>2, <2>3, <2>4 DEF StoreInv, StoreTypeOK, StoreAgrees, PendingInv
<1>2. PICK c : calls = [d \in Callers |-> IF d = c THEN Call("onMount", Nobody) ELSE Free]
  BY DEF Init
<1>3. /\ Call("onMount", Nobody) \in CallRecords
      /\ Call("onMount", Nobody).fn = "onMount" /\ Call("onMount", Nobody).st = "sent"
      /\ Free.fn = "none" /\ Free.st = "none"
  BY DEF Call, CallRecords, Functions, Updates, Free
<1>4. /\ calls \in [Callers -> {Free} \cup CallRecords]
      /\ \A d \in Callers : \/ calls[d].fn = "onMount" /\ calls[d].st = "sent" /\ d = c
                            \/ calls[d].fn = "none" /\ calls[d].st = "none"
  BY <1>2, <1>3
<1>5. CallInv /\ PutInv
  <2>1. "onMount" \in Updates /\ "none" \notin Functions /\ "none" \notin Updates
    BY DEF Updates, Functions
  <2>2. mQueueInternal = <<>>
    BY DEF Init, StoreInit
  <2>. QED
    BY <1>4, <2>1, <2>2 DEF CallInv, PutInv
<1>6. PageType
  <2>1. scripts \in Views
    BY DEF Init, Views, Shown
  <2>2. NoTimer \in Timers \cup {NoTimer} /\ {} \subseteq Timers
    OBVIOUS
  <2>3. 0 \in 0..MaxClicks /\ 0 \in 0..MaxRates /\ 0 \in 0..MaxFailures
    OBVIOUS
  <2>. QED
    BY <2>1, <2>2, <2>3 DEF Init, PageType
<1>7. Setters \subseteq {c}
  BY <1>4 DEF Setters, Setting
<1>8. TimerInv
  <2>1. IsFiniteSet({c}) /\ Cardinality({c}) = 1
    BY FS_Singleton
  <2>2. IsFiniteSet(Setters) /\ Cardinality(Setters) <= 1
    BY <1>7, <2>1, FS_Subset
  <2>3. Cardinality(Setters) \in Nat
    BY <2>2, FS_CardinalityType
  <2>4. lastTimer = 0 /\ rates = 0
    BY DEF Init, NoTimer
  <2>. QED
    BY <2>2, <2>3, <2>4 DEF TimerInv
<1>9. IntervalInv
  BY <1>7 DEF Init, IntervalInv
<1>. QED
  BY <1>1, <1>4, <1>5, <1>6, <1>8, <1>9, TypeSplit DEF Inv, StoreInv

(* Every step keeps the invariant. *)
LEMMA NextInv == Inv /\ [Next]_vars => Inv'
<1>. SUFFICES ASSUME Inv, [Next]_vars PROVE Inv'
  OBVIOUS
<1>1. TypeOK /\ StoreAgrees /\ PendingInv /\ PutInv /\ CallInv /\ TimerInv /\ IntervalInv
  BY DEF Inv
<1>2. StoreInv
  BY <1>1, TypeSplit DEF StoreInv
<1>3. StoreMoves
  BY <1>1, StoreKinds
<1>4. StoreInv'
  BY <1>2, <1>3, StoreStep
<1>5. CallsInv' /\ PutInv' /\ TimerInv' /\ IntervalInv' /\ PageType'
  BY <1>1, CallsStep, PutStep, TimerStep, IntervalStep, PageStep
<1>6. TypeOK'
  <2>1. TypeOK' <=> (StoreTypeOK /\ PageType /\ calls \in [Callers -> {Free} \cup CallRecords])'
    BY TypeSplit, PTL
  <2>. QED
    BY <1>4, <1>5, <2>1 DEF StoreInv, CallsInv
<1>. QED
  BY <1>4, <1>5, <1>6 DEF Inv, StoreInv, CallsInv

(* The invariant holds in every state, for any scripts, callers and bounds. *)
THEOREM Invariance == Spec => []Inv
BY InitInv, NextInv, PTL DEF Spec

(* Every variable of the page and the store keeps its type: above all a call that *)
(* is answered with a list has one, and no more intervals are set than there were *)
(* changes of the rate.                                                           *)
THEOREM TypeCorrect == Spec => []TypeOK
<1>1. Inv => TypeOK
  BY DEF Inv
<1>. QED
  BY <1>1, Invariance, PTL

(* PUT writes the row at once and has the container made later, DELETE removes    *)
(* both later, activate and deactivate change both at once: when the requests of  *)
(* a script are executed its row and its container agree, unless one of them was  *)
(* made while another was queued.                                                 *)
THEOREM StoreConsistent == Spec => []StoreAgrees
<1>1. Inv => StoreAgrees
  BY DEF Inv
<1>. QED
  BY <1>1, Invariance, PTL

(* RefreshManager keeps exactly the interval whose id it knows, and onDestroy     *)
(* leaves none, unless onMount or refresh() was overtaken while it awaited the    *)
(* list or its fetch failed.                                                      *)
THEOREM IntervalKnown == Spec => []IntervalExact
<1>1. Inv => IntervalExact
  <2>. SUFFICES ASSUME Inv PROVE IntervalExact
    OBVIOUS
  <2>1. IntervalInv
    BY DEF Inv
  <2>2. ASSUME ~overlapped PROVE Cardinality(timers) <= 1
    <3>1. timers = {} \/ timers = {refreshIntervalTimeoutId}
      BY <2>1, <2>2 DEF IntervalInv
    <3>2. Cardinality(timers) \in {0, 1}
      BY <3>1, FS_EmptySet, FS_Singleton
    <3>. QED
      BY <3>2
  <2>. QED
    BY <2>1, <2>2 DEF IntervalInv, IntervalExact
<1>. QED
  BY <1>1, Invariance, PTL

=============================================================================
