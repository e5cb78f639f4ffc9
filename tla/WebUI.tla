-------------------------------- MODULE WebUI --------------------------------
(***************************************************************************)
(* The page Scripts of the web user interface, with the RefreshManager     *)
(* that keeps it up to date, and the editor's saveScript, together with    *)
(* the broker they talk to (module ScriptStore).                           *)
(*                                                                         *)
(* Every asynchronous function of the page is a call with one fetch in     *)
(* flight: the broker serves it at some moment, and the browser goes on    *)
(* after the await when the answer is there, in any order among the calls. *)
(* The page lives from onMount to onDestroy; calls and timers outlive it.  *)
(***************************************************************************)
EXTENDS ScriptStore, FiniteSets

CONSTANTS
    MaxClicks,      \* bound on what the user does to scripts
    MaxRates,       \* bound on the changes of the refresh rate
    MaxFailures     \* bound on the fetches that fail

ASSUME WebUIAssumption ==
    MaxClicks \in Nat /\ MaxRates \in Nat /\ MaxFailures \in Nat

VARIABLES
    scripts,        \* what the page shows
    calls,          \* per element of Callers, the call it stands for
    mounted, initDone, oldRefreshRate,
    refreshIntervalTimeoutId,
    timers,         \* the intervals that are set
    lastTimer,
    clicks, rates, failures,
    refreshLost,    \* auxiliary: a fetch that onMount or refresh() awaited has failed
    overlapped      \* auxiliary: onMount or refresh() was overtaken while it awaited a fetch

managerVars == <<initDone, oldRefreshRate, refreshIntervalTimeoutId, timers, lastTimer>>
uiVars == <<scripts, calls, mounted, managerVars>>
userVars == <<clicks, rates, failures>>
auxVars == <<refreshLost, overlapped>>
vars == <<storeVars, uiVars, userVars, auxVars>>

\* onMount and refresh() go on after updateStatus, the others end with it
Updates == {"onMount", "refresh", "updateStatus"}
Functions == Updates \cup {"activate", "deactivate", "deleteScript", "newScript",
                         "saveScript"}
Free == [fn |-> "none", name |-> Nobody, st |-> "none", view |-> Nobody]
Shown == {"absent", "UNKNOWN", "RUNNING", "DEACTIVATED", "INIT_FAILED", "new"}
Views == [Names -> Shown]
NoTimer == 0
Timers == 1..(MaxRates + 1)

(* What every variable may hold. *)
TypeOK ==
    /\ StoreTypeOK
    /\ scripts \in Views
    /\ calls \in [Callers -> {Free} \cup [fn: Functions, name: Names \cup {Nobody},
                                          st: {"sent", "queued", "ok", "error"},
                                          view: Views \cup {Nobody}]]
    /\ mounted \in BOOLEAN /\ initDone \in BOOLEAN /\ oldRefreshRate \in {0, 1}
    /\ refreshIntervalTimeoutId \in Timers \cup {NoTimer}
    /\ timers \subseteq Timers /\ lastTimer \in Timers \cup {NoTimer}
    /\ clicks \in 0..MaxClicks /\ rates \in 0..MaxRates /\ failures \in 0..MaxFailures
    /\ refreshLost \in BOOLEAN /\ overlapped \in BOOLEAN

Call(fn, n) == [fn |-> fn, name |-> n, st |-> "sent", view |-> Nobody]

\* The page has just been opened: onMount awaits the first updateStatus
Init ==
    /\ StoreInit
    /\ scripts = [n \in Names |-> "absent"]
    /\ LET c == CHOOSE c \in Callers : TRUE IN
       calls = [d \in Callers |-> IF d = c THEN Call("onMount", Nobody) ELSE Free]
    /\ mounted = TRUE /\ initDone = FALSE /\ oldRefreshRate = 0
    /\ refreshIntervalTimeoutId = NoTimer /\ timers = {} /\ lastTimer = NoTimer
    /\ clicks = 0 /\ rates = 0 /\ failures = 0
    /\ refreshLost = FALSE /\ overlapped = FALSE

\* A function starts and sends its first request; the callers differ in nothing, so any
\* free one will do
Begin(fn, n) ==
    /\ \E c \in Callers : calls[c] = Free
    /\ LET c == CHOOSE c \in Callers : calls[c] = Free IN
       calls' = [calls EXCEPT ![c] = Call(fn, n)]

Awaiting(fns) == \E c \in Callers : calls[c].fn \in fns

-----------------------------------------------------------------------------
(* The user *)

Click ==
    /\ mounted /\ clicks < MaxClicks
    /\ clicks' = clicks + 1

\* The buttons that a script has depend on the state that is shown
ClickScript(n, fn) ==
    /\ Click
    /\ \/ fn = "activate" /\ scripts[n] = "DEACTIVATED"
       \/ fn = "deactivate" /\ scripts[n] = "RUNNING"
       \/ fn = "deleteScript" /\ scripts[n] # "absent"
       \/ fn = "saveScript" /\ scripts[n] # "absent"
       \/ fn = "newScript"
    /\ Begin(fn, n)
    /\ UNCHANGED <<storeVars, scripts, mounted, managerVars, rates, failures, auxVars>>

\* The browser shows the page from its cache again
PageShow ==
    /\ clicks < MaxClicks
    /\ clicks' = clicks + 1
    /\ Begin("updateStatus", Nobody)
    /\ UNCHANGED <<storeVars, scripts, mounted, managerVars, rates, failures, auxVars>>

\* The rate that is selected: two of them, in turn.  The page was made with rate 0
refreshRate == rates % 2

\* refresh(refreshRate) does nothing unless the rate is another one and onMount is through
Refreshes == initDone /\ oldRefreshRate # refreshRate'

BugNoClear ==
    /\ mounted /\ rates < MaxRates
    /\ rates' = rates + 1
    /\ IF Refreshes
       THEN /\ oldRefreshRate' = refreshRate'
            /\ Begin("refresh", Nobody)
            /\ overlapped' = (overlapped \/ Awaiting({"onMount", "refresh"}))
       ELSE UNCHANGED <<oldRefreshRate, calls, overlapped>>
    /\ UNCHANGED <<storeVars, scripts, mounted, initDone, refreshIntervalTimeoutId, timers,
                   lastTimer, clicks, failures, refreshLost>>

\* Another refresh rate is selected: the interval is cleared, and updateStatus awaited
ChangeRate ==
    /\ mounted /\ rates < MaxRates
    /\ rates' = rates + 1
    /\ IF Refreshes
       THEN /\ oldRefreshRate' = refreshRate'
            /\ timers' = timers \ {refreshIntervalTimeoutId}
            /\ Begin("refresh", Nobody)
            /\ overlapped' = (overlapped \/ Awaiting({"onMount", "refresh"}))
       ELSE UNCHANGED <<oldRefreshRate, timers, calls, overlapped>>
    /\ UNCHANGED <<storeVars, scripts, mounted, initDone, refreshIntervalTimeoutId, lastTimer,
                   clicks, failures, refreshLost>>

\* Another page is chosen: onDestroy
Destroy ==
    /\ mounted
    /\ mounted' = FALSE
    /\ timers' = timers \ {refreshIntervalTimeoutId}
    /\ overlapped' = (overlapped \/ Awaiting({"onMount", "refresh"}))
    /\ UNCHANGED <<storeVars, scripts, calls, initDone, oldRefreshRate, refreshIntervalTimeoutId,
                   lastTimer, userVars, refreshLost>>

-----------------------------------------------------------------------------
(* The browser *)

\* The interval's callback, whether or not an earlier one is still waiting
Tick ==
    /\ timers # {}
    /\ Begin("updateStatus", Nobody)
    /\ UNCHANGED <<storeVars, scripts, mounted, managerVars, userVars, auxVars>>

\* setInterval, whose id replaces the one that was known
SetInterval ==
    /\ lastTimer' = lastTimer + 1
    /\ timers' = timers \cup {lastTimer'}
    /\ refreshIntervalTimeoutId' = lastTimer'

BugAlwaysInterval(c) ==
    /\ calls[c].st = "ok" /\ calls[c].fn \in Updates
    /\ scripts' = calls[c].view
    /\ calls' = [calls EXCEPT ![c] = Free]
    /\ SetInterval
    /\ initDone' = (initDone \/ calls[c].fn = "onMount")
    /\ UNCHANGED <<storeVars, mounted, oldRefreshRate, userVars, auxVars>>

BugShowOnce(c) ==
    /\ calls[c].st = "ok" /\ calls[c].fn \in Updates
    /\ scripts' = IF initDone THEN scripts ELSE calls[c].view
    /\ calls' = [calls EXCEPT ![c] = Free]
    /\ IF calls[c].fn \in {"onMount", "refresh"}
       THEN SetInterval
       ELSE UNCHANGED <<refreshIntervalTimeoutId, timers, lastTimer>>
    /\ initDone' = (initDone \/ calls[c].fn = "onMount")
    /\ UNCHANGED <<storeVars, mounted, oldRefreshRate, userVars, auxVars>>

\* scripts = await fetchPromise, and what the function that awaited it does then
FinishUpdate(c) ==
    /\ calls[c].st = "ok" /\ calls[c].fn \in Updates
    /\ scripts' = calls[c].view
    /\ calls' = [calls EXCEPT ![c] = Free]
    /\ IF calls[c].fn \in {"onMount", "refresh"}
       THEN SetInterval
       ELSE UNCHANGED <<refreshIntervalTimeoutId, timers, lastTimer>>
    /\ initDone' = (initDone \/ calls[c].fn = "onMount")
    /\ UNCHANGED <<storeVars, mounted, oldRefreshRate, userVars, auxVars>>

\* activate and deactivate: the entry is written to, which throws if it is gone; then
\* the list is fetched
FinishToggle(c) ==
    /\ calls[c].st = "ok" /\ calls[c].fn \in {"activate", "deactivate"}
    /\ calls' = [calls EXCEPT ![c] = IF scripts[calls[c].name] = "absent"
                                     THEN Free ELSE Call("updateStatus", Nobody)]
    /\ UNCHANGED <<storeVars, scripts, mounted, managerVars, userVars, auxVars>>

\* deleteScript and newScript change the shown list themselves when the answer is 200;
\* saveScript looks at no answer
FinishEdit(c) ==
    /\ calls[c].st \in {"ok", "error"}
    /\ calls[c].fn \in {"deleteScript", "newScript", "saveScript"}
    /\ scripts' = IF calls[c].st = "error" \/ calls[c].fn = "saveScript" THEN scripts
                  ELSE [scripts EXCEPT ![calls[c].name] =
                            IF calls[c].fn = "deleteScript" THEN "absent" ELSE "new"]
    /\ calls' = [calls EXCEPT ![c] = Free]
    /\ UNCHANGED <<storeVars, mounted, managerVars, userVars, auxVars>>

\* The additions of mQueueInternal without those callers
Forget(cs) ==
    [i \in DOMAIN mQueueInternal |->
        IF mQueueInternal[i].put \in cs
        THEN [mQueueInternal[i] EXCEPT !.put = Nobody] ELSE mQueueInternal[i]]

\* A fetch fails: the promise is rejected, nothing after the await is done
FetchFails(c) ==
    /\ calls[c] # Free /\ failures < MaxFailures
    /\ failures' = failures + 1
    /\ refreshLost' = (refreshLost \/ calls[c].fn \in {"onMount", "refresh"})
    /\ calls' = [calls EXCEPT ![c] = Free]
    /\ mQueueInternal' = Forget({c})
    /\ UNCHANGED <<db, mScripts, mQueue, mixed, restarts, scripts, mounted, managerVars,
                   clicks, rates, overlapped>>

-----------------------------------------------------------------------------
(* The broker *)

\* The handlers that answer at once
ServeNow(c) ==
    LET n == calls[c].name IN
    /\ calls[c].st = "sent"
    /\ \/ /\ calls[c].fn \in Updates
          /\ calls' = [calls EXCEPT ![c].st = "ok", ![c].view = Listed]
          /\ UNCHANGED storeVars
       \/ /\ \/ calls[c].fn = "activate" /\ ActivateScript(n)
             \/ calls[c].fn = "deactivate" /\ DeactivateScript(n)
             \/ calls[c].fn = "deleteScript" /\ DeleteScript(n)
          /\ calls' = [calls EXCEPT ![c].st = "ok"]
    /\ UNCHANGED <<scripts, mounted, managerVars, userVars, auxVars>>

\* PUT is answered by the script's initialisation
ServePut(c) ==
    /\ calls[c].st = "sent" /\ calls[c].fn \in {"newScript", "saveScript"}
    /\ PutScript(calls[c].name, c)
    /\ calls' = [calls EXCEPT ![c].st = "queued"]
    /\ UNCHANGED <<scripts, mounted, managerVars, userVars, auxVars>>

AddAndAnswer ==
    /\ \E status \in {"RUNNING", "INIT_FAILED"} :
         /\ ExecuteAddScript(status)
         /\ LET c == Head(mQueueInternal).put IN
            calls' = IF c = Nobody THEN calls
                     ELSE [calls EXCEPT ![c].st = IF status = "RUNNING" THEN "ok" ELSE "error"]
    /\ UNCHANGED <<scripts, mounted, managerVars, userVars, auxVars>>

Delete == ExecuteDeleteScript /\ UNCHANGED <<uiVars, userVars, auxVars>>

\* The connections break with the broker: every fetch that is not answered fails
Crash ==
    LET lost == {c \in Callers : calls[c].st \in {"sent", "queued"}} IN
    /\ Restart
    /\ calls' = [c \in Callers |-> IF c \in lost THEN Free ELSE calls[c]]
    /\ refreshLost' = (refreshLost \/ \E c \in lost : calls[c].fn \in {"onMount", "refresh"})
    /\ UNCHANGED <<scripts, mounted, managerVars, userVars, overlapped>>

-----------------------------------------------------------------------------
Worker == AddAndAnswer \/ Delete
Answer(c) == ServeNow(c) \/ ServePut(c)
Continue(c) == FinishUpdate(c) \/ FinishToggle(c) \/ FinishEdit(c)

Next ==
    \/ \E n \in Names, fn \in Functions \ Updates : ClickScript(n, fn)
    \/ PageShow \/ ChangeRate \/ Destroy \/ Tick
    \/ \E c \in Callers : Continue(c) \/ FetchFails(c) \/ Answer(c)
    \/ Worker \/ Crash

\* The broker answers and works off its queues, the browser continues the functions whose
\* answers are there and runs the intervals.  The user need not do anything.
Fairness ==
    /\ WF_vars(Worker) /\ WF_vars(Tick)
    /\ \A c \in Callers : WF_vars(Answer(c)) /\ WF_vars(Continue(c))

Spec == Init /\ [][Next]_vars /\ Fairness

-----------------------------------------------------------------------------
(* Properties *)

(* The page has the one interval it knows of as long as it is shown, and none     *)
(* once it is left.  Excepted: while the rate is changed, or after a fetch of     *)
(* onMount or refresh() was lost, there may be none; once one of the two was      *)
(* overtaken by a change of the rate or by onDestroy while it awaited the list,   *)
(* an interval may be left that nobody can clear.                                 *)
IntervalExact ==
    /\ mounted /\ initDone /\ ~refreshLost /\ ~Awaiting({"refresh"})
         => refreshIntervalTimeoutId \in timers
    /\ ~overlapped => Cardinality(timers) <= 1 /\ (~mounted => timers = {})

(* What the page shows is in the end what the broker lists, and stays so: answers *)
(* that overtake each other, entries the page adds or removes itself and scripts  *)
(* that are deleted after the answer are all put right by a later update.         *)
ShowsList == <>[](mounted /\ initDone /\ ~refreshLost => scripts = Listed)
=============================================================================
