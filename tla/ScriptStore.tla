----------------------------- MODULE ScriptStore -----------------------------
(***************************************************************************)
(* The scripts as the REST interface sees them: the rows of the table      *)
(* script in the database, the containers in mScripts, and the requests    *)
(* between the two.  PUT writes the row at once and has the container made *)
(* later (through mQueueInternal, because addScript owns mMutex); DELETE   *)
(* only requests a change (through mQueue), whose execution removes both;  *)
(* activate and deactivate are executed at once.  The list that GET        *)
(* answers is made of the rows, with the states of the containers.         *)
(*                                                                         *)
(* The life of a container is module ScriptThread's; here it runs, is      *)
(* deactivated or has failed to initialise, which the model decides when   *)
(* the container is made.                                                  *)
(***************************************************************************)
EXTENDS Integers, Sequences

CONSTANTS
    Names,          \* names of JavaScript scripts
    Callers,        \* identifies who waits for the answer to a PUT
    Nobody,         \* ... when nobody does any more
    MaxQueue,       \* bound on the requests in each queue
    MaxRestarts     \* bound on the crashes and restarts

ASSUME StoreAssumption ==
    /\ Nobody \notin Callers
    /\ MaxQueue \in Nat /\ MaxRestarts \in Nat

VARIABLES
    db,             \* per name: no row, or a row with its column active
    mScripts,       \* per name: no container, or the container's state
    mQueue,         \* the names to be deleted
    mQueueInternal, \* the scripts to be added, with the callers of their PUTs
    mixed,          \* auxiliary: names with a request made while another one was queued
    restarts

storeVars == <<db, mScripts, mQueue, mQueueInternal, mixed, restarts>>

Additions == [name: Names, put: Callers \cup {Nobody}]

(* What every variable may hold. *)
StoreTypeOK ==
    /\ db \in [Names -> {"none", "active", "inactive"}]
    /\ mScripts \in [Names -> {"none", "RUNNING", "DEACTIVATED", "INIT_FAILED"}]
    /\ mQueue \in Seq(Names) /\ Len(mQueue) <= MaxQueue
    /\ mQueueInternal \in Seq(Additions) /\ Len(mQueueInternal) <= MaxQueue
    /\ mixed \in [Names -> BOOLEAN]
    /\ restarts \in 0..MaxRestarts

\* The constructor adds the scripts of the rows and deactivates those that are not
\* active; failing are those whose initialisation fails
Load(rows, failing) ==
    [n \in Names |-> CASE rows[n] = "none" -> "none"
                       [] rows[n] # "none" /\ n \in failing -> "INIT_FAILED"
                       [] rows[n] = "active" /\ n \notin failing -> "RUNNING"
                       [] rows[n] = "inactive" /\ n \notin failing -> "DEACTIVATED"]

\* The broker has been started with any rows
StoreInit ==
    /\ db \in [Names -> {"none", "active", "inactive"}]
    /\ \E failing \in SUBSET Names : mScripts = Load(db, failing)
    /\ mQueue = <<>> /\ mQueueInternal = <<>>
    /\ mixed = [n \in Names |-> FALSE]
    /\ restarts = 0

Queued(n) ==
    \/ \E i \in DOMAIN mQueue : mQueue[i] = n
    \/ \E i \in DOMAIN mQueueInternal : mQueueInternal[i].name = n

NoteMixed(n) == mixed' = [mixed EXCEPT ![n] = @ \/ Queued(n)]

-----------------------------------------------------------------------------
(* The handlers *)

\* addScript: INSERT OR REPLACE, whose column active is TRUE by default, and the request
PutScript(n, c) ==
    /\ Len(mQueueInternal) < MaxQueue
    /\ db' = [db EXCEPT ![n] = "active"]
    /\ mQueueInternal' = Append(mQueueInternal, [name |-> n, put |-> c])
    /\ NoteMixed(n)
    /\ UNCHANGED <<mScripts, mQueue, restarts>>

\* DELETE: the answer does not wait for the execution
DeleteScript(n) ==
    /\ Len(mQueue) < MaxQueue
    /\ mQueue' = Append(mQueue, n)
    /\ NoteMixed(n)
    /\ UNCHANGED <<db, mScripts, mQueueInternal, restarts>>

\* UPDATE script SET active, which finds a row or not
UpdateActive(n, value) == db' = [db EXCEPT ![n] = IF @ = "none" THEN "none" ELSE value]

\* ChangeRequestActivateScript in mode SYNC
ActivateScript(n) ==
    /\ IF mScripts[n] = "none"
       THEN UNCHANGED <<db, mScripts>>
       ELSE /\ UpdateActive(n, "active")
            /\ mScripts' = [mScripts EXCEPT ![n] = IF @ = "DEACTIVATED" THEN "RUNNING" ELSE @]
    /\ NoteMixed(n)
    /\ UNCHANGED <<mQueue, mQueueInternal, restarts>>

BugDeactivateInMemory(n) ==
    /\ mScripts' = [mScripts EXCEPT ![n] = IF @ = "RUNNING" THEN "DEACTIVATED" ELSE @]
    /\ NoteMixed(n)
    /\ UNCHANGED <<db, mQueue, mQueueInternal, restarts>>

\* ChangeRequestDeactivateScript in mode SYNC
DeactivateScript(n) ==
    /\ IF mScripts[n] = "none"
       THEN UNCHANGED <<db, mScripts>>
       ELSE /\ UpdateActive(n, "inactive")
            /\ mScripts' = [mScripts EXCEPT ![n] = IF @ = "RUNNING" THEN "DEACTIVATED" ELSE @]
    /\ NoteMixed(n)
    /\ UNCHANGED <<mQueue, mQueueInternal, restarts>>

\* getScriptsInfo: what GET /scripts lists
Listed ==
    [n \in Names |-> CASE db[n] = "none" -> "absent"
                       [] db[n] # "none" /\ mScripts[n] = "none" -> "UNKNOWN"
                       [] OTHER -> mScripts[n]]

-----------------------------------------------------------------------------
(* The worker.  The queues are taken in either order: mQueueInternal is looked at after *)
(* each request from mQueue, and those of the broker's clients are among them.          *)

\* ChangeRequestAddScript: a container of that name is deleted first; status: how the
\* initialisation of the new one ends
ExecuteAddScript(status) ==
    /\ mQueueInternal # <<>>
    /\ mQueueInternal' = Tail(mQueueInternal)
    /\ mScripts' = [mScripts EXCEPT ![Head(mQueueInternal).name] = status]
    /\ UNCHANGED <<db, mQueue, mixed, restarts>>

\* ChangeRequestDeleteScript
ExecuteDeleteScript ==
    /\ mQueue # <<>>
    /\ mQueue' = Tail(mQueue)
    /\ mScripts' = [mScripts EXCEPT ![Head(mQueue)] = "none"]
    /\ db' = [db EXCEPT ![Head(mQueue)] = "none"]
    /\ UNCHANGED <<mQueueInternal, mixed, restarts>>

\* The broker is killed and started again
Restart ==
    /\ restarts < MaxRestarts
    /\ restarts' = restarts + 1
    /\ \E failing \in SUBSET Names : mScripts' = Load(db, failing)
    /\ mQueue' = <<>> /\ mQueueInternal' = <<>>
    /\ mixed' = [n \in Names |-> FALSE]
    /\ UNCHANGED db

-----------------------------------------------------------------------------
(* Properties *)

Agree(n) ==
    /\ db[n] = "none" <=> mScripts[n] = "none"
    /\ mScripts[n] = "RUNNING" => db[n] = "active"
    /\ mScripts[n] = "DEACTIVATED" => db[n] = "inactive"

(* Once its requests are executed a script is in the database if and only if it   *)
(* has a container, and with the same state, so that a restart brings back what   *)
(* was there; provided no request was made while another one was queued.          *)
StoreAgrees == \A n \in Names : Queued(n) \/ mixed[n] \/ Agree(n)

=============================================================================
