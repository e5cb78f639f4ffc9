------------------------------- MODULE Executor -------------------------------
(***************************************************************************)
(* What ApplicationState::requestChange promises to the threads that call  *)
(* it, without locks, modes or queues: a request is outstanding from the   *)
(* call on, each request is executed once, and the ordered requests of one *)
(* thread are executed in the order in which that thread made them.        *)
(***************************************************************************)
EXTENDS Naturals, Sequences

CONSTANT Owners         \* the threads that make requests

VARIABLES
    outstanding,        \* the requests made and not yet executed
    executed,           \* the requests executed, in order
    issued              \* number of requests made; they are numbered in that order

vars == <<outstanding, executed, issued>>

\* requestChange is called; whether the order is kept is a matter of the kind of request
Issue(t, ordered) ==
    /\ issued' = issued + 1
    /\ outstanding' = outstanding \cup {[id |-> issued + 1, owner |-> t, ordered |-> ordered]}
    /\ UNCHANGED executed

\* The change is made.  No older request of the same thread is overtaken
Execute(r) ==
    /\ \A q \in outstanding : r.ordered /\ q.ordered /\ q.owner = r.owner => r.id <= q.id
    /\ outstanding' = outstanding \ {r}
    /\ executed' = Append(executed, r)
    /\ UNCHANGED issued

Init == outstanding = {} /\ executed = <<>> /\ issued = 0

Next ==
    \/ \E t \in Owners, ordered \in BOOLEAN : Issue(t, ordered)
    \/ \E r \in outstanding : Execute(r)

Spec == Init /\ [][Next]_vars
=============================================================================
