-------------------------- MODULE RequestContract --------------------------
(***************************************************************************)
(* What do_request() of any client promises (ClientContext.hpp:112, 140):  *)
(* a transport failure is retried max_retries times before it is the       *)
(* answer, an answer of the server is final, and a request ends cancelled  *)
(* only if its owner stopped it, and then soon.                            *)
(***************************************************************************)
EXTENDS Naturals

CONSTANTS
    Requests,
    Budgets         \* numbers of retries a client can be configured with

VARIABLES
    phase,          \* per request: "idle", "running" or its answer
    allowed,        \* the retries it may make
    failures,       \* the retries it has made
    stopped         \* the requests whose owners asked them to stop

vars == <<phase, allowed, failures, stopped>>

Init ==
    /\ phase = [r \in Requests |-> "idle"]
    /\ allowed = [r \in Requests |-> 0]
    /\ failures = [r \in Requests |-> 0]
    /\ stopped = {}

Enter(r, next) == phase' = [phase EXCEPT ![r] = next]

Start(r) ==
    /\ phase[r] = "idle"
    /\ Enter(r, "running")
    /\ \E n \in Budgets : allowed' = [allowed EXCEPT ![r] = n]
    /\ UNCHANGED <<failures, stopped>>

\* It cannot be made: the client does not know its method, or its form is malformed.
Refuse(r) ==
    /\ phase[r] = "idle"
    /\ Enter(r, "refused")
    /\ UNCHANGED <<allowed, failures, stopped>>

Retry(r) ==
    /\ phase[r] = "running"
    /\ failures[r] < allowed[r]
    /\ failures' = [failures EXCEPT ![r] = @ + 1]
    /\ UNCHANGED <<phase, allowed, stopped>>

Fail(r) ==
    /\ phase[r] = "running"
    /\ failures[r] = allowed[r]
    /\ Enter(r, "network")
    /\ UNCHANGED <<allowed, failures, stopped>>

Answer(r) ==
    /\ phase[r] = "running"
    /\ Enter(r, "ok")
    /\ UNCHANGED <<allowed, failures, stopped>>

Stop(r) ==
    /\ stopped' = stopped \cup {r}
    /\ UNCHANGED <<phase, allowed, failures>>

Cancel(r) ==
    /\ phase[r] = "running"
    /\ r \in stopped
    /\ Enter(r, "cancelled")
    /\ UNCHANGED <<allowed, failures, stopped>>

\* Its owner destroys it.
Drop(r) ==
    /\ phase[r] = "running"
    /\ Enter(r, "dropped")
    /\ UNCHANGED <<allowed, failures, stopped>>

Next ==
    \E r \in Requests :
        \/ Start(r) \/ Refuse(r) \/ Retry(r) \/ Fail(r)
        \/ Answer(r) \/ Stop(r) \/ Cancel(r) \/ Drop(r)

Spec == Init /\ [][Next]_vars /\ \A r \in Requests : WF_vars(Cancel(r))

=============================================================================
