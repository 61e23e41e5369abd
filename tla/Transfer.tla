------------------------------ MODULE Transfer ------------------------------
(***************************************************************************)
(* Requests of UrlSessionClient: each runs in a coroutine that starts an   *)
(* NSURLSession task, parks until the task's completion block, which runs  *)
(* on another thread, hands it the outcome, and retries transport          *)
(* failures.  Meanwhile the owner of a request may ask it to stop or drop  *)
(* it, and set_config() replaces the session requests start their tasks    *)
(* on.  What Foundation does is the environment: a task that was resumed   *)
(* may complete, one that was cancelled does.                              *)
(***************************************************************************)
EXTENDS Naturals

CONSTANTS
    Requests,       \* requests made of the client
    Retries,        \* values of ClientConfig::max_retries
    MaxSwaps,       \* bound: number of set_config() calls
    Drops           \* TRUE: owners may destroy a parked request

ASSUME TransferAssumption ==
    /\ Retries \subseteq Nat
    /\ MaxSwaps \in Nat
    /\ Drops \in BOOLEAN

Sessions == 0..MaxSwaps
Answers == {"ok", "network", "cancelled"}

\* Where the coroutine is.  The last row is where it stays: "raised" is Foundation's
\* exception, "corrupt" a resumed coroutine whose frame had been destroyed.
Points == {"idle", "configured", "attempt", "create", "resume", "arm", "park", "parked",
           "woken", "decide"} \cup {"done", "dropped", "raised", "corrupt"}
Ended == {"done", "dropped", "raised", "corrupt"}

VARIABLES
    session,        \* impl_->session
    live,           \* sessions that have not been invalidated
    maxRetries,     \* impl_->max_retries
    config,         \* where set_config() is
    pc,             \* per request: where its coroutine is
    on,             \* argument session
    budget,         \* argument max_retries
    attempt,        \* perform_with_retry's attempt
    stop,           \* the stop_source, shared by every coroutine of the request
    stage,          \* TransferState::stage of the attempt
    result,         \* TransferState::result of the attempt
    task,           \* the NSURLSessionDataTask of the attempt
    block,          \* the completion block of that task
    got             \* what perform_once answered

clientVars == <<session, live, maxRetries, config>>
requestVars == <<on, budget, attempt>>
stateVars == <<stage, result, task, block>>
vars == <<clientVars, pc, requestVars, stop, stateVars, got>>

TypeOK ==
    /\ session \in Sessions
    /\ live \subseteq Sessions
    /\ maxRetries \in Retries
    /\ config \in {"idle", "swap", "invalidate"}
    /\ pc \in [Requests -> Points]
    /\ on \in [Requests -> Sessions]
    /\ budget \in [Requests -> Retries]
    /\ attempt \in [Requests -> Nat]
    /\ \A r \in Requests : attempt[r] <= budget[r]
    /\ stop \in [Requests -> BOOLEAN]
    /\ stage \in [Requests -> {"running", "suspended", "completed", "abandoned"}]
    /\ result \in [Requests -> {"empty"} \cup Answers]
    /\ task \in [Requests -> {"none", "created", "running", "cancelled", "over", "lost"}]
    /\ block \in [Requests -> {"none", "stored", "claimed", "over"}]
    /\ got \in [Requests -> {"empty"} \cup Answers]

Init ==
    /\ session = 0
    /\ live = {0}
    /\ maxRetries \in Retries
    /\ config = "idle"
    /\ pc = [r \in Requests |-> "idle"]
    /\ on = [r \in Requests |-> 0]
    /\ budget = [r \in Requests |-> maxRetries]
    /\ attempt = [r \in Requests |-> 0]
    /\ stop = [r \in Requests |-> FALSE]
    /\ stage = [r \in Requests |-> "running"]
    /\ result = [r \in Requests |-> "empty"]
    /\ task = [r \in Requests |-> "none"]
    /\ block = [r \in Requests |-> "none"]
    /\ got = [r \in Requests |-> "empty"]

Goto(r, point) == pc' = [pc EXCEPT ![r] = point]

-----------------------------------------------------------------------------
(* set_config(): callers take turns. *)

StoreRetries ==
    /\ config = "idle"
    /\ session < MaxSwaps
    /\ \E n \in Retries : maxRetries' = n
    /\ config' = "swap"
    /\ UNCHANGED <<session, live, pc, requestVars, stop, stateVars, got>>

ReplaceSession ==
    /\ config = "swap"
    /\ session' = session + 1
    /\ live' = live \cup {session + 1}
    /\ config' = "invalidate"
    /\ UNCHANGED <<maxRetries, pc, requestVars, stop, stateVars, got>>

\* finishTasksAndInvalidate: tasks already created run on, no new one may be created.
InvalidateOld ==
    /\ config = "invalidate"
    /\ live' = live \ {session - 1}
    /\ config' = "idle"
    /\ UNCHANGED <<session, maxRetries, pc, requestVars, stop, stateVars, got>>

ConfigNext == StoreRetries \/ ReplaceSession \/ InvalidateOld

-----------------------------------------------------------------------------
(* do_request() and perform_with_retry() *)

\* The session and the retry budget are read one after the other.
TakeSession(r) ==
    /\ pc[r] = "idle"
    /\ on' = [on EXCEPT ![r] = session]
    /\ Goto(r, "configured")
    /\ UNCHANGED <<clientVars, budget, attempt, stop, stateVars, got>>

TakeBudget(r) ==
    /\ pc[r] = "configured"
    /\ budget' = [budget EXCEPT ![r] = maxRetries]
    /\ Goto(r, "attempt")
    /\ UNCHANGED <<clientVars, on, attempt, stop, stateVars, got>>

\* A variant with "<" for "<=" in the loop over the attempts.
DecideOneFewer(r) ==
    /\ pc[r] = "decide"
    /\ IF got[r] = "network" /\ attempt[r] + 1 < budget[r]
         THEN attempt' = [attempt EXCEPT ![r] = @ + 1] /\ Goto(r, "attempt")
         ELSE Goto(r, "done") /\ UNCHANGED attempt
    /\ UNCHANGED <<clientVars, on, budget, stop, stateVars, got>>

\* A variant that reads the client's budget again.
DecideByCurrentBudget(r) ==
    /\ pc[r] = "decide"
    /\ IF got[r] = "network" /\ attempt[r] < maxRetries
         THEN attempt' = [attempt EXCEPT ![r] = @ + 1] /\ Goto(r, "attempt")
         ELSE Goto(r, "done") /\ UNCHANGED attempt
    /\ UNCHANGED <<clientVars, on, budget, stop, stateVars, got>>

\* A transport failure is retried while the budget lasts, nothing else is.
Decide(r) ==
    /\ pc[r] = "decide"
    /\ IF got[r] = "network" /\ attempt[r] < budget[r]
         THEN attempt' = [attempt EXCEPT ![r] = @ + 1] /\ Goto(r, "attempt")
         ELSE Goto(r, "done") /\ UNCHANGED attempt
    /\ UNCHANGED <<clientVars, on, budget, stop, stateVars, got>>

-----------------------------------------------------------------------------
(* perform_once() and TransferAwaiter *)

\* A variant that keeps the shared state of the attempt before.
BeginAttemptInOldState(r) ==
    /\ pc[r] = "attempt"
    /\ IF stop[r]
         THEN got' = [got EXCEPT ![r] = "cancelled"] /\ Goto(r, "decide")
         ELSE UNCHANGED got /\ Goto(r, "create")
    /\ task' = [task EXCEPT ![r] = "none"]
    /\ block' = [block EXCEPT ![r] = "none"]
    /\ UNCHANGED <<clientVars, requestVars, stop, stage, result>>

\* A stop that was requested by now is the answer; else a fresh TransferState is made.
BeginAttempt(r) ==
    /\ pc[r] = "attempt"
    /\ IF stop[r]
         THEN got' = [got EXCEPT ![r] = "cancelled"] /\ Goto(r, "decide")
         ELSE UNCHANGED got /\ Goto(r, "create")
    /\ stage' = [stage EXCEPT ![r] = "running"]
    /\ result' = [result EXCEPT ![r] = "empty"]
    /\ task' = [task EXCEPT ![r] = "none"]
    /\ block' = [block EXCEPT ![r] = "none"]
    /\ UNCHANGED <<clientVars, requestVars, stop>>

\* Foundation raises an exception for a task on an invalidated session.
CreateTask(r) ==
    /\ pc[r] = "create"
    /\ IF on[r] \in live
         THEN task' = [task EXCEPT ![r] = "created"] /\ Goto(r, "resume")
         ELSE UNCHANGED task /\ Goto(r, "raised")
    /\ UNCHANGED <<clientVars, requestVars, stop, stage, result, block, got>>

\* Cancelling a task: one that was never resumed need not complete, one that is
\* over stays over.
Cancelled(t) == CASE t = "created" -> "lost" [] t = "running" -> "cancelled" [] OTHER -> t

\* await_suspend(), in three steps, and a variant that cancels before it resumes.
ResumeTaskArmed(r) ==
    /\ pc[r] = "resume"
    /\ task' = [task EXCEPT ![r] = IF stop[r] THEN Cancelled(@) ELSE "running"]
    /\ Goto(r, "park")
    /\ UNCHANGED <<clientVars, requestVars, stop, stage, result, block, got>>

ResumeTask(r) ==
    /\ pc[r] = "resume"
    /\ task' = [task EXCEPT ![r] = "running"]
    /\ Goto(r, "arm")
    /\ UNCHANGED <<clientVars, requestVars, stop, stage, result, block, got>>

\* A stop_callback made of a stopped token runs at once.
ArmCancel(r) ==
    /\ pc[r] = "arm"
    /\ task' = [task EXCEPT ![r] = IF stop[r] THEN Cancelled(@) ELSE @]
    /\ Goto(r, "park")
    /\ UNCHANGED <<clientVars, requestVars, stop, stage, result, block, got>>

\* A variant that parks without looking whether the block was first.
ParkRegardless(r) ==
    /\ pc[r] = "park"
    /\ stage' = [stage EXCEPT ![r] = "suspended"]
    /\ Goto(r, "parked")
    /\ UNCHANGED <<clientVars, requestVars, stop, result, task, block, got>>

\* compare_exchange: whoever arrives second owns the resume.
Park(r) ==
    /\ pc[r] = "park"
    /\ IF stage[r] = "running"
         THEN stage' = [stage EXCEPT ![r] = "suspended"] /\ Goto(r, "parked")
         ELSE UNCHANGED stage /\ Goto(r, "woken")
    /\ UNCHANGED <<clientVars, requestVars, stop, result, task, block, got>>

\* await_resume(); then the awaiter goes out of scope: abandon() and cancel.
TakeResult(r) ==
    /\ pc[r] = "woken"
    /\ got' = [got EXCEPT ![r] = result[r]]
    /\ stage' = [stage EXCEPT ![r] = "abandoned"]
    /\ task' = [task EXCEPT ![r] = Cancelled(@)]
    /\ Goto(r, "decide")
    /\ UNCHANGED <<clientVars, requestVars, stop, result, block>>

-----------------------------------------------------------------------------
(* The task's completion block: TransferState::complete *)

\* The task ends by itself, and a cancelled one may have done so just before.
AnswerArrives(r) ==
    /\ task[r] \in {"running", "cancelled"}
    /\ \E a \in {"ok", "network"} : result' = [result EXCEPT ![r] = a]
    /\ task' = [task EXCEPT ![r] = "over"]
    /\ block' = [block EXCEPT ![r] = "stored"]
    /\ UNCHANGED <<clientVars, pc, requestVars, stop, stage, got>>

CancellationArrives(r) ==
    /\ task[r] = "cancelled"
    /\ result' = [result EXCEPT ![r] = "cancelled"]
    /\ task' = [task EXCEPT ![r] = "over"]
    /\ block' = [block EXCEPT ![r] = "stored"]
    /\ UNCHANGED <<clientVars, pc, requestVars, stop, stage, got>>

\* exchange(completed): only a coroutine that parked is owed a resume.
Exchange(r) ==
    /\ block[r] = "stored"
    /\ block' = [block EXCEPT ![r] = IF stage[r] = "suspended" THEN "claimed" ELSE "over"]
    /\ stage' = [stage EXCEPT ![r] = "completed"]
    /\ UNCHANGED <<clientVars, pc, requestVars, stop, result, task, got>>

\* handle.resume()
Wake(r) ==
    /\ block[r] = "claimed"
    /\ Goto(r, IF pc[r] = "parked" THEN "woken" ELSE "corrupt")
    /\ block' = [block EXCEPT ![r] = "over"]
    /\ UNCHANGED <<clientVars, requestVars, stop, stage, result, task, got>>

-----------------------------------------------------------------------------
(* The owner of a request *)

\* request_stop(): runs the stop_callback if there is one.
RequestStop(r) ==
    /\ pc[r] \notin Ended \cup {"idle"}
    /\ ~stop[r]
    /\ stop' = [stop EXCEPT ![r] = TRUE]
    /\ task' = [task EXCEPT ![r] = IF pc[r] \in {"park", "parked", "woken"} THEN Cancelled(@) ELSE @]
    /\ UNCHANGED <<clientVars, pc, requestVars, stage, result, block, got>>

\* ~CancellingTask destroys the parked coroutine, and with it the awaiter.
Drop(r) ==
    /\ Drops
    /\ pc[r] = "parked"
    /\ Goto(r, "dropped")
    /\ stage' = [stage EXCEPT ![r] = "abandoned"]
    /\ task' = [task EXCEPT ![r] = Cancelled(@)]
    /\ UNCHANGED <<clientVars, requestVars, stop, result, block, got>>

-----------------------------------------------------------------------------

CoroutineNext(r) ==
    \/ TakeBudget(r) \/ BeginAttempt(r) \/ CreateTask(r)
    \/ ResumeTask(r) \/ ArmCancel(r) \/ Park(r) \/ TakeResult(r) \/ Decide(r)

BlockNext(r) == Exchange(r) \/ Wake(r)

OwnerNext(r) == TakeSession(r) \/ RequestStop(r) \/ Drop(r)

Next ==
    \/ ConfigNext
    \/ \E r \in Requests :
         CoroutineNext(r) \/ BlockNext(r) \/ AnswerArrives(r) \/ CancellationArrives(r) \/ OwnerNext(r)

\* A started coroutine and a started block run on, and Foundation completes what was
\* cancelled.  Nothing says that a server ever answers, or that anyone stops waiting.
Fairness ==
    \A r \in Requests :
        /\ WF_vars(CoroutineNext(r))
        /\ WF_vars(BlockNext(r))
        /\ WF_vars(CancellationArrives(r))

Spec == Init /\ [][Next]_vars /\ Fairness

-----------------------------------------------------------------------------
(* Properties *)

\* What an attempt answers is what its own task ended with, or a stop requested
\* before it began: the coroutine never goes on with the empty response the shared
\* state starts with, nor while its task is still running, whichever of the two
\* sides of the handoff comes first.
AnswersFromItsOwnTask ==
    \A r \in Requests : pc[r] = "decide" =>
        \/ got[r] = "cancelled" /\ stop[r]
        \/ got[r] = result[r] /\ got[r] # "empty" /\ task[r] = "over"

\* What the contract of every client sees of a request: a request that Foundation
\* raised an exception for is left without an answer.
Unstarted == {"idle", "configured"}

Phase == [r \in Requests |->
    IF pc[r] \in Unstarted THEN "idle"
    ELSE IF pc[r] = "done" THEN got[r]
    ELSE IF pc[r] \in {"dropped", "corrupt"} THEN "dropped"
    ELSE "running"]

Allowed == [r \in Requests |-> IF pc[r] \in Unstarted THEN 0 ELSE budget[r]]

Contract == INSTANCE RequestContract WITH
    Budgets <- Retries,
    phase <- Phase, allowed <- Allowed, failures <- attempt,
    stopped <- {r \in Requests : stop[r]}

\* The client keeps the rules of every client: a transport failure is the answer after
\* exactly max_retries retries, by the value the request started with, whatever
\* set_config() stores meanwhile; an answer of the server is final; and a request is
\* only answered "cancelled" if its owner stopped it: the cancel in the awaiter's
\* destructor never turns into an answer, of this attempt or the next.
KeepsTheRules == Contract!Init /\ [][Contract!Next]_Contract!vars

\* A stopped request ends, though the server may never answer.
StopEnds == \A r \in Requests : stop[r] ~> pc[r] \in Ended

\* If every task is answered, every request ends: no wake-up is lost between the
\* coroutine that parks and the block that completes.
RequestsEnd ==
    (\A r \in Requests : WF_vars(AnswerArrives(r))) =>
        \A r \in Requests : pc[r] # "idle" ~> pc[r] \in Ended

\* "so a late completion resumes nothing" (UrlSessionClient.mm:187).
NoWakeAfterDrop == \A r \in Requests : pc[r] # "corrupt"

\* "requests already in flight keep the configuration they were started with"
\* (ClientContext.hpp:175): they can start their tasks on the session they took.
SessionServesItsRequests == \A r \in Requests : pc[r] # "raised"

=============================================================================
