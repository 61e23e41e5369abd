--------------------------- MODULE TransferProofs ---------------------------
(***************************************************************************)
(* Proofs about Transfer, for any number of requests, retries and          *)
(* set_config() calls.  The argument is the handoff between a coroutine    *)
(* and the completion block of its task: at each point of the coroutine,   *)
(* what the task, the block and the shared state can be.                   *)
(***************************************************************************)
EXTENDS Transfer, TLAPS

\* No task of the request can still complete.
Quiet(r) == task[r] \in {"none", "over"} /\ block[r] \in {"none", "over"}

\* A fresh TransferState, before its task was resumed.
Fresh(r) == stage[r] = "running" /\ result[r] = "empty" /\ block[r] = "none"

\* The coroutine waits for its task or is about to: the task runs, or its block has
\* stored the result, or has made the exchange and owes a parked coroutine a resume.
InFlight(r) ==
    LET waiting == IF pc[r] = "parked" THEN "suspended" ELSE "running"
        owed == IF pc[r] = "parked" THEN "claimed" ELSE "over"
    IN
    \/ task[r] \in {"running", "cancelled"} /\ block[r] = "none" /\ stage[r] = waiting
    \/ task[r] = "over" /\ result[r] \in Answers /\ block[r] = "stored" /\ stage[r] = waiting
    \/ task[r] = "over" /\ result[r] \in Answers /\ block[r] = owed /\ stage[r] = "completed"

Handoff(r) ==
    /\ pc[r] \in {"idle", "configured", "attempt", "decide", "done", "raised"} => Quiet(r)
    /\ pc[r] = "create" => task[r] = "none" /\ Fresh(r)
    /\ pc[r] = "resume" => task[r] = "created" /\ Fresh(r)
    /\ pc[r] \in {"arm", "park", "parked"} => InFlight(r)
    /\ pc[r] = "woken" => task[r] = "over" /\ block[r] = "over" /\ result[r] \in Answers

\* Only a stop cancels a task, as long as somebody waits for it.
StopCancels(r) ==
    /\ pc[r] \notin {"dropped", "corrupt"} =>
         (task[r] = "cancelled" \/ result[r] = "cancelled" => stop[r])
    /\ got[r] = "cancelled" => stop[r]

Answered(r) ==
    pc[r] = "decide" =>
        \/ got[r] = "cancelled" /\ stop[r]
        \/ got[r] = result[r] /\ got[r] # "empty" /\ task[r] = "over"

Attempts(r) ==
    /\ pc[r] \in {"idle", "configured"} => attempt[r] = 0
    /\ pc[r] = "done" /\ got[r] = "network" => attempt[r] = budget[r]

RInv(r) == Handoff(r) /\ StopCancels(r) /\ Answered(r) /\ Attempts(r)

\* set_config() only begins below the bound.
ConfigAhead == config = "swap" => session < MaxSwaps

IInv == TypeOK /\ ConfigAhead /\ \A r \in Requests : RInv(r)

-----------------------------------------------------------------------------

\* The initial state satisfies the invariant.
LEMMA InitInv == Init => IInv
BY TransferAssumption DEF Init, IInv, ConfigAhead, RInv, Handoff, Quiet, StopCancels, Answered, Attempts,
   TypeOK, Sessions, Points, Answers

\* set_config() touches no request.
LEMMA ConfigStep == ASSUME IInv, ConfigNext PROVE IInv'
<1>1. TypeOK'
  <2> USE TransferAssumption DEF IInv, TypeOK, requestVars, stateVars
  <2>1. CASE StoreRetries
    BY <2>1 DEF StoreRetries
  <2>2. CASE ReplaceSession
    <3>1. session + 1 \in Sessions
      BY <2>2 DEF ReplaceSession, ConfigAhead, Sessions
    <3> QED BY <2>2, <3>1 DEF ReplaceSession
  <2>3. CASE InvalidateOld
    BY <2>3 DEF InvalidateOld
  <2> QED BY <2>1, <2>2, <2>3 DEF ConfigNext
<1>2. UNCHANGED <<pc, attempt, budget, stop, stage, result, task, block, got>>
  BY DEF ConfigNext, StoreRetries, ReplaceSession, InvalidateOld, requestVars, stateVars
<1>3. ASSUME NEW r \in Requests PROVE RInv(r)'
  <2>1. RInv(r)
    BY DEF IInv
  <2> QED BY <2>1, <1>2 DEF RInv, Handoff, Quiet, Fresh, InFlight, StopCancels, Answered, Attempts
<1>4. ConfigAhead'
  BY DEF IInv, ConfigAhead, ConfigNext, StoreRetries, ReplaceSession, InvalidateOld
<1> QED BY <1>1, <1>3, <1>4 DEF IInv

RequestNext(r) ==
    CoroutineNext(r) \/ BlockNext(r) \/ AnswerArrives(r) \/ CancellationArrives(r) \/ OwnerNext(r)

\* The attempts are numbers up to the budget.
LEMMA Counted ==
    ASSUME IInv, NEW r \in Requests
    PROVE  attempt[r] \in Nat /\ budget[r] \in Nat /\ attempt[r] <= budget[r]
<1>1. attempt[r] \in Nat /\ budget[r] \in Retries /\ attempt[r] <= budget[r]
  BY DEF IInv, TypeOK
<1> QED BY <1>1, TransferAssumption

\* Every step of a request keeps the types.
LEMMA RequestTypes == ASSUME IInv, NEW r \in Requests, RequestNext(r) PROVE TypeOK'
<1> USE TransferAssumption DEF IInv, TypeOK, Goto, requestVars, stateVars, clientVars, Points, Answers
<1>1. CASE TakeSession(r)
  BY <1>1 DEF TakeSession
<1>2. CASE TakeBudget(r)
  <2>1. attempt[r] = 0
    BY <1>2 DEF TakeBudget, RInv, Attempts
  <2> QED BY <1>2, <2>1 DEF TakeBudget
<1>3. CASE BeginAttempt(r)
  BY <1>3 DEF BeginAttempt
<1>4. CASE CreateTask(r)
  BY <1>4 DEF CreateTask
<1>5. CASE ResumeTask(r)
  BY <1>5 DEF ResumeTask
<1>6. CASE ArmCancel(r)
  BY <1>6 DEF ArmCancel, Cancelled
<1>7. CASE Park(r)
  BY <1>7 DEF Park
<1>8. CASE TakeResult(r)
  BY <1>8 DEF TakeResult, Cancelled
<1>9. CASE Decide(r)
  <2>1. CASE got[r] = "network" /\ attempt[r] < budget[r]
    <3>1. attempt' = [attempt EXCEPT ![r] = @ + 1] /\ pc' = [pc EXCEPT ![r] = "attempt"]
      BY <1>9, <2>1 DEF Decide
    <3>2. attempt[r] + 1 <= budget[r] /\ attempt[r] + 1 \in Nat
      BY <2>1, Counted
    <3> QED BY <1>9, <3>1, <3>2 DEF Decide
  <2>2. CASE ~(got[r] = "network" /\ attempt[r] < budget[r])
    <3>1. attempt' = attempt /\ pc' = [pc EXCEPT ![r] = "done"]
      BY <1>9, <2>2 DEF Decide
    <3>2. got[r] = "network" => attempt[r] = budget[r]
      BY <2>2, Counted
    <3> QED BY <1>9, <3>1, <3>2 DEF Decide
  <2> QED BY <2>1, <2>2
<1>10. CASE Exchange(r)
  BY <1>10 DEF Exchange
<1>11. CASE Wake(r)
  BY <1>11 DEF Wake
<1>12. CASE AnswerArrives(r)
  BY <1>12 DEF AnswerArrives
<1>13. CASE CancellationArrives(r)
  BY <1>13 DEF CancellationArrives
<1>14. CASE RequestStop(r)
  BY <1>14 DEF RequestStop, Cancelled
<1>15. CASE Drop(r)
  BY <1>15 DEF Drop, Cancelled
<1> HIDE DEF IInv, TypeOK, Goto, requestVars, stateVars, clientVars, Points, Answers
<1> QED BY <1>1, <1>2, <1>3, <1>4, <1>5, <1>6, <1>7, <1>8, <1>9, <1>10, <1>11, <1>12, <1>13, <1>14, <1>15
        DEF RequestNext, CoroutineNext, BlockNext, OwnerNext

\* A step of a request keeps what the invariant says of it.
LEMMA OwnStep == ASSUME IInv, NEW r \in Requests, RequestNext(r) PROVE RInv(r)'
<1> USE DEF IInv, TypeOK, RInv, Handoff, Quiet, Fresh, InFlight, StopCancels, Answered, Attempts,
            Goto, requestVars, stateVars, Answers
<1>1. CASE TakeSession(r)
  BY <1>1 DEF TakeSession
<1>2. CASE TakeBudget(r)
  BY <1>2 DEF TakeBudget
<1>3. CASE BeginAttempt(r)
  BY <1>3 DEF BeginAttempt
<1>4. CASE CreateTask(r)
  BY <1>4 DEF CreateTask
<1>5. CASE ResumeTask(r)
  BY <1>5 DEF ResumeTask
<1>6. CASE ArmCancel(r)
  BY <1>6 DEF ArmCancel, Cancelled
<1>7. CASE Park(r)
  BY <1>7 DEF Park
<1>8. CASE TakeResult(r)
  BY <1>8 DEF TakeResult, Cancelled
<1>9. CASE Decide(r)
  <2>1. CASE got[r] = "network" /\ attempt[r] < budget[r]
    <3>1. attempt' = [attempt EXCEPT ![r] = @ + 1] /\ pc' = [pc EXCEPT ![r] = "attempt"]
      BY <1>9, <2>1 DEF Decide
    <3>2. attempt[r] + 1 <= budget[r] /\ attempt[r] + 1 \in Nat
      BY <2>1, Counted
    <3> QED BY <1>9, <3>1, <3>2 DEF Decide
  <2>2. CASE ~(got[r] = "network" /\ attempt[r] < budget[r])
    <3>1. attempt' = attempt /\ pc' = [pc EXCEPT ![r] = "done"]
      BY <1>9, <2>2 DEF Decide
    <3>2. got[r] = "network" => attempt[r] = budget[r]
      BY <2>2, Counted
    <3> QED BY <1>9, <3>1, <3>2 DEF Decide
  <2> QED BY <2>1, <2>2
<1>10. CASE Exchange(r)
  BY <1>10 DEF Exchange
<1>11. CASE Wake(r)
  BY <1>11 DEF Wake
<1>12. CASE AnswerArrives(r)
  BY <1>12 DEF AnswerArrives
<1>13. CASE CancellationArrives(r)
  BY <1>13 DEF CancellationArrives
<1>14. CASE RequestStop(r)
  BY <1>14 DEF RequestStop, Cancelled, Ended
<1>15. CASE Drop(r)
  BY <1>15 DEF Drop, Cancelled
<1> HIDE DEF IInv, TypeOK, RInv, Handoff, Quiet, Fresh, InFlight, StopCancels, Answered, Attempts,
             Goto, requestVars, stateVars, Answers
<1> QED BY <1>1, <1>2, <1>3, <1>4, <1>5, <1>6, <1>7, <1>8, <1>9, <1>10, <1>11, <1>12, <1>13, <1>14, <1>15
        DEF RequestNext, CoroutineNext, BlockNext, OwnerNext

\* ... and changes nothing of any other request.
LEMMA OtherStep ==
    ASSUME IInv, NEW r \in Requests, NEW q \in Requests, q # r, RequestNext(r)
    PROVE  RInv(q)'
<1>1. /\ pc'[q] = pc[q] /\ attempt'[q] = attempt[q] /\ budget'[q] = budget[q] /\ stop'[q] = stop[q]
      /\ stage'[q] = stage[q] /\ result'[q] = result[q] /\ task'[q] = task[q]
      /\ block'[q] = block[q] /\ got'[q] = got[q]
  BY DEF IInv, TypeOK, RequestNext, CoroutineNext, BlockNext, OwnerNext, TakeSession, TakeBudget,
     BeginAttempt, CreateTask, ResumeTask, ArmCancel, Park, TakeResult, Decide, Exchange, Wake,
     AnswerArrives, CancellationArrives, RequestStop, Drop, Goto, requestVars, stateVars
<1> QED BY <1>1 DEF IInv, RInv, Handoff, Quiet, Fresh, InFlight, StopCancels, Answered, Attempts

\* The invariant of Transfer.
THEOREM Invariance == Spec => []IInv
<1>1. ASSUME IInv, [Next]_vars PROVE IInv'
  <2>1. CASE ConfigNext
    BY <1>1, <2>1, ConfigStep
  <2>2. ASSUME NEW r \in Requests, RequestNext(r) PROVE IInv'
    <3>1. TypeOK' BY <1>1, <2>2, RequestTypes
    <3>2. RInv(r)' BY <1>1, <2>2, OwnStep
    <3>3. \A q \in Requests : q # r => RInv(q)' BY <1>1, <2>2, OtherStep
    <3>4. ConfigAhead'
      BY <1>1, <2>2 DEF IInv, ConfigAhead, RequestNext, CoroutineNext, BlockNext, OwnerNext,
         TakeSession, TakeBudget, BeginAttempt, CreateTask, ResumeTask, ArmCancel, Park,
         TakeResult, Decide, Exchange, Wake, AnswerArrives, CancellationArrives, RequestStop,
         Drop, clientVars
    <3> QED BY <3>1, <3>2, <3>3, <3>4 DEF IInv
  <2>3. CASE UNCHANGED vars
    BY <1>1, <2>3 DEF vars, IInv, ConfigAhead, TypeOK, RInv, Handoff, Quiet, Fresh, InFlight, StopCancels,
       Answered, Attempts, requestVars, stateVars, clientVars
  <2> QED BY <1>1, <2>1, <2>2, <2>3 DEF Next, RequestNext
<1> QED BY <1>1, InitInv, PTL DEF Spec

\* The variables keep their types, and no request makes more attempts than its
\* budget allows.
THEOREM TypeCorrect == Spec => []TypeOK
<1>1. IInv => TypeOK BY DEF IInv
<1> QED BY <1>1, Invariance, PTL

\* An attempt answers with what its own task ended with.
THEOREM AnswersAreOwn == Spec => []AnswersFromItsOwnTask
<1>1. IInv => AnswersFromItsOwnTask BY DEF IInv, RInv, Answered, AnswersFromItsOwnTask
<1> QED BY <1>1, Invariance, PTL

-----------------------------------------------------------------------------
(* The rules of every client *)

Stopped == {r \in Requests : stop[r]}

\* What the contract sees of a request in the next state.
LEMMA NextPhaseIs ==
  ASSUME NEW r \in Requests
  PROVE  /\ Phase'[r] = IF pc'[r] \in Unstarted THEN "idle"
                        ELSE IF pc'[r] = "done" THEN got'[r]
                        ELSE IF pc'[r] \in {"dropped", "corrupt"} THEN "dropped"
                        ELSE "running"
         /\ Allowed'[r] = IF pc'[r] \in Unstarted THEN 0 ELSE budget'[r]
BY DEF Phase, Allowed

\* What the contract sees of it now.
LEMMA PhaseIs ==
  ASSUME NEW r \in Requests
  PROVE  /\ Phase[r] = IF pc[r] \in Unstarted THEN "idle"
                       ELSE IF pc[r] = "done" THEN got[r]
                       ELSE IF pc[r] \in {"dropped", "corrupt"} THEN "dropped"
                       ELSE "running"
         /\ Allowed[r] = IF pc[r] \in Unstarted THEN 0 ELSE budget[r]
BY DEF Phase, Allowed

\* The functions are what their values make them.
LEMMA Extensionality ==
  ASSUME NEW r \in Requests, NEW p, NEW n,
         Phase'[r] = p, Allowed'[r] = n,
         \A q \in Requests : q # r => Phase'[q] = Phase[q] /\ Allowed'[q] = Allowed[q]
  PROVE  /\ Phase' = [Phase EXCEPT ![r] = p]
         /\ Allowed' = [Allowed EXCEPT ![r] = n]
         /\ p = Phase[r] => Phase' = Phase
         /\ n = Allowed[r] => Allowed' = Allowed
<1>1. /\ Phase = [q \in Requests |-> Phase[q]]
      /\ Allowed = [q \in Requests |-> Allowed[q]]
  BY DEF Phase, Allowed
<1>2. /\ Phase' = [q \in Requests |-> Phase'[q]]
      /\ Allowed' = [q \in Requests |-> Allowed'[q]]
  BY DEF Phase, Allowed
<1> QED BY <1>1, <1>2

\* A step of a request changes what the contract sees of that request only.
LEMMA OthersAreSeenAlike ==
  ASSUME IInv, NEW r \in Requests, RequestNext(r)
  PROVE  \A q \in Requests : q # r => Phase'[q] = Phase[q] /\ Allowed'[q] = Allowed[q]
<1> SUFFICES ASSUME NEW q \in Requests, q # r
             PROVE  Phase'[q] = Phase[q] /\ Allowed'[q] = Allowed[q]
  OBVIOUS
<1>1. pc'[q] = pc[q] /\ got'[q] = got[q] /\ budget'[q] = budget[q]
  BY DEF IInv, TypeOK, RequestNext, CoroutineNext, BlockNext, OwnerNext, TakeSession, TakeBudget,
     BeginAttempt, CreateTask, ResumeTask, ArmCancel, Park, TakeResult, Decide, Exchange, Wake,
     AnswerArrives, CancellationArrives, RequestStop, Drop, Goto, requestVars, stateVars
<1> QED BY <1>1, PhaseIs, NextPhaseIs

\* The steps the contract does not see: everything between two attempts' decisions.
Hidden(r) ==
    \/ TakeSession(r) \/ BeginAttempt(r) \/ CreateTask(r) \/ ResumeTask(r) \/ ArmCancel(r)
    \/ Park(r) \/ TakeResult(r) \/ Exchange(r) \/ Wake(r) \/ AnswerArrives(r)
    \/ CancellationArrives(r)

\* They leave a request as the contract sees it.
LEMMA HiddenStep ==
  ASSUME IInv, NEW r \in Requests, Hidden(r)
  PROVE  UNCHANGED Contract!vars
<1>1. UNCHANGED <<attempt, budget, stop>>
  BY DEF Hidden, TakeSession, BeginAttempt, CreateTask, ResumeTask, ArmCancel, Park, TakeResult,
     Exchange, Wake, AnswerArrives, CancellationArrives, requestVars
<1>2. \/ pc[r] \in Unstarted /\ pc'[r] \in Unstarted
      \/ pc[r] \in {"dropped", "corrupt"} /\ pc'[r] \in {"dropped", "corrupt"}
      \/ pc[r] = "done" /\ pc'[r] = "done" /\ got'[r] = got[r]
      \/ /\ pc[r] \notin Unstarted \cup {"done", "dropped", "corrupt"}
         /\ pc'[r] \notin Unstarted \cup {"done", "dropped", "corrupt"}
  <2> USE DEF Unstarted, Goto, Points, IInv, TypeOK
  <2>1. CASE TakeSession(r)
    BY <2>1 DEF TakeSession
  <2>2. CASE BeginAttempt(r)
    BY <2>2 DEF BeginAttempt
  <2>3. CASE CreateTask(r) \/ ResumeTask(r) \/ ArmCancel(r)
    BY <2>3 DEF CreateTask, ResumeTask, ArmCancel
  <2>4. CASE Park(r) \/ TakeResult(r)
    BY <2>4 DEF Park, TakeResult
  <2>5. CASE Exchange(r) \/ AnswerArrives(r) \/ CancellationArrives(r)
    BY <2>5 DEF Exchange, AnswerArrives, CancellationArrives
  <2>6. CASE Wake(r)
    BY <2>6 DEF Wake, RInv, Handoff, InFlight, Quiet, Fresh
  <2> QED BY <2>1, <2>2, <2>3, <2>4, <2>5, <2>6 DEF Hidden
<1>3. Phase'[r] = Phase[r] /\ Allowed'[r] = Allowed[r]
  <2> DEFINE Seen(p, g) == IF p \in Unstarted THEN "idle"
                           ELSE IF p = "done" THEN g
                           ELSE IF p \in {"dropped", "corrupt"} THEN "dropped"
                           ELSE "running"
  <2>1. Seen(pc'[r], got'[r]) = Seen(pc[r], got[r]) /\ (pc'[r] \in Unstarted <=> pc[r] \in Unstarted)
    BY <1>2 DEF Unstarted
  <2>2. Phase[r] = Seen(pc[r], got[r]) /\ Phase'[r] = Seen(pc'[r], got'[r])
    BY PhaseIs, NextPhaseIs
  <2>3. Allowed'[r] = Allowed[r]
    BY <1>1, <2>1, PhaseIs, NextPhaseIs
  <2> QED BY <2>1, <2>2, <2>3
<1>4. RequestNext(r)
  BY DEF Hidden, RequestNext, CoroutineNext, BlockNext, OwnerNext
<1>5. Phase' = Phase /\ Allowed' = Allowed
  BY <1>3, <1>4, OthersAreSeenAlike, Extensionality
<1> QED BY <1>1, <1>5 DEF Contract!vars

\* set_config() is none of the contract's business.
LEMMA ConfigContract == ASSUME ConfigNext PROVE UNCHANGED Contract!vars
<1>1. UNCHANGED <<pc, attempt, budget, stop, got>>
  BY DEF ConfigNext, StoreRetries, ReplaceSession, InvalidateOld, requestVars, stateVars
<1> QED BY <1>1 DEF Contract!vars, Phase, Allowed

\* The end of an attempt retries the request or answers it.
LEMMA DecideContract == ASSUME IInv, NEW r \in Requests, Decide(r) PROVE Contract!Next
<1>1. RequestNext(r)
  BY DEF RequestNext, CoroutineNext
<1>2. /\ pc[r] = "decide" /\ UNCHANGED <<budget, stop, got>>
      /\ pc \in [Requests -> Points]
  BY DEF Decide, IInv, TypeOK, stateVars
<1>3. Phase[r] = "running" /\ Allowed[r] = budget[r]
  BY <1>2, PhaseIs DEF Unstarted
<1>4. CASE got[r] = "network" /\ attempt[r] < budget[r]
  <2>1. pc'[r] = "attempt" /\ attempt' = [attempt EXCEPT ![r] = @ + 1]
    BY <1>2, <1>4 DEF Decide, Goto
  <2>2. Phase'[r] = Phase[r] /\ Allowed'[r] = Allowed[r]
    BY <1>2, <1>3, <2>1, NextPhaseIs DEF Unstarted
  <2>3. Phase' = Phase /\ Allowed' = Allowed
    BY <1>1, <2>2, OthersAreSeenAlike, Extensionality
  <2>4. Contract!Retry(r)
    BY <1>2, <1>3, <1>4, <2>1, <2>3 DEF Contract!Retry
  <2> QED BY <2>4 DEF Contract!Next
<1>5. CASE ~(got[r] = "network" /\ attempt[r] < budget[r])
  <2>1. pc'[r] = "done" /\ attempt' = attempt
    BY <1>2, <1>5 DEF Decide, Goto
  <2>2. Phase'[r] = got[r] /\ Allowed'[r] = Allowed[r]
    BY <1>2, <1>3, <2>1, NextPhaseIs DEF Unstarted
  <2>3. Phase' = [Phase EXCEPT ![r] = got[r]] /\ Allowed' = Allowed
    BY <1>1, <2>2, OthersAreSeenAlike, Extensionality
  <2>4. got[r] \in Answers
    BY <1>2 DEF IInv, TypeOK, RInv, Answered
  <2>5. CASE got[r] = "network"
    <3>1. attempt[r] = Allowed[r]
      BY <1>3, <1>5, <2>5, Counted
    <3> QED BY <1>2, <1>3, <2>1, <2>3, <2>5, <3>1 DEF Contract!Next, Contract!Fail, Contract!Enter
  <2>6. CASE got[r] = "ok"
    BY <1>2, <1>3, <2>1, <2>3, <2>6 DEF Contract!Next, Contract!Answer, Contract!Enter
  <2>7. CASE got[r] = "cancelled"
    <3>1. stop[r]
      BY <2>7 DEF IInv, RInv, StopCancels
    <3> QED BY <1>2, <1>3, <2>1, <2>3, <2>7, <3>1 DEF Contract!Next, Contract!Cancel, Contract!Enter
  <2> QED BY <2>4, <2>5, <2>6, <2>7 DEF Answers
<1> QED BY <1>4, <1>5

\* One step of a request is one of the contract's, or none.
LEMMA RequestContractStep ==
  ASSUME IInv, NEW r \in Requests, RequestNext(r)
  PROVE  [Contract!Next]_Contract!vars
<1>1. CASE Hidden(r)
  BY <1>1, HiddenStep
<1>2. CASE Decide(r)
  BY <1>2, DecideContract
<1>3. CASE TakeBudget(r)
  <2>1. /\ pc[r] = "configured" /\ pc'[r] = "attempt" /\ UNCHANGED <<attempt, stop>>
        /\ budget'[r] \in Retries
    BY <1>3 DEF TakeBudget, Goto, IInv, TypeOK
  <2>2. Phase[r] = "idle" /\ Phase'[r] = "running" /\ Allowed'[r] = budget'[r]
    BY <2>1, PhaseIs, NextPhaseIs DEF Unstarted
  <2>3. Phase' = [Phase EXCEPT ![r] = "running"] /\ Allowed' = [Allowed EXCEPT ![r] = budget'[r]]
    BY <2>2, OthersAreSeenAlike, Extensionality
  <2> QED BY <2>1, <2>2, <2>3 DEF Contract!Next, Contract!Start, Contract!Enter
<1>4. CASE RequestStop(r)
  <2>1. UNCHANGED <<pc, attempt, budget, got>> /\ stop' = [stop EXCEPT ![r] = TRUE]
    BY <1>4 DEF RequestStop, requestVars
  <2>2. Phase' = Phase /\ Allowed' = Allowed
    BY <2>1 DEF Phase, Allowed
  <2>3. Stopped' = Stopped \cup {r}
    BY <2>1 DEF Stopped, IInv, TypeOK
  <2> QED BY <2>1, <2>2, <2>3 DEF Contract!Next, Contract!Stop, Stopped
<1>5. CASE Drop(r)
  <2>1. pc[r] = "parked" /\ pc'[r] = "dropped" /\ UNCHANGED <<attempt, budget, stop>>
    BY <1>5 DEF Drop, Goto, requestVars, IInv, TypeOK
  <2>2. Phase[r] = "running" /\ Phase'[r] = "dropped" /\ Allowed'[r] = Allowed[r]
    BY <2>1, PhaseIs, NextPhaseIs DEF Unstarted
  <2>3. Phase' = [Phase EXCEPT ![r] = "dropped"] /\ Allowed' = Allowed
    BY <2>2, OthersAreSeenAlike, Extensionality
  <2> QED BY <2>1, <2>2, <2>3 DEF Contract!Next, Contract!Drop, Contract!Enter
<1> QED BY <1>1, <1>2, <1>3, <1>4, <1>5 DEF RequestNext, CoroutineNext, BlockNext, OwnerNext, Hidden

\* The initial state is one of the contract's.
LEMMA InitContract == ASSUME Init PROVE Contract!Init
<1>1. \A r \in Requests : pc[r] = "idle" /\ ~stop[r]
  BY DEF Init
<1>2. Phase = [r \in Requests |-> "idle"]
  BY <1>1 DEF Phase, Unstarted
<1>3. Allowed = [r \in Requests |-> 0]
  BY <1>1 DEF Allowed, Unstarted
<1> QED BY <1>1, <1>2, <1>3 DEF Init, Contract!Init

\* The URLSession client implements the contract of every client: it retries a
\* transport failure exactly as often as it was allowed, passes an answer of the server
\* on at once, and ends cancelled only when its owner stopped it.
THEOREM RulesAreKept == Spec => KeepsTheRules
<1>1. Init => Contract!Init
  BY InitContract
<1>2. IInv /\ [Next]_vars => [Contract!Next]_Contract!vars
  <2> SUFFICES ASSUME IInv, [Next]_vars PROVE [Contract!Next]_Contract!vars
    OBVIOUS
  <2>1. CASE ConfigNext
    BY <2>1, ConfigContract
  <2>2. ASSUME NEW r \in Requests, RequestNext(r) PROVE [Contract!Next]_Contract!vars
    BY <2>2, RequestContractStep
  <2>3. CASE UNCHANGED vars
    BY <2>3 DEF vars, requestVars, stateVars, Contract!vars, Phase, Allowed
  <2> QED BY <2>1, <2>2, <2>3 DEF Next, RequestNext
<1> QED BY <1>1, <1>2, Invariance, PTL DEF Spec, KeepsTheRules

=============================================================================
