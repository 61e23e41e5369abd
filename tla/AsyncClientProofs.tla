------------------------- MODULE AsyncClientProofs -------------------------
(***************************************************************************)
(* Proofs about AsyncClient, for any number of requests, retries and       *)
(* set_config() calls: types, that a configuration affects the requests    *)
(* started after it, and that the client keeps the rules of                *)
(* RequestContract.                                                        *)
(***************************************************************************)
EXTENDS AsyncClient, TLAPS

Busy(c) == step[c] # "idle"

\* A caller that is at work stores the newest configuration, and it alone does.
OneAtATime ==
    /\ \A c, d \in Callers : Busy(c) /\ Busy(d) => c = d
    /\ \A c \in Callers : Busy(c) => call[c] = made
    /\ \A c \in Callers : step[c] = "retries" => session = made
    /\ session <= made

\* What is stored is never older than what has returned.
NewerThanReturned ==
    /\ returned <= session
    /\ returned <= maxRetries
    /\ \A r \in Requests : current[r] <= returned

Later == OneAtATime /\ NewerThanReturned /\ AffectsLaterRequests

\* A stop is one of the getter's source, which every connected task shares.
Chained ==
    \A r \in Requests :
        /\ source[r]["getter"] = "getter"
        /\ pc[r] # "idle" => source[r]["request"] = "getter"
        /\ pc[r] \in Running => source[r]["retry"] = "getter"
        /\ pc[r] = "transfer" => token[r] = "getter"

Loop ==
    \A r \in Requests :
        /\ pc[r] \in {"idle", "built", "refused"} => i[r] = 0
        /\ pc[r] = "caught" => got[r] \in Answers
        /\ pc[r] = "caught" /\ got[r] = "cancelled" => "getter" \in stopped[r]

IInv == TypeOK /\ Chained /\ Loop

-----------------------------------------------------------------------------
(* Types, and the loop of with_retry() *)

ConfigNext == \E c \in Callers : MakeSession(c) \/ StoreSession(c) \/ StoreRetries(c)

RequestNext(r) ==
    \/ Start(r) \/ Refuse(r) \/ CoroutineNext(r) \/ RequestStop(r)
    \/ \E answer \in Answers : TransferEnds(r, answer)

\* The initial state satisfies the invariant.
LEMMA InitInv == Init => IInv
<1> SUFFICES ASSUME Init PROVE IInv
  OBVIOUS
<1> USE AsyncClientAssumption DEF Init, Configs
<1>1. \A r \in Requests : retries[r] = 0 /\ i[r] = 0
  OBVIOUS
<1>2. \A r \in Requests : i[r] <= budget[retries[r]]
  <2>1. budget \in [0..MaxConfigs -> Budgets] /\ 0 \in 0..MaxConfigs
    OBVIOUS
  <2>2. budget[0] \in Nat
    BY <2>1
  <2> HIDE DEF Init
  <2>3. 0 <= budget[0]
    BY <2>2
  <2> QED BY <1>1, <2>3
<1>3. TypeOK
  BY <1>2 DEF TypeOK, Tasks
<1>4. Chained /\ Loop
  BY DEF Chained, Loop, Running, Tasks
<1> QED BY <1>3, <1>4 DEF IInv

\* set_config() touches no request.
LEMMA ConfigStep == ASSUME IInv, ConfigNext PROVE IInv'
<1> USE AsyncClientAssumption DEF IInv, TypeOK, Chained, Loop, Configs, Running,
    loopVars, stopVars
<1>1. ASSUME NEW c \in Callers, MakeSession(c) PROVE IInv'
  BY <1>1 DEF MakeSession
<1>2. ASSUME NEW c \in Callers, StoreSession(c) PROVE IInv'
  BY <1>2 DEF StoreSession
<1>3. ASSUME NEW c \in Callers, StoreRetries(c) PROVE IInv'
  BY <1>3 DEF StoreRetries, Return
<1> QED BY <1>1, <1>2, <1>3 DEF ConfigNext

\* One step of a request.
LEMMA RequestStep == ASSUME IInv, NEW r \in Requests, RequestNext(r) PROVE IInv'
<1> USE AsyncClientAssumption DEF IInv, TypeOK, Chained, Loop, Configs, Tasks, Answers,
    Ended, Running, configVars, loopVars, Goto
<1>1. CASE Start(r)
  BY <1>1 DEF Start, Connect
<1>2. CASE Refuse(r)
  BY <1>2 DEF Refuse, stopVars
<1>3. CASE AwaitRetry(r)
  <2>1. budget' = budget /\ retries'[r] \in Configs /\ i' = i /\ i[r] = 0
    BY <1>3 DEF AwaitRetry
  <2>2. \A q \in Requests : i'[q] <= budget'[retries'[q]]
    <3> HIDE DEF Tasks, Answers, Ended, Running
    <3>3. budget[retries'[r]] \in Nat
      BY <2>1
    <3>1. i'[r] <= budget'[retries'[r]]
      BY <2>1, <3>3
    <3>2. ASSUME NEW q \in Requests, q # r PROVE i'[q] <= budget'[retries'[q]]
      BY <1>3, <3>2 DEF AwaitRetry
    <3> QED BY <3>1, <3>2
  <2>3. TypeOK'
    BY <1>3, <2>2 DEF AwaitRetry, Connect
  <2>4. Chained' /\ Loop'
    BY <1>3 DEF AwaitRetry, Connect
  <2> QED BY <2>3, <2>4
<1>4. CASE AwaitTransfer(r)
  BY <1>4 DEF AwaitTransfer, Connect
<1>5. ASSUME NEW answer \in Answers, TransferEnds(r, answer) PROVE IInv'
  BY <1>5 DEF TransferEnds, stopVars
<1>6. CASE Decide(r)
  <2>1. \A q \in Requests : i'[q] \in Nat /\ i'[q] <= budget'[retries'[q]]
    <3>1. i[r] \in Nat /\ budget[retries[r]] \in Nat /\ i[r] <= budget[retries[r]]
      <4>1. i[r] \in Nat /\ i[r] <= budget[retries[r]] /\ retries[r] \in Configs
        OBVIOUS
      <4>2. budget[retries[r]] \in Budgets /\ Budgets \subseteq Nat
        BY <4>1
      <4> QED BY <4>1, <4>2
    <3>2. i'[r] \in {i[r], i[r] + 1} /\ (i'[r] = i[r] + 1 => i[r] # budget[retries[r]])
      BY <1>6 DEF Decide
    <3>3. i'[r] \in Nat /\ i'[r] <= budget[retries[r]]
      <4>1. PICK a, b \in Nat : a = i[r] /\ b = budget[retries[r]] /\ a <= b
        BY <3>1
      <4> QED BY <3>2, <4>1
    <3>4. budget' = budget /\ retries' = retries /\ \A q \in Requests : q # r => i'[q] = i[q]
      BY <1>6 DEF Decide
    <3> QED BY <3>3, <3>4
  <2>2. TypeOK'
    <3>1. i' \in [Requests -> Nat]
      BY <1>6, <2>1 DEF Decide
    <3>2. got[r] \in Answers
      BY <1>6 DEF Decide
    <3>3. pc' = [pc EXCEPT ![r] = "loop"] \/ pc' = [pc EXCEPT ![r] = got[r]]
      BY <1>6 DEF Decide
    <3>4. pc' \in [Requests -> {"idle", "built", "loop", "transfer", "caught"} \cup Ended]
      <4>1. pc \in [Requests -> {"idle", "built", "loop", "transfer", "caught"} \cup Ended]
        OBVIOUS
      <4>2. got[r] \in Ended
        BY <3>2
      <4> HIDE DEF TypeOK, IInv, Chained, Loop, Answers, Ended
      <4> QED BY <3>3, <4>1, <4>2
    <3>5. UNCHANGED <<configVars, on, retries, stopVars, got, returned, current>>
      BY <1>6 DEF Decide
    <3> HIDE DEF Answers, Ended
    <3> QED BY <2>1, <3>1, <3>4, <3>5 DEF stopVars
  <2>3. /\ pc[r] = "caught" /\ pc'[r] \in {"loop"} \cup Answers
        /\ \A q \in Requests : q # r => pc'[q] = pc[q] /\ i'[q] = i[q]
        /\ UNCHANGED <<stopVars, got>>
    BY <1>6 DEF Decide, stopVars
  <2>4. Chained'
    BY <2>3 DEF stopVars
  <2>5. Loop'
    BY <2>3 DEF stopVars
  <2> QED BY <2>2, <2>4, <2>5
<1>7. CASE RequestStop(r)
  <2>1. /\ stopped' = [stopped EXCEPT ![r] = @ \cup {source[r]["getter"]}]
        /\ UNCHANGED <<configVars, pc, loopVars, source, token, got, returned, current>>
    BY <1>7 DEF RequestStop
  <2>2. TypeOK'
    <3>1. source[r]["getter"] = "getter"
      OBVIOUS
    <3>2. stopped' \in [Requests -> SUBSET Tasks]
      <4>1. stopped \in [Requests -> SUBSET Tasks]
        OBVIOUS
      <4>2. stopped[r] \cup {source[r]["getter"]} \in SUBSET Tasks
        BY <3>1, <4>1
      <4> HIDE DEF TypeOK, IInv, Tasks, Chained, Loop
      <4> QED BY <2>1, <4>1, <4>2
    <3> QED BY <2>1, <3>2
  <2>3. Chained'
    BY <2>1
  <2>4. Loop'
    BY <2>1
  <2> QED BY <2>2, <2>3, <2>4
<1> HIDE DEF IInv, TypeOK, Chained, Loop, configVars, loopVars, Goto
<1> QED BY <1>1, <1>2, <1>3, <1>4, <1>5, <1>6, <1>7 DEF RequestNext, CoroutineNext

\* The invariant is preserved by every step.
LEMMA NextStep == IInv /\ [Next]_vars => IInv'
<1> SUFFICES ASSUME IInv, [Next]_vars PROVE IInv'
  OBVIOUS
<1>1. CASE ConfigNext
  BY <1>1, ConfigStep
<1>2. ASSUME NEW r \in Requests, RequestNext(r) PROVE IInv'
  BY <1>2, RequestStep
<1>3. CASE UNCHANGED vars
  BY <1>3 DEF vars, configVars, loopVars, stopVars, IInv, TypeOK, Chained, Loop
<1> QED BY <1>1, <1>2, <1>3 DEF Next, ConfigNext, RequestNext

\* Every state is well typed, for any number of requests, callers and retries; no
\* request is ever past the last attempt it is allowed.
THEOREM TypeCorrect == Spec => []TypeOK
<1>1. IInv => TypeOK
  BY DEF IInv
<1> QED BY InitInv, NextStep, <1>1, PTL DEF Spec

-----------------------------------------------------------------------------
(* A configuration affects the requests started after it *)

\* No configuration is stored or has returned yet.
LEMMA InitLater == Init => Later
BY DEF Init, Later, OneAtATime, NewerThanReturned, AffectsLaterRequests, Busy

\* Callers that take turns store one configuration after the other, and only a newer
\* one than any that has returned.
LEMMA ConfigLater == ASSUME Turns, IInv, Later, ConfigNext PROVE Later'
<1> USE DEF IInv, TypeOK, Configs, Later, OneAtATime, NewerThanReturned,
    AffectsLaterRequests, Busy, Running, Answers, loopVars
<1>1. ASSUME NEW c \in Callers, MakeSession(c) PROVE Later'
  BY <1>1 DEF MakeSession
<1>2. ASSUME NEW c \in Callers, StoreSession(c) PROVE Later'
  BY <1>2 DEF StoreSession
<1>3. ASSUME NEW c \in Callers, StoreRetries(c) PROVE Later'
  BY <1>3 DEF StoreRetries, Return
<1> QED BY <1>1, <1>2, <1>3 DEF ConfigNext

\* A request reads both parts when it is started or later.
LEMMA RequestLater == ASSUME IInv, Later, NEW r \in Requests, RequestNext(r) PROVE Later'
<1> USE DEF IInv, TypeOK, Configs, Later, OneAtATime, NewerThanReturned,
    AffectsLaterRequests, Busy, Running, Answers, Ended, configVars, loopVars, Goto
<1>1. CASE Start(r)
  BY <1>1 DEF Start
<1>2. CASE Refuse(r)
  BY <1>2 DEF Refuse
<1>3. CASE AwaitRetry(r)
  BY <1>3 DEF AwaitRetry
<1>4. CASE AwaitTransfer(r)
  BY <1>4 DEF AwaitTransfer
<1>5. ASSUME NEW answer \in Answers, TransferEnds(r, answer) PROVE Later'
  BY <1>5 DEF TransferEnds
<1>6. CASE Decide(r)
  BY <1>6 DEF Decide
<1>7. CASE RequestStop(r)
  BY <1>7 DEF RequestStop
<1> QED BY <1>1, <1>2, <1>3, <1>4, <1>5, <1>6, <1>7 DEF RequestNext, CoroutineNext

\* When the callers of set_config() take turns, a request started after a call has
\* returned uses its session and its retry count, or those of a later call.
THEOREM LaterRequestsAreAffected == ASSUME Turns PROVE Spec => []AffectsLaterRequests
<1>1. IInv /\ Later /\ [Next]_vars => Later'
  <2> SUFFICES ASSUME IInv, Later, [Next]_vars PROVE Later'
    OBVIOUS
  <2>1. CASE ConfigNext
    BY <2>1, ConfigLater
  <2>2. ASSUME NEW r \in Requests, RequestNext(r) PROVE Later'
    BY <2>2, RequestLater
  <2>3. CASE UNCHANGED vars
    BY <2>3 DEF vars, configVars, loopVars, Later, OneAtATime, NewerThanReturned,
        AffectsLaterRequests, Busy
  <2> QED BY <2>1, <2>2, <2>3 DEF Next, ConfigNext, RequestNext
<1>2. Later => AffectsLaterRequests
  BY DEF Later
<1> QED BY InitInv, NextStep, InitLater, <1>1, <1>2, PTL DEF Spec

-----------------------------------------------------------------------------
(* The rules of every client *)

\* What the contract sees of a request.
LEMMA PhaseIs ==
  ASSUME NEW r \in Requests
  PROVE  /\ pc[r] \in {"idle", "built"} => Phase[r] = "idle" /\ Allowed[r] = 0
         /\ pc[r] \in Running => Phase[r] = "running" /\ Allowed[r] = budget[retries[r]]
         /\ pc[r] \in Answers => Phase[r] = pc[r] /\ Allowed[r] = budget[retries[r]]
         /\ pc[r] = "refused" => Phase[r] = "refused" /\ Allowed[r] = 0
BY DEF Phase, Allowed, Running, Answers

\* The same of the next state.
LEMMA NextPhaseIs ==
  ASSUME NEW r \in Requests
  PROVE  /\ pc'[r] \in {"idle", "built"} => Phase'[r] = "idle" /\ Allowed'[r] = 0
         /\ pc'[r] \in Running => Phase'[r] = "running" /\ Allowed'[r] = budget'[retries'[r]]
         /\ pc'[r] \in Answers => Phase'[r] = pc'[r] /\ Allowed'[r] = budget'[retries'[r]]
         /\ pc'[r] = "refused" => Phase'[r] = "refused" /\ Allowed'[r] = 0
BY DEF Phase, Allowed, Running, Answers

\* A request that does not move is seen as before.
LEMMA SamePhase ==
  ASSUME NEW r \in Requests, pc'[r] = pc[r], budget' = budget, retries'[r] = retries[r]
  PROVE  Phase'[r] = Phase[r] /\ Allowed'[r] = Allowed[r]
BY DEF Phase, Allowed

\* The functions are what their values make them.
LEMMA Extensionality ==
  ASSUME NEW r \in Requests, NEW p, NEW n,
         Phase'[r] = p, Allowed'[r] = n,
         \A q \in Requests : q # r => Phase'[q] = Phase[q] /\ Allowed'[q] = Allowed[q]
  PROVE  /\ Phase' = [Phase EXCEPT ![r] = p]
         /\ Allowed' = [Allowed EXCEPT ![r] = n]
         /\ p = Phase[r] => Phase' = Phase
         /\ n = Allowed[r] => Allowed' = Allowed
<1>1. /\ Phase = [q \in Requests |-> Phase[q]]
      /\ Allowed = [q \in Requests |-> Allowed[q]]
  BY DEF Phase, Allowed
<1>2. /\ Phase' = [q \in Requests |-> Phase'[q]]
      /\ Allowed' = [q \in Requests |-> Allowed'[q]]
  BY DEF Phase, Allowed
<1> QED BY <1>1, <1>2

\* The initial state is one of the contract's.
LEMMA InitContract == ASSUME Init PROVE Contract!Init
<1>1. \A r \in Requests : pc[r] = "idle" /\ stopped[r] = {}
  BY DEF Init
<1>2. Phase = [r \in Requests |-> "idle"]
  <2>1. \A r \in Requests : Phase[r] = "idle"
    BY <1>1, PhaseIs
  <2>2. Phase = [r \in Requests |-> Phase[r]]
    BY DEF Phase
  <2> QED BY <2>1, <2>2
<1>3. Allowed = [r \in Requests |-> 0]
  BY <1>1 DEF Allowed, Running, Answers
<1>4. AskedToStop = {}
  BY <1>1 DEF AskedToStop
<1> QED BY <1>2, <1>3, <1>4 DEF Init, Contract!Init

\* set_config() is none of the contract's business.
LEMMA ConfigContract == ASSUME IInv, ConfigNext PROVE UNCHANGED Contract!vars
<1>1. UNCHANGED <<pc, budget, loopVars, stopVars>>
  BY DEF ConfigNext, MakeSession, StoreSession, StoreRetries, Return
<1> QED BY <1>1 DEF Contract!vars, loopVars, stopVars, Phase, Allowed, AskedToStop

\* One step of a request is one of the contract's, or none.
LEMMA RequestContractStep ==
  ASSUME IInv, NEW r \in Requests, RequestNext(r)
  PROVE  [Contract!Next]_Contract!vars
<1> DEFINE Others == \A q \in Requests : q # r => Phase'[q] = Phase[q] /\ Allowed'[q] = Allowed[q]
<1> HIDE DEF Others
<1>0. /\ pc \in [Requests -> {"idle", "built", "loop", "transfer", "caught"} \cup Ended]
      /\ i[r] <= budget[retries[r]] /\ i[r] \in Nat /\ budget[retries[r]] \in Nat
  BY AsyncClientAssumption DEF IInv, TypeOK
<1>1. CASE Start(r)
  <2>1. /\ pc[r] = "idle" /\ pc'[r] = "built"
        /\ UNCHANGED <<budget, retries, i, stopped>>
        /\ \A q \in Requests : q # r => pc'[q] = pc[q]
    BY <1>0, <1>1 DEF Start, Goto, configVars
  <2>2. Others
    BY <2>1, SamePhase DEF Others
  <2>3. Phase' = Phase /\ Allowed' = Allowed
    BY <2>1, <2>2, PhaseIs, NextPhaseIs, Extensionality DEF Others
  <2> QED BY <2>1, <2>3 DEF Contract!vars, AskedToStop
<1>2. CASE Refuse(r)
  <2>1. /\ pc[r] = "built" /\ pc'[r] = "refused"
        /\ UNCHANGED <<budget, retries, i, stopped>>
        /\ \A q \in Requests : q # r => pc'[q] = pc[q]
    BY <1>0, <1>2 DEF Refuse, Goto, configVars, loopVars, stopVars
  <2>2. Others
    BY <2>1, SamePhase DEF Others
  <2>3. Phase[r] = "idle" /\ Phase' = [Phase EXCEPT ![r] = "refused"] /\ Allowed' = Allowed
    BY <2>1, <2>2, PhaseIs, NextPhaseIs, Extensionality DEF Others
  <2>4. Contract!Refuse(r)
    BY <2>1, <2>3 DEF Contract!Refuse, Contract!Enter, AskedToStop
  <2> QED BY <2>4 DEF Contract!Next
<1>3. CASE AwaitRetry(r)
  <2>1. /\ pc[r] = "built" /\ pc'[r] = "loop"
        /\ UNCHANGED <<budget, i, stopped>>
        /\ budget'[retries'[r]] \in Budgets
        /\ \A q \in Requests : q # r => pc'[q] = pc[q] /\ retries'[q] = retries[q]
    BY <1>0, <1>3 DEF AwaitRetry, Goto, configVars, IInv, TypeOK
  <2>2. Others
    BY <2>1, SamePhase DEF Others
  <2>3. /\ Phase[r] = "idle"
        /\ Phase' = [Phase EXCEPT ![r] = "running"]
        /\ Allowed' = [Allowed EXCEPT ![r] = budget'[retries'[r]]]
    BY <2>1, <2>2, PhaseIs, NextPhaseIs, Extensionality DEF Others, Running
  <2>4. Contract!Start(r)
    BY <2>1, <2>3 DEF Contract!Start, Contract!Enter, AskedToStop
  <2> QED BY <2>4 DEF Contract!Next
<1>4. CASE AwaitTransfer(r)
  <2>1. /\ pc[r] = "loop" /\ pc'[r] = "transfer"
        /\ UNCHANGED <<budget, retries, i, stopped>>
        /\ \A q \in Requests : q # r => pc'[q] = pc[q]
    BY <1>0, <1>4 DEF AwaitTransfer, Goto, configVars, loopVars
  <2>2. Others
    BY <2>1, SamePhase DEF Others
  <2>3. Phase' = Phase /\ Allowed' = Allowed
    BY <2>1, <2>2, PhaseIs, NextPhaseIs, Extensionality DEF Others, Running
  <2> QED BY <2>1, <2>3 DEF Contract!vars, AskedToStop
<1>5. ASSUME NEW answer \in Answers, TransferEnds(r, answer) PROVE UNCHANGED Contract!vars
  <2>1. /\ pc[r] = "transfer" /\ pc'[r] = "caught"
        /\ UNCHANGED <<budget, retries, i, stopped>>
        /\ \A q \in Requests : q # r => pc'[q] = pc[q]
    BY <1>0, <1>5 DEF TransferEnds, Goto, configVars, loopVars, stopVars
  <2>2. Others
    BY <2>1, SamePhase DEF Others
  <2>3. Phase' = Phase /\ Allowed' = Allowed
    BY <2>1, <2>2, PhaseIs, NextPhaseIs, Extensionality DEF Others, Running
  <2> QED BY <2>1, <2>3 DEF Contract!vars, AskedToStop
<1>6. CASE Decide(r)
  <2>1. /\ pc[r] = "caught" /\ got[r] \in Answers
        /\ UNCHANGED <<budget, retries, stopped>>
        /\ \A q \in Requests : q # r => pc'[q] = pc[q]
    BY <1>0, <1>6 DEF Decide, Goto, configVars, stopVars, IInv, Loop
  <2>2. Others
    BY <2>1, SamePhase DEF Others
  <2>3. Phase[r] = "running" /\ Allowed[r] = budget[retries[r]]
    BY <2>1, PhaseIs DEF Running
  <2>4. CASE got[r] = "network" /\ i[r] # budget[retries[r]]
    <3>1. pc'[r] = "loop" /\ i' = [i EXCEPT ![r] = @ + 1] /\ i[r] < budget[retries[r]]
      BY <1>0, <1>6, <2>4 DEF Decide, Goto
    <3>2. Phase' = Phase /\ Allowed' = Allowed
      BY <2>1, <2>2, <2>3, <3>1, NextPhaseIs, Extensionality DEF Others, Running
    <3>3. Contract!Retry(r)
      BY <2>1, <2>3, <3>1, <3>2 DEF Contract!Retry, AskedToStop
    <3> QED BY <3>3 DEF Contract!Next
  <2>5. CASE ~(got[r] = "network" /\ i[r] # budget[retries[r]])
    <3>1. pc'[r] = got[r] /\ i' = i
      BY <1>0, <1>6, <2>5 DEF Decide, Goto
    <3>2. Phase' = [Phase EXCEPT ![r] = got[r]] /\ Allowed' = Allowed
      BY <2>1, <2>2, <2>3, <3>1, NextPhaseIs, Extensionality DEF Others
    <3>3. CASE got[r] = "network"
      BY <2>1, <2>3, <2>5, <3>1, <3>2, <3>3
      DEF Contract!Next, Contract!Fail, Contract!Enter, AskedToStop
    <3>4. CASE got[r] = "ok"
      BY <2>1, <2>3, <3>1, <3>2, <3>4
      DEF Contract!Next, Contract!Answer, Contract!Enter, AskedToStop
    <3>5. CASE got[r] = "cancelled"
      <4>1. r \in AskedToStop
        BY <2>1, <3>5 DEF AskedToStop, IInv, Loop
      <4> QED BY <2>1, <2>3, <3>1, <3>2, <3>5, <4>1
          DEF Contract!Next, Contract!Cancel, Contract!Enter, AskedToStop
    <3> QED BY <2>1, <3>3, <3>4, <3>5 DEF Answers
  <2> QED BY <2>4, <2>5
<1>7. CASE RequestStop(r)
  <2>1. /\ UNCHANGED <<pc, budget, retries, i>>
        /\ stopped' = [stopped EXCEPT ![r] = @ \cup {"getter"}]
        /\ stopped \in [Requests -> SUBSET Tasks]
    BY <1>7 DEF RequestStop, configVars, loopVars, IInv, TypeOK, Chained
  <2>2. Phase' = Phase /\ Allowed' = Allowed
    BY <2>1 DEF Phase, Allowed
  <2>3. AskedToStop' = AskedToStop \cup {r}
    BY <2>1 DEF AskedToStop
  <2>4. Contract!Stop(r)
    BY <2>1, <2>2, <2>3 DEF Contract!Stop
  <2> QED BY <2>4 DEF Contract!Next
<1> QED BY <1>1, <1>2, <1>3, <1>4, <1>5, <1>6, <1>7 DEF RequestNext, CoroutineNext

\* The curl client retries a transport failure exactly as often as it is allowed, passes
\* an answer of the server on at once, and ends cancelled only when it was stopped.
THEOREM RulesAreKept == Spec => KeepsTheRules
<1>1. Init => Contract!Init
  BY InitContract
<1>2. IInv /\ [Next]_vars => [Contract!Next]_Contract!vars
  <2> SUFFICES ASSUME IInv, [Next]_vars PROVE [Contract!Next]_Contract!vars
    OBVIOUS
  <2>1. CASE ConfigNext
    BY <2>1, ConfigContract
  <2>2. ASSUME NEW r \in Requests, RequestNext(r) PROVE [Contract!Next]_Contract!vars
    BY <2>2, RequestContractStep
  <2>3. CASE UNCHANGED vars
    BY <2>3 DEF vars, configVars, loopVars, stopVars, Contract!vars,
        Phase, Allowed, AskedToStop
  <2> QED BY <2>1, <2>2, <2>3 DEF Next, ConfigNext, RequestNext
<1> QED BY InitInv, NextStep, <1>1, <1>2, PTL DEF Spec, KeepsTheRules

=============================================================================
