---------------------------- MODULE AsyncClient ----------------------------
(***************************************************************************)
(* Requests of the curl client.  Each is a chain of coroutine tasks: a     *)
(* getter's, which the host starts and may stop, awaits do_request(),      *)
(* which awaits with_retry(), which awaits one transfer per attempt.       *)
(* Awaiting a task connects it: the awaited one adopts the stop source of  *)
(* the one that awaits, and the transfer watches a token of its own.       *)
(* set_config() meanwhile stores a session and a retry count, one after    *)
(* the other.  What asyncnet does with a transfer is the environment.      *)
(***************************************************************************)
EXTENDS Naturals

CONSTANTS
    Requests,       \* requests made of the client
    Callers,        \* threads that call set_config()
    Turns,          \* TRUE: they do so one after the other
    Budgets,        \* values of ClientConfig::max_retries
    MaxConfigs      \* bound: number of set_config() calls

ASSUME AsyncClientAssumption ==
    /\ Budgets \subseteq Nat
    /\ MaxConfigs \in Nat
    /\ Turns \in BOOLEAN

\* A configuration is the number of its set_config() call, 0 the constructor's.
Configs == 0..MaxConfigs

\* The tasks of a request, from the one the host holds to the transfer.
Tasks == {"getter", "request", "retry", "transfer"}

Answers == {"ok", "network", "cancelled"}
Ended == Answers \cup {"refused"}

VARIABLES
    budget,         \* per configuration: its max_retries, or the default
    session,        \* session_, by the configuration it was made for
    maxRetries,     \* max_retries_, by the configuration that stored it
    made,           \* the configurations so far
    call,           \* per caller: the configuration it is storing
    step,           \* per caller: what it does next
    pc,             \* per request: where its innermost running task is, or its answer
    on,             \* do_request's session
    retries,        \* with_retry's max_retries
    i,              \* with_retry's loop variable
    source,         \* per task: whose stop source it has
    token,          \* per request: the source the transfer took its token from
    stopped,        \* per request: the sources that were asked to stop
    got,            \* how the transfer ended
    returned,       \* history: the newest configuration whose set_config() has returned
    current         \* history: per request: returned when it started

configVars == <<budget, session, maxRetries, made, call, step>>
loopVars == <<on, retries, i>>
stopVars == <<source, token, stopped>>
vars == <<configVars, pc, loopVars, stopVars, got, returned, current>>

TypeOK ==
    /\ budget \in [Configs -> Budgets]
    /\ {session, maxRetries, made, returned} \subseteq Configs
    /\ call \in [Callers -> Configs]
    /\ step \in [Callers -> {"idle", "session", "retries"}]
    /\ pc \in [Requests -> {"idle", "built", "loop", "transfer", "caught"} \cup Ended]
    /\ on \in [Requests -> Configs]
    /\ retries \in [Requests -> Configs]
    /\ i \in [Requests -> Nat]
    /\ \A r \in Requests : i[r] <= budget[retries[r]]
    /\ source \in [Requests -> [Tasks -> Tasks]]
    /\ token \in [Requests -> Tasks]
    /\ stopped \in [Requests -> SUBSET Tasks]
    /\ got \in [Requests -> {"none"} \cup Answers]
    /\ current \in [Requests -> Configs]

Init ==
    /\ budget \in [Configs -> Budgets]
    /\ session = 0
    /\ maxRetries = 0
    /\ made = 0
    /\ call = [c \in Callers |-> 0]
    /\ step = [c \in Callers |-> "idle"]
    /\ pc = [r \in Requests |-> "idle"]
    /\ on = [r \in Requests |-> 0]
    /\ retries = [r \in Requests |-> 0]
    /\ i = [r \in Requests |-> 0]
    /\ source = [r \in Requests |-> [t \in Tasks |-> t]]
    /\ token = [r \in Requests |-> "transfer"]
    /\ stopped = [r \in Requests |-> {}]
    /\ got = [r \in Requests |-> "none"]
    /\ returned = 0
    /\ current = [r \in Requests |-> 0]

Goto(r, point) == pc' = [pc EXCEPT ![r] = point]

-----------------------------------------------------------------------------
(* set_config() *)

MakeSession(c) ==
    /\ step[c] = "idle"
    /\ Turns => \A other \in Callers : step[other] = "idle"
    /\ made < MaxConfigs
    /\ made' = made + 1
    /\ call' = [call EXCEPT ![c] = made']
    /\ step' = [step EXCEPT ![c] = "session"]
    /\ UNCHANGED <<budget, session, maxRetries, pc, loopVars, stopVars, got, returned, current>>

Return(c) ==
    /\ step' = [step EXCEPT ![c] = "idle"]
    /\ returned' = IF call[c] > returned THEN call[c] ELSE returned

\* A variant that forgets the retries.
StoreSessionOnly(c) ==
    /\ step[c] = "session"
    /\ session' = call[c]
    /\ Return(c)
    /\ UNCHANGED <<budget, maxRetries, made, call, pc, loopVars, stopVars, got, current>>

StoreSession(c) ==
    /\ step[c] = "session"
    /\ session' = call[c]
    /\ step' = [step EXCEPT ![c] = "retries"]
    /\ UNCHANGED <<budget, maxRetries, made, call, pc, loopVars, stopVars, got, returned, current>>

\* max_retries_ is a plain integer: who reads it meanwhile sees the old or the new one.
StoreRetries(c) ==
    /\ step[c] = "retries"
    /\ maxRetries' = call[c]
    /\ Return(c)
    /\ UNCHANGED <<budget, session, made, call, pc, loopVars, stopVars, got, current>>

-----------------------------------------------------------------------------
(* Tasks *)

\* A variant that only hands control over, as CancellingTask does.
ConnectNothing(r, task, awaiting) == UNCHANGED source

\* NetworkTask::Awaitable::await_suspend
Connect(r, task, awaiting) ==
    source' = [source EXCEPT ![r][task] = source[r][awaiting]]

-----------------------------------------------------------------------------
(* do_request() and with_retry() *)

\* The getter awaits do_request(), which loads the session and builds the request.
Start(r) ==
    /\ pc[r] = "idle"
    /\ Connect(r, "request", "getter")
    /\ on' = [on EXCEPT ![r] = session]
    /\ current' = [current EXCEPT ![r] = returned]
    /\ Goto(r, "built")
    /\ UNCHANGED <<configVars, retries, i, token, stopped, got, returned>>

\* apply_method() does not know the method, or to_curlpp_forms() throws.
Refuse(r) ==
    /\ pc[r] = "built"
    /\ Goto(r, "refused")
    /\ UNCHANGED <<configVars, loopVars, stopVars, got, returned, current>>

\* do_request() awaits with_retry().
AwaitRetry(r) ==
    /\ pc[r] = "built"
    /\ Connect(r, "retry", "request")
    /\ retries' = [retries EXCEPT ![r] = maxRetries]
    /\ Goto(r, "loop")
    /\ UNCHANGED <<configVars, on, i, token, stopped, got, returned, current>>

\* with_retry() awaits a new transfer, whose body takes its token.
AwaitTransfer(r) ==
    /\ pc[r] = "loop"
    /\ Connect(r, "transfer", "retry")
    /\ token' = [token EXCEPT ![r] = source'[r]["transfer"]]
    /\ Goto(r, "transfer")
    /\ UNCHANGED <<configVars, loopVars, stopped, got, returned, current>>

\* It returns or throws, on the transport's thread, and with_retry() goes on there.  A
\* transfer told to stop may still end otherwise.
TransferEnds(r, answer) ==
    /\ pc[r] = "transfer"
    /\ answer = "cancelled" => token[r] \in stopped[r]
    /\ got' = [got EXCEPT ![r] = answer]
    /\ Goto(r, "caught")
    /\ UNCHANGED <<configVars, loopVars, stopVars, returned, current>>

\* A variant with "<" for "<=" in the loop, which falls out of it.
DecideOneMore(r) ==
    /\ pc[r] = "caught"
    /\ IF got[r] = "network" /\ i[r] <= budget[retries[r]]
         THEN i' = [i EXCEPT ![r] = @ + 1] /\ Goto(r, "loop")
         ELSE UNCHANGED i /\ Goto(r, got[r])
    /\ UNCHANGED <<configVars, on, retries, stopVars, got, returned, current>>

\* The catch: a cancelled transfer and the last one's error are passed on, and
\* do_request() makes an answer of them.
Decide(r) ==
    /\ pc[r] = "caught"
    /\ IF got[r] = "network" /\ i[r] # budget[retries[r]]
         THEN i' = [i EXCEPT ![r] = @ + 1] /\ Goto(r, "loop")
         ELSE UNCHANGED i /\ Goto(r, got[r])
    /\ UNCHANGED <<configVars, on, retries, stopVars, got, returned, current>>

\* The host stops the task it holds.
RequestStop(r) ==
    /\ pc[r] \notin Ended
    /\ stopped' = [stopped EXCEPT ![r] = @ \cup {source[r]["getter"]}]
    /\ UNCHANGED <<configVars, pc, loopVars, source, token, got, returned, current>>

-----------------------------------------------------------------------------

CoroutineNext(r) == AwaitRetry(r) \/ AwaitTransfer(r) \/ Decide(r)

Next ==
    \/ \E c \in Callers : MakeSession(c) \/ StoreSession(c) \/ StoreRetries(c)
    \/ \E r \in Requests :
        \/ Start(r) \/ Refuse(r) \/ CoroutineNext(r) \/ RequestStop(r)
        \/ \E answer \in Answers : TransferEnds(r, answer)

\* A started coroutine runs on, and asyncnet ends a transfer that was told to stop.
\* Nothing says that a server ever answers.
Fairness ==
    \A r \in Requests :
        WF_vars(CoroutineNext(r) \/ Refuse(r)) /\ WF_vars(TransferEnds(r, "cancelled"))

Spec == Init /\ [][Next]_vars /\ Fairness

-----------------------------------------------------------------------------
(* Properties *)

\* The client keeps the contract of every client: with the retry count it read, a
\* transport failure is the answer after exactly that many retries, "cancelled" is one
\* only after a stop and never retried, and a stop requested of the getter's task
\* reaches whichever transfer is running and ends the request.
Running == {"loop", "transfer", "caught"}

Phase == [r \in Requests |->
    CASE pc[r] \in {"idle", "built"} -> "idle"
      [] pc[r] \in Running -> "running"
      [] OTHER -> pc[r]]

Allowed == [r \in Requests |->
    IF pc[r] \in Running \cup Answers THEN budget[retries[r]] ELSE 0]

AskedToStop == {r \in Requests : "getter" \in stopped[r]}

Contract == INSTANCE RequestContract WITH
    phase <- Phase, allowed <- Allowed, failures <- i, stopped <- AskedToStop

KeepsTheContract == Contract!Spec

\* Its part without fairness.
KeepsTheRules == Contract!Init /\ [][Contract!Next]_Contract!vars

\* set_config() "affects requests started after the call" (ClientContext.hpp:174), with
\* both of its parts, when its callers take turns.
AffectsLaterRequests ==
    \A r \in Requests :
        /\ pc[r] # "idle" => on[r] >= current[r]
        /\ pc[r] \in Running \cup Answers => retries[r] >= current[r]

\* "Worst case: request uses old retry count" (Client.cpp:349), so never a newer one
\* than its session's.  A set_config() between the two reads gives it just that.
NeverANewerCount == \A r \in Requests : pc[r] \in Running => retries[r] <= on[r]

\* Also calls that overlap leave one configuration in force.  The session of one call
\* can stay with the retry count of another.
ConfigurationIsWhole == (\A c \in Callers : step[c] = "idle") => session = maxRetries

=============================================================================
