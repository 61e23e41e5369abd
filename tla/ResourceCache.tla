---------------------------- MODULE ResourceCache ----------------------------
(***************************************************************************)
(* The store of compiled resources and the fetch-once cells kept in it.    *)
(* Callers look a cell up, build and insert it if there is none, and read  *)
(* or warm it, while sets are evicted.  A caller is between two accesses   *)
(* to shared state at any time.                                            *)
(***************************************************************************)
EXTENDS Integers

CONSTANTS
    Callers,
    Keys,           \* resource types
    MaxCells,       \* bound: cells built
    MaxFetches,     \* bound: fetches started
    MaxEvictions    \* bound: evict() and clear() of one key

ASSUME CacheAssumption == MaxCells \in Nat /\ MaxFetches \in Nat /\ MaxEvictions \in Nat

NoCell == 0
Cells == 1..MaxCells

\* What a cell holds: the number of the fetch that was published, or nothing yet.
Cold == 0
Contents == 0..MaxFetches

\* What a call returns: a snapshot, the seed or the fetch's error.
Seed == -1
Failed == -2
NoAnswer == -3
Answers == Contents \cup {Seed, Failed, NoAnswer}

VARIABLES
    resources,      \* by key: the cell stored, resources_
    content,        \* by cell: cell_, the published snapshot
    made,           \* cells built so far
    fetches,        \* fetches started so far
    call,           \* by caller: where it is and what it holds
    evicted         \* history, by key: how often the key was evicted

cacheVars == <<resources, content, made, fetches, call, evicted>>

Steps == {"idle", "find", "build", "insert", "check", "snapshot", "fetch", "wait"}

\* seeded: ensure_published_or_seed() rather than ensure_published().  History are since,
\* the evictions of the key when its cell was looked up, and warm, those when the call
\* began if the stored cell was warm; -1 stands for neither.
Calls == [step : Steps, key : Keys, seeded : BOOLEAN, cell : {NoCell} \cup Cells,
          fetch : Contents, answer : Answers, since : -1..MaxEvictions, warm : -1..MaxEvictions]

CacheTypeOK ==
    /\ resources \in [Keys -> {NoCell} \cup Cells]
    /\ content \in [Cells -> Contents]
    /\ made \in 0..MaxCells
    /\ fetches \in 0..MaxFetches
    /\ call \in [Callers -> Calls]
    /\ evicted \in [Keys -> 0..MaxEvictions]

CacheInit ==
    /\ resources = [k \in Keys |-> NoCell]
    /\ content = [c \in Cells |-> Cold]
    /\ made = 0
    /\ fetches = 0
    /\ call \in [Callers -> [step : {"idle"}, key : Keys, seeded : {FALSE}, cell : {NoCell},
                             fetch : {Cold}, answer : {NoAnswer}, since : {-1}, warm : {-1}]]
    /\ evicted = [k \in Keys |-> 0]

Goes(c, to) == call' = [call EXCEPT ![c] = to]

IsWarm(k) == resources[k] # NoCell /\ content[resources[k]] # Cold

-----------------------------------------------------------------------------
(* ResourceCache::get *)

Begin(c, k, seeded) ==
    /\ call[c].step = "idle"
    /\ Goes(c, [step |-> "find", key |-> k, seeded |-> seeded, cell |-> NoCell, fetch |-> Cold,
                answer |-> NoAnswer, since |-> -1, warm |-> IF IsWarm(k) THEN evicted[k] ELSE -1])
    /\ UNCHANGED <<resources, content, made, fetches, evicted>>

\* The lookup, under the shared lock.
Find(c) ==
    LET k == call[c].key
    IN  /\ call[c].step = "find"
        /\ Goes(c, [call[c] EXCEPT !.cell = resources[k],
                                   !.step = IF resources[k] = NoCell THEN "build" ELSE "check",
                                   !.since = IF resources[k] = NoCell THEN -1 ELSE evicted[k]])
        /\ UNCHANGED <<resources, content, made, fetches, evicted>>

\* The factory runs outside the lock: a cell, with a seed and no snapshot.
Build(c) ==
    /\ call[c].step = "build"
    /\ made < MaxCells
    /\ made' = made + 1
    /\ Goes(c, [call[c] EXCEPT !.cell = made', !.step = "insert"])
    /\ UNCHANGED <<resources, content, fetches, evicted>>

\* Variant: the cell built last takes the place of the one stored.
InsertAssign(c) ==
    LET k == call[c].key
    IN  /\ call[c].step = "insert"
        /\ resources' = [resources EXCEPT ![k] = call[c].cell]
        /\ Goes(c, [call[c] EXCEPT !.step = "check", !.since = evicted[k]])
        /\ UNCHANGED <<content, made, fetches, evicted>>

\* try_emplace, under the unique lock: the cell stored wins, the other is dropped.
Insert(c) ==
    LET k == call[c].key
        stored == IF resources[k] = NoCell THEN call[c].cell ELSE resources[k]
    IN  /\ call[c].step = "insert"
        /\ resources' = [resources EXCEPT ![k] = stored]
        /\ Goes(c, [call[c] EXCEPT !.cell = stored, !.step = "check", !.since = evicted[k]])
        /\ UNCHANGED <<content, made, fetches, evicted>>

\* evict() of one key, clear() of all; handles that were returned keep their cells.
Evict(S) ==
    /\ \A k \in S : evicted[k] < MaxEvictions
    /\ resources' = [k \in Keys |-> IF k \in S THEN NoCell ELSE resources[k]]
    /\ evicted' = [k \in Keys |-> IF k \in S THEN evicted[k] + 1 ELSE evicted[k]]
    /\ UNCHANGED <<content, made, fetches, call>>

-----------------------------------------------------------------------------
(* ensure_published and ensure_published_or_seed *)

\* Variants: a cell with a seed is never taken for warm; and a caller waits for the others
\* that found the cell cold.
CheckSeedless(c) ==
    /\ call[c].step = "check"
    /\ Goes(c, [call[c] EXCEPT !.step =
                  IF content[call[c].cell] = Cold \/ call[c].seeded THEN "fetch" ELSE "snapshot"])
    /\ UNCHANGED <<resources, content, made, fetches, evicted>>

CheckInTurn(c) ==
    /\ call[c].step = "check"
    /\ \A d \in Callers \ {c} : call[d].cell = call[c].cell => call[d].step = "idle"
    /\ Goes(c, [call[c] EXCEPT !.step = IF content[call[c].cell] = Cold THEN "fetch" ELSE "snapshot"])
    /\ UNCHANGED <<resources, content, made, fetches, evicted>>

\* is_fetched()
Check(c) ==
    /\ call[c].step = "check"
    /\ Goes(c, [call[c] EXCEPT !.step = IF content[call[c].cell] = Cold THEN "fetch" ELSE "snapshot"])
    /\ UNCHANGED <<resources, content, made, fetches, evicted>>

\* snapshot(): what was published, or the seed.
Snapshot(cell) == IF content[cell] = Cold THEN Seed ELSE content[cell]

Answered(c, answer) == Goes(c, [call[c] EXCEPT !.step = "idle", !.answer = answer])

ReturnSnapshot(c) ==
    /\ call[c].step = "snapshot"
    /\ Answered(c, Snapshot(call[c].cell))
    /\ UNCHANGED <<resources, content, made, fetches, evicted>>

Fetch(c) ==
    /\ call[c].step = "fetch"
    /\ fetches < MaxFetches
    /\ fetches' = fetches + 1
    /\ Goes(c, [call[c] EXCEPT !.step = "wait", !.fetch = fetches'])
    /\ UNCHANGED <<resources, content, made, evicted>>

\* The fetch succeeded: publish() and return it, whatever was published meanwhile.
Publish(c) ==
    /\ call[c].step = "wait"
    /\ content' = [content EXCEPT ![call[c].cell] = call[c].fetch]
    /\ Answered(c, call[c].fetch)
    /\ UNCHANGED <<resources, made, fetches, evicted>>

\* Variant: the error is returned from either function.
FailAlways(c) ==
    /\ call[c].step = "wait"
    /\ Answered(c, Failed)
    /\ UNCHANGED <<resources, content, made, fetches, evicted>>

\* The fetch failed, and the cell stays as it is: an error, or what snapshot() says now.
Fail(c) ==
    /\ call[c].step = "wait"
    /\ Answered(c, IF call[c].seeded THEN Snapshot(call[c].cell) ELSE Failed)
    /\ UNCHANGED <<resources, content, made, fetches, evicted>>

Step(c) ==
    \/ Find(c) \/ Build(c) \/ Insert(c) \/ Check(c) \/ ReturnSnapshot(c)
    \/ Fetch(c) \/ Publish(c) \/ Fail(c)

CacheNext ==
    \/ \E c \in Callers :
          \/ \E k \in Keys, seeded \in BOOLEAN : Begin(c, k, seeded)
          \/ Step(c)
    \/ \E k \in Keys : Evict({k})
    \/ Evict(Keys)

\* A caller goes on, and its fetch ends one way or the other.
CacheSpec == CacheInit /\ [][CacheNext]_cacheVars /\ \A c \in Callers : WF_cacheVars(Step(c))

-----------------------------------------------------------------------------
(* Properties *)

Holds(c) == call[c].step \in {"check", "snapshot", "fetch", "wait"}

\* "built once on first use and reused afterwards" (ResourceCache.hpp): callers that got a
\* cell since the last eviction of its key share it with one another and with the cache,
\* however their lookups and builds overlapped.
SharedUntilEvicted ==
    \A c \in Callers :
        Holds(c) /\ call[c].since = evicted[call[c].key] => resources[call[c].key] = call[c].cell

\* "the fetch-once gate for callers" (Republishable.hpp): a call that begins when the cell
\* of its key is warm fetches nothing, unless the key is evicted before its lookup is over.
WarmCallsDoNotFetch ==
    \A c \in Callers :
        call[c].step \in {"fetch", "wait"} => call[c].since # call[c].warm

\* "Never yields an error from the fetch itself", and an error leaves a published snapshot
\* in place: a call with a seed returns one of both, one without a seed returns no seed.
AnswersAreUsable ==
    \A c \in Callers :
        /\ call[c].seeded => call[c].answer # Failed
        /\ ~call[c].seeded => call[c].answer # Seed
        /\ call[c].answer # Cold

\* Every call returns, unless the bounds on cells and fetches stop it.
CallsReturn ==
    \A c \in Callers :
        call[c].step # "idle" ~> call[c].step = "idle" \/ made = MaxCells \/ fetches = MaxFetches

\* Not so: of two fetches the one that was started first can be published last.
NewestIsServed == [][\A cell \in Cells : content'[cell] >= content[cell]]_cacheVars

=============================================================================
