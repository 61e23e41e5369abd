---------------------------- MODULE SourceHolder ----------------------------
(***************************************************************************)
(* html::SelectorSourceHolder and RegexSourceHolder, which are the same    *)
(* code: a swappable override source with two caches in front of it, the   *)
(* scoped view of each parser and the compiled set of each (parser, set    *)
(* type).  set() stores the new source first and drops the caches under    *)
(* the lock afterwards; a lookup takes the lock for each cache access and  *)
(* builds outside it.  Steps here are the accesses to shared state, so     *)
(* lookups and set() calls interleave wherever the code lets them.         *)
(*                                                                         *)
(* A source is its place in the order of the stores ("rev") and the set    *)
(* of parsers it has scoped overrides for.  A view and a compiled set are  *)
(* represented by the rev of the source they were built from.              *)
(***************************************************************************)
EXTENDS Naturals

CONSTANTS
    Readers,        \* threads inside set_for() or view_for()
    Setters,        \* threads inside set()
    Ids,            \* parser identifiers
    Types,          \* selector (pattern) set types
    NoType,         \* argument of a plain view_for() call
    MaxRev          \* bound: number of set() calls

ASSUME SourceHolderAssumption ==
    /\ NoType \notin Types
    /\ MaxRev \in Nat

Rev == 0..MaxRev
NoRev == MaxRev + 1      \* nothing cached
Sources == [rev : Rev, scope : SUBSET Ids]
TypedKeys == Ids \X Types
Points == {"idle", "findSet", "loadSource", "findView", "insertView", "insertSet", "done"}

VARIABLES
    source,         \* source_
    views,          \* views_
    sets,           \* sets_
    storing,        \* per setter: the rev it stored, while it has yet to clear
    pc,             \* per reader: the next access
    id,             \* argument parser_id
    type,           \* argument T, or NoType
    loaded,         \* view_for's local "source"
    view,           \* rev of the view the call got, then of its answer
    settled,        \* history: newest rev whose set() has returned
    floor,          \* history: "settled" when the call began
    late,           \* history: keys cached from a source that had been replaced,
                    \* and whose replacement's set() had returned, at that time
    tainted         \* history: calls that took the value of a late key

caches == <<views, sets, late>>
readerVars == <<pc, id, type, loaded, view, floor, tainted>>
vars == <<source, caches, storing, settled, readerVars>>

TypeOK ==
    /\ source \in Sources
    /\ views \in [Ids -> Rev \cup {NoRev}]
    /\ sets \in [TypedKeys -> Rev \cup {NoRev}]
    /\ storing \in [Setters -> Rev \cup {NoRev}]
    /\ pc \in [Readers -> Points]
    /\ id \in [Readers -> Ids]
    /\ type \in [Readers -> Types \cup {NoType}]
    /\ loaded \in [Readers -> Rev]
    /\ view \in [Readers -> Rev]
    /\ settled \in Rev
    /\ floor \in [Readers -> Rev]
    /\ late \in SUBSET (Ids \cup TypedKeys)
    /\ tainted \in SUBSET Readers

Init ==
    /\ source = [rev |-> 0, scope |-> {}]
    /\ views = [i \in Ids |-> NoRev]
    /\ sets = [k \in TypedKeys |-> NoRev]
    /\ storing = [s \in Setters |-> NoRev]
    /\ pc = [r \in Readers |-> "idle"]
    /\ id \in [Readers -> Ids]
    /\ type = [r \in Readers |-> NoType]
    /\ loaded = [r \in Readers |-> 0]
    /\ view = [r \in Readers |-> 0]
    /\ settled = 0
    /\ floor = [r \in Readers |-> 0]
    /\ late = {}
    /\ tainted = {}

-----------------------------------------------------------------------------
(* set() *)

\* A null argument is stored as an empty source, one that scopes nobody.
StoreSource(s) ==
    /\ storing[s] = NoRev
    /\ source.rev < MaxRev
    /\ \E scope \in SUBSET Ids : source' = [rev |-> source.rev + 1, scope |-> scope]
    /\ storing' = [storing EXCEPT ![s] = source.rev + 1]
    /\ UNCHANGED <<caches, settled, readerVars>>

\* Variants that forget one of the two caches.
ClearViewsOnly(s) ==
    /\ storing[s] # NoRev
    /\ views' = [i \in Ids |-> NoRev]
    /\ late' = {}
    /\ settled' = IF storing[s] > settled THEN storing[s] ELSE settled
    /\ storing' = [storing EXCEPT ![s] = NoRev]
    /\ UNCHANGED <<source, sets, readerVars>>

ClearSetsOnly(s) ==
    /\ storing[s] # NoRev
    /\ sets' = [k \in TypedKeys |-> NoRev]
    /\ late' = {}
    /\ settled' = IF storing[s] > settled THEN storing[s] ELSE settled
    /\ storing' = [storing EXCEPT ![s] = NoRev]
    /\ UNCHANGED <<source, views, readerVars>>

\* The unique_lock section of set(); the call returns.
ClearCaches(s) ==
    /\ storing[s] # NoRev
    /\ views' = [i \in Ids |-> NoRev]
    /\ sets' = [k \in TypedKeys |-> NoRev]
    /\ late' = {}
    /\ settled' = IF storing[s] > settled THEN storing[s] ELSE settled
    /\ storing' = [storing EXCEPT ![s] = NoRev]
    /\ UNCHANGED <<source, readerVars>>

-----------------------------------------------------------------------------
(* set_for<T>(id), and view_for(id) when there is no T *)

Goto(r, point) == pc' = [pc EXCEPT ![r] = point]

\* A view is known: view_for() returns it, and set_for() builds its set from it.
HasView(r, rev) ==
    /\ view' = [view EXCEPT ![r] = rev]
    /\ Goto(r, IF type[r] = NoType THEN "done" ELSE "insertSet")

\* The value r goes on with was found in the cache under this key.
Taint(r, key) == tainted' = IF key \in late THEN tainted \cup {r} ELSE tainted

\* r stores a value built from this rev under a key that held none.
Late(key, rev) == late' = IF rev < settled THEN late \cup {key} ELSE late

Call(r, i, t) ==
    /\ pc[r] = "idle"
    /\ id' = [id EXCEPT ![r] = i]
    /\ type' = [type EXCEPT ![r] = t]
    /\ floor' = [floor EXCEPT ![r] = settled]
    /\ Goto(r, IF t = NoType THEN "loadSource" ELSE "findSet")
    /\ UNCHANGED <<source, caches, storing, settled, loaded, view, tainted>>

\* shared_lock: the compiled set is cached, or it is not.
FindSet(r) ==
    LET k == <<id[r], type[r]>>
        cached == sets[k]
    IN
    /\ pc[r] = "findSet"
    /\ IF cached # NoRev
         THEN view' = [view EXCEPT ![r] = cached] /\ Goto(r, "done") /\ Taint(r, k)
         ELSE UNCHANGED <<view, tainted>> /\ Goto(r, "loadSource")
    /\ UNCHANGED <<source, caches, storing, settled, id, type, loaded, floor>>

\* view_for(): a source with nothing scoped to this parser is its own view.
LoadSource(r) ==
    /\ pc[r] = "loadSource"
    /\ loaded' = [loaded EXCEPT ![r] = source.rev]
    /\ IF id[r] \in source.scope
         THEN UNCHANGED view /\ Goto(r, "findView")
         ELSE HasView(r, source.rev)
    /\ UNCHANGED <<source, caches, storing, settled, id, type, floor, tainted>>

FindView(r) ==
    LET cached == views[id[r]] IN
    /\ pc[r] = "findView"
    /\ IF cached # NoRev
         THEN HasView(r, cached) /\ Taint(r, id[r])
         ELSE UNCHANGED <<view, tainted>> /\ Goto(r, "insertView")
    /\ UNCHANGED <<source, caches, storing, settled, id, type, loaded, floor>>

\* scoped_to() ran outside the lock; under it, try_emplace keeps an earlier winner.
InsertView(r) ==
    LET i == id[r]
        stored == IF views[i] = NoRev THEN loaded[r] ELSE views[i]
    IN
    /\ pc[r] = "insertView"
    /\ views' = [views EXCEPT ![i] = stored]
    /\ IF views[i] = NoRev
         THEN Late(i, loaded[r]) /\ UNCHANGED tainted
         ELSE Taint(r, i) /\ UNCHANGED late
    /\ HasView(r, stored)
    /\ UNCHANGED <<source, sets, storing, settled, id, type, loaded, floor>>

\* A variant in which the losing build overwrites the winner.
InsertSetOverwriting(r) ==
    LET k == <<id[r], type[r]>> IN
    /\ pc[r] = "insertSet"
    /\ sets' = [sets EXCEPT ![k] = view[r]]
    /\ Late(k, view[r])
    /\ Goto(r, "done")
    /\ UNCHANGED <<source, views, storing, settled, id, type, loaded, view, floor, tainted>>

\* T::create() ran outside the lock; the call returns what is stored.
InsertSet(r) ==
    LET k == <<id[r], type[r]>>
        stored == IF sets[k] = NoRev THEN view[r] ELSE sets[k]
    IN
    /\ pc[r] = "insertSet"
    /\ sets' = [sets EXCEPT ![k] = stored]
    /\ IF sets[k] = NoRev
         THEN Late(k, view[r]) /\ UNCHANGED tainted
         ELSE Taint(r, k) /\ UNCHANGED late
    /\ view' = [view EXCEPT ![r] = stored]
    /\ Goto(r, "done")
    /\ UNCHANGED <<source, views, storing, settled, id, type, loaded, floor>>

\* The caller has its answer in view[r]; the thread may call again.
Return(r) ==
    /\ pc[r] = "done"
    /\ Goto(r, "idle")
    /\ type' = [type EXCEPT ![r] = NoType]
    /\ loaded' = [loaded EXCEPT ![r] = 0]
    /\ view' = [view EXCEPT ![r] = 0]
    /\ floor' = [floor EXCEPT ![r] = 0]
    /\ tainted' = tainted \ {r}
    /\ UNCHANGED <<source, caches, storing, settled, id>>

-----------------------------------------------------------------------------

SetterNext(s) == StoreSource(s) \/ ClearCaches(s)

ReaderNext(r) ==
    \/ \E i \in Ids, t \in Types \cup {NoType} : Call(r, i, t)
    \/ FindSet(r) \/ LoadSource(r) \/ FindView(r) \/ InsertView(r) \/ InsertSet(r)
    \/ Return(r)

Next == \/ \E s \in Setters : SetterNext(s)
        \/ \E r \in Readers : ReaderNext(r)

Spec == Init /\ [][Next]_vars

-----------------------------------------------------------------------------
(* Properties *)

\* Store first, clear second, clear both: everything cached is at least as new as
\* the newest source whose set() has returned, except what a lookup that had been
\* outrun by that very set() put there afterwards.  The order matters: clearing
\* before the store would let a lookup cache the old source unnoticed.
CachesFollowSource ==
    /\ \A i \in Ids : views[i] # NoRev /\ i \notin late => views[i] >= settled
    /\ \A k \in TypedKeys : sets[k] # NoRev /\ k \notin late => sets[k] >= settled

\* One compiled copy per (parser, set type) until the next set(): whatever builds
\* race, a stored set is never replaced, only dropped with all the others.
OneCopyUntilCleared ==
    [][\A k \in TypedKeys : sets[k] # NoRev => sets'[k] = sets[k] \/ \A j \in TypedKeys : sets'[j] = NoRev]_vars

\* A lookup that began when a set() had returned is answered from that source or a
\* newer one: "later builds see the new source" (SelectorSource.hpp:173), "cached
\* until the next set()" (:183).
FreshAnswers == \A r \in Readers : pc[r] = "done" => view[r] >= floor[r]

\* ...which holds of every call but those that found a late key: without a lookup
\* outrun by set() nobody is ever answered from a replaced source, however many
\* calls and set()s overlap.
StaleOnlyThroughLateKeys ==
    \A r \in Readers : pc[r] = "done" /\ r \notin tainted => view[r] >= floor[r]

=============================================================================
