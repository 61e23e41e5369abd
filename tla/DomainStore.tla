----------------------------- MODULE DomainStore -----------------------------
(***************************************************************************)
(* detail::DomainStore: the immutable-snapshot registry under ParserStore  *)
(* and VideoExtractorStore.  Writers edit a private draft and swap one new *)
(* snapshot in under writer_mutex_; readers load the snapshot pointer once *)
(* and keep it for the whole lookup.                                       *)
(*                                                                         *)
(* A snapshot lives at an address.  The code decides that an edit is stale *)
(* by comparing snapshot POINTERS, so addresses are reused here as soon as *)
(* no shared_ptr refers to them: whether the comparison can be fooled by a *)
(* new snapshot at an old address is part of what is checked.              *)
(***************************************************************************)
CONSTANTS
    Editors,        \* threads that use begin_edit()
    Readers,        \* threads that look parsers up
    Ids,            \* parser (extractor) identifiers
    Values,         \* registered objects
    Overrides,      \* volatile-domain maps a catalog can supply
    NoOverrides,    \* the empty one
    Addr,           \* heap addresses a snapshot can be built at
    NoValue,        \* absent entry
    NoAddr,         \* null snapshot pointer
    NoEditor,       \* nobody holds writer_mutex_
    RetryFailed     \* TRUE: a client calls commit() again after it threw

ASSUME DomainStoreAssumption ==
    /\ NoOverrides \in Overrides
    /\ NoValue \notin Values
    /\ NoAddr \notin Addr
    /\ NoEditor \notin Editors
    /\ RetryFailed \in BOOLEAN

VARIABLES
    heap,           \* what each address holds
    live,           \* snapshot_: the published snapshot
    writer,         \* who holds writer_mutex_
    phase,          \* where each edit is in its life
    base,           \* Edit::base_, a shared_ptr: it keeps its snapshot alive
    draft,          \* Edit::entries_ and volatile_domains_
    touched,        \* history: the identifiers an edit added or removed
    refreshed,      \* history: did the edit set the volatile domains?
    held,           \* the snapshot each running lookup loaded
    seen            \* history: what that snapshot held when it was loaded

editorVars == <<phase, base, draft, touched, refreshed>>
readerVars == <<held, seen>>
vars == <<heap, live, writer, editorVars, readerVars>>

Content == [entries : [Ids -> Values \cup {NoValue}], volatile : Overrides]
EmptyContent == [entries |-> [i \in Ids |-> NoValue], volatile |-> NoOverrides]

\* Freed memory.  Nothing reads it, and one value for all of it keeps the state
\* space small.
Freed == [entries |-> [i \in Ids |-> NoValue], volatile |-> NoOverrides]

Phases == {"idle", "open", "building", "spent", "failed"}

TypeOK ==
    /\ heap \in [Addr -> Content]
    /\ live \in Addr
    /\ writer \in Editors \cup {NoEditor}
    /\ phase \in [Editors -> Phases]
    /\ base \in [Editors -> Addr \cup {NoAddr}]
    /\ draft \in [Editors -> Content]
    /\ touched \in [Editors -> SUBSET Ids]
    /\ refreshed \in [Editors -> BOOLEAN]
    /\ held \in [Readers -> Addr \cup {NoAddr}]
    /\ seen \in [Readers -> Content]

Init ==
    /\ heap = [a \in Addr |-> EmptyContent]
    /\ live \in Addr
    /\ writer = NoEditor
    /\ phase = [e \in Editors |-> "idle"]
    /\ base = [e \in Editors |-> NoAddr]
    /\ draft = [e \in Editors |-> EmptyContent]
    /\ touched = [e \in Editors |-> {}]
    /\ refreshed = [e \in Editors |-> FALSE]
    /\ held = [r \in Readers |-> NoAddr]
    /\ seen = [r \in Readers |-> EmptyContent]

registry == heap[live]

-----------------------------------------------------------------------------
(* Reference counting *)

\* Variants of the definition below them, each with one plausible mistake, are
\* what the properties are tried against; no specification uses them.
ReferencedButBases == {live} \cup {held[r] : r \in Readers}
ReferencedButLookups == {live} \cup {base[e] : e \in Editors}

Referenced == {live} \cup {base[e] : e \in Editors} \cup {held[r] : r \in Readers}

\* A step that drops or moves a shared_ptr frees the snapshots nothing refers to
\* any more.
Sweep(h) == heap' = [a \in Addr |-> IF a \in Referenced' THEN h[a] ELSE Freed]

-----------------------------------------------------------------------------
(* Writers *)

BeginEdit(e) ==
    /\ phase[e] = "idle"
    /\ phase' = [phase EXCEPT ![e] = "open"]
    /\ base' = [base EXCEPT ![e] = live]
    /\ draft' = [draft EXCEPT ![e] = registry]
    /\ UNCHANGED <<heap, live, writer, touched, refreshed, readerVars>>

\* add() of an identifier the draft holds changes nothing (add_parser throws).
Add(e, i, v) ==
    /\ phase[e] = "open"
    /\ draft[e].entries[i] = NoValue
    /\ draft' = [draft EXCEPT ![e].entries[i] = v]
    /\ touched' = [touched EXCEPT ![e] = @ \cup {i}]
    /\ UNCHANGED <<heap, live, writer, phase, base, refreshed, readerVars>>

RemoveId(e, i) ==
    /\ phase[e] = "open"
    /\ draft[e].entries[i] # NoValue
    /\ draft' = [draft EXCEPT ![e].entries[i] = NoValue]
    /\ touched' = [touched EXCEPT ![e] = @ \cup {i}]
    /\ UNCHANGED <<heap, live, writer, phase, base, refreshed, readerVars>>

SetVolatile(e, o) ==
    /\ phase[e] = "open"
    /\ draft' = [draft EXCEPT ![e].volatile = o]
    /\ refreshed' = [refreshed EXCEPT ![e] = TRUE]
    /\ UNCHANGED <<heap, live, writer, phase, base, touched, readerVars>>

\* commit() moves the draft's maps into the store's commit(), so the edit is empty
\* from here on whatever happens; "draft" then stands for the moved parameters.
CanCommit(e) == phase[e] = "open" \/ (phase[e] = "failed" /\ RetryFailed)

EnterCommitUnlocked(e) ==
    /\ CanCommit(e)
    /\ base[e] = live
    /\ writer' = e
    /\ phase' = [phase EXCEPT ![e] = "building"]
    /\ UNCHANGED <<heap, live, base, draft, touched, refreshed, readerVars>>

EnterCommitUncompared(e) ==
    /\ CanCommit(e)
    /\ writer = NoEditor
    /\ writer' = e
    /\ phase' = [phase EXCEPT ![e] = "building"]
    /\ UNCHANGED <<heap, live, base, draft, touched, refreshed, readerVars>>

\* writer_mutex_ taken, live == base: make_snapshot() starts.
EnterCommit(e) ==
    /\ CanCommit(e)
    /\ writer = NoEditor
    /\ base[e] = live
    /\ writer' = e
    /\ phase' = [phase EXCEPT ![e] = "building"]
    /\ UNCHANGED <<heap, live, base, draft, touched, refreshed, readerVars>>

\* live != base: logic_error, the lock is released and the maps are gone.
RejectStale(e) ==
    /\ CanCommit(e)
    /\ writer = NoEditor
    /\ base[e] # live
    /\ phase' = [phase EXCEPT ![e] = "failed"]
    /\ draft' = [draft EXCEPT ![e] = EmptyContent]
    /\ UNCHANGED <<heap, live, writer, base, touched, refreshed, readerVars>>

\* The new snapshot, at any address no shared_ptr refers to, becomes live.
Publish(e) ==
    /\ phase[e] = "building"
    /\ \E a \in Addr \ Referenced :
         /\ live' = a
         /\ UNCHANGED <<base, held>>
         /\ Sweep([heap EXCEPT ![a] = draft[e]])
    /\ writer' = NoEditor
    /\ phase' = [phase EXCEPT ![e] = "spent"]
    /\ draft' = [draft EXCEPT ![e] = EmptyContent]
    /\ touched' = [touched EXCEPT ![e] = {}]
    /\ refreshed' = [refreshed EXCEPT ![e] = FALSE]
    /\ UNCHANGED seen

\* emplace_domains() or an allocation throws inside make_snapshot(): the lock is
\* released, nothing is published, and the edit keeps store_ and base_.
BuildThrows(e) ==
    /\ phase[e] = "building"
    /\ writer' = NoEditor
    /\ phase' = [phase EXCEPT ![e] = "failed"]
    /\ draft' = [draft EXCEPT ![e] = EmptyContent]
    /\ UNCHANGED <<heap, live, base, touched, refreshed, readerVars>>

\* The Edit is destroyed, committed or not.  A spent Edit keeps base_ until then.
Discard(e) ==
    /\ phase[e] \in {"open", "spent", "failed"}
    /\ phase' = [phase EXCEPT ![e] = "idle"]
    /\ base' = [base EXCEPT ![e] = NoAddr]
    /\ draft' = [draft EXCEPT ![e] = EmptyContent]
    /\ touched' = [touched EXCEPT ![e] = {}]
    /\ refreshed' = [refreshed EXCEPT ![e] = FALSE]
    /\ UNCHANGED <<live, writer, readerVars>>
    /\ Sweep(heap)

-----------------------------------------------------------------------------
(* Readers: find_by_key, find_by_host, values.  No lock; the virtual         *)
(* valid_for_url() calls of a host lookup run between the two steps.         *)

BeginLookup(r) ==
    /\ held[r] = NoAddr
    /\ held' = [held EXCEPT ![r] = live]
    /\ seen' = [seen EXCEPT ![r] = registry]
    /\ UNCHANGED <<heap, live, writer, editorVars>>

EndLookup(r) ==
    /\ held[r] # NoAddr
    /\ held' = [held EXCEPT ![r] = NoAddr]
    /\ seen' = [seen EXCEPT ![r] = EmptyContent]
    /\ UNCHANGED <<live, writer, editorVars>>
    /\ Sweep(heap)

-----------------------------------------------------------------------------

EditorNext(e) ==
    \/ BeginEdit(e)
    \/ \E i \in Ids, v \in Values : Add(e, i, v)
    \/ \E i \in Ids : RemoveId(e, i)
    \/ \E o \in Overrides : SetVolatile(e, o)
    \/ EnterCommit(e)
    \/ RejectStale(e)
    \/ Publish(e)
    \/ BuildThrows(e)
    \/ Discard(e)

ReaderNext(r) == BeginLookup(r) \/ EndLookup(r)

Next == \/ \E e \in Editors : EditorNext(e)
        \/ \E r \in Readers : ReaderNext(r)

Spec == Init /\ [][Next]_vars

-----------------------------------------------------------------------------
(* Properties *)

\* No lost update: an entry or the volatile domains change only by the publication
\* of an edit whose client changed that very entry, or the volatile domains.  It
\* is what makes "a stale edit is rejected rather than silently overwriting"
\* (DomainStore.hpp:27-28) enough for writers that never heard of each other.
ByItsEditor(i) ==
    \E e \in Editors : phase[e] = "building" /\ phase'[e] = "spent" /\ i \in touched[e]
ByARefresh ==
    \E e \in Editors : phase[e] = "building" /\ phase'[e] = "spent" /\ refreshed[e]

NoLostUpdate ==
    [][/\ \A i \in Ids : registry.entries[i] # registry'.entries[i] => ByItsEditor(i)
       /\ registry.volatile # registry'.volatile => ByARefresh]_vars

\* A lookup keeps searching the registry as it was when the lookup began, whatever
\* is committed or freed meanwhile (ParserStore.hpp:117-118).
LookupIsolation == \A r \in Readers : held[r] # NoAddr => heap[held[r]] = seen[r]

\* While one edit builds its snapshot no other commit is past the comparison, and
\* the snapshot the edit was based on is still the live one.
BuildingIsExclusive ==
    \A e \in Editors : phase[e] = "building" => writer = e /\ base[e] = live

\* Two open edits of the same snapshot: at most one of them ever gets published.
\* After a publication every other edit in progress is based on something else
\* than the live snapshot, so its commit will throw.
PublishOutdatesOthers ==
    [][\A e, f \in Editors :
         (phase[e] = "building" /\ phase'[e] = "spent" /\ e # f /\ phase[f] \in {"open", "failed"})
             => base'[f] # live']_vars

-----------------------------------------------------------------------------
(* Refinement of Registry *)

InProgress(e) == phase[e] \in {"open", "building"}

viewBar == [e \in Editors |-> IF ~InProgress(e) THEN "none"
                              ELSE IF base[e] = live THEN "current" ELSE "outdated"]

R == INSTANCE Registry WITH registry <- registry, view <- viewBar

\* A pointer comparison under a mutex is as good as comparing revisions: every
\* behaviour of the store is one of the atomic registry.
ImplementsRegistry == R!Spec

=============================================================================
