-------------------------- MODULE DomainStoreProofs --------------------------
(***************************************************************************)
(* Proofs about DomainStore, for any sets of editors, readers, identifiers *)
(* and addresses, and about Routing: the tree in each of its snapshots,    *)
(* for any parsers, domains and catalogs.                                  *)
(***************************************************************************)
EXTENDS DomainStore, Routing, AlgorithmProofs, SequenceTheorems, TLAPS

\* What ties a draft to the snapshot it was copied from while that snapshot is
\* still live: they agree wherever the edit did not write.
DraftFollowsBase ==
    \A e \in Editors : InProgress(e) /\ base[e] = live =>
        /\ \A i \in Ids \ touched[e] : draft[e].entries[i] = registry.entries[i]
        /\ ~refreshed[e] => draft[e].volatile = registry.volatile

\* A commit moves the maps out of the edit, so only an edit in progress has any.
MovedOut == \A e \in Editors : ~InProgress(e) => draft[e] = EmptyContent

IInv ==
    /\ TypeOK
    /\ MovedOut
    /\ BuildingIsExclusive
    /\ LookupIsolation
    /\ ~RetryFailed => DraftFollowsBase

-----------------------------------------------------------------------------
(* Lemmas *)

\* What a moved-out map holds is what freed memory holds: no entries.
LEMMA EmptyIsContent == EmptyContent \in Content /\ Freed = EmptyContent
BY DomainStoreAssumption DEF EmptyContent, Content, Freed

\* Freeing leaves every snapshot alone that somebody still points to.
LEMMA SweepKeepsReferenced ==
    ASSUME NEW h \in [Addr -> Content], Sweep(h)
    PROVE  /\ heap' \in [Addr -> Content]
           /\ \A a \in Addr : a \in Referenced' => heap'[a] = h[a]
           /\ live' \in Addr => heap'[live'] = h[live']
<1>1. heap' \in [Addr -> Content] /\ \A a \in Addr : a \in Referenced' => heap'[a] = h[a]
  BY EmptyIsContent DEF Sweep
<1>2. live' \in Referenced'
  BY DEF Referenced
<1> QED BY <1>1, <1>2

\* Every shared_ptr counts as a reference.
LEMMA PointersAreReferenced ==
    /\ live \in Referenced
    /\ \A e \in Editors : base[e] \in Referenced
    /\ \A r \in Readers : held[r] \in Referenced
BY DEF Referenced

-----------------------------------------------------------------------------
(* Type correctness *)

\* Every step keeps the variables in their types.
LEMMA TypeStep == TypeOK /\ [Next]_vars => TypeOK'
<1> USE DomainStoreAssumption, EmptyIsContent
<1> SUFFICES ASSUME TypeOK, [Next]_vars PROVE TypeOK'
  OBVIOUS
<1> registry \in Content
  BY DEF TypeOK, registry
<1>1. ASSUME NEW e \in Editors, EditorNext(e) PROVE TypeOK'
  <2>1. CASE BeginEdit(e)
    BY <2>1 DEF TypeOK, BeginEdit, Phases, readerVars
  <2>2. ASSUME NEW i \in Ids, NEW v \in Values, Add(e, i, v) PROVE TypeOK'
    <3>1. [draft[e] EXCEPT !.entries[i] = v] \in Content
      BY DEF TypeOK, Content
    <3>2. draft' \in [Editors -> Content]
      BY <2>2, <3>1 DEF TypeOK, Add
    <3> QED BY <2>2, <3>2 DEF TypeOK, Add, Phases, readerVars
  <2>3. ASSUME NEW i \in Ids, RemoveId(e, i) PROVE TypeOK'
    <3>1. [draft[e] EXCEPT !.entries[i] = NoValue] \in Content
      BY DEF TypeOK, Content
    <3>2. draft' \in [Editors -> Content]
      BY <2>3, <3>1 DEF TypeOK, RemoveId
    <3> QED BY <2>3, <3>2 DEF TypeOK, RemoveId, Phases, readerVars
  <2>4. ASSUME NEW o \in Overrides, SetVolatile(e, o) PROVE TypeOK'
    <3>1. [draft[e] EXCEPT !.volatile = o] \in Content
      BY DEF TypeOK, Content
    <3>2. draft' \in [Editors -> Content]
      BY <2>4, <3>1 DEF TypeOK, SetVolatile
    <3> QED BY <2>4, <3>2 DEF TypeOK, SetVolatile, Phases, readerVars
  <2>5. CASE EnterCommit(e)
    BY <2>5 DEF TypeOK, EnterCommit, Phases, readerVars
  <2>6. CASE RejectStale(e)
    BY <2>6 DEF TypeOK, RejectStale, Phases, readerVars
  <2>7. CASE Publish(e)
    <3>1. PICK a \in Addr \ Referenced :
            live' = a /\ Sweep([heap EXCEPT ![a] = draft[e]])
      BY <2>7 DEF Publish
    <3>2. [heap EXCEPT ![a] = draft[e]] \in [Addr -> Content]
      BY DEF TypeOK
    <3>3. heap' \in [Addr -> Content]
      BY <3>1, <3>2, SweepKeepsReferenced
    <3> QED BY <2>7, <3>1, <3>3 DEF TypeOK, Publish, Phases
  <2>8. CASE BuildThrows(e)
    BY <2>8 DEF TypeOK, BuildThrows, Phases, readerVars
  <2>9. CASE Discard(e)
    <3>1. heap' \in [Addr -> Content]
      BY <2>9, SweepKeepsReferenced DEF TypeOK, Discard
    <3> QED BY <2>9, <3>1 DEF TypeOK, Discard, Phases, readerVars
  <2> QED BY <1>1, <2>1, <2>2, <2>3, <2>4, <2>5, <2>6, <2>7, <2>8, <2>9 DEF EditorNext
<1>2. ASSUME NEW r \in Readers, ReaderNext(r) PROVE TypeOK'
  <2>1. CASE BeginLookup(r)
    BY <2>1 DEF TypeOK, BeginLookup, editorVars
  <2>2. CASE EndLookup(r)
    <3>1. heap' \in [Addr -> Content]
      BY <2>2, SweepKeepsReferenced DEF TypeOK, EndLookup
    <3> QED BY <2>2, <3>1 DEF TypeOK, EndLookup, editorVars
  <2> QED BY <1>2, <2>1, <2>2 DEF ReaderNext
<1>3. CASE UNCHANGED vars
  BY <1>3 DEF TypeOK, vars, editorVars, readerVars
<1> QED BY <1>1, <1>2, <1>3 DEF Next

\* The variables of the store keep their types in every behaviour.
THEOREM TypeCorrect == Spec => []TypeOK
<1>1. Init => TypeOK
  BY DomainStoreAssumption, EmptyIsContent DEF Init, TypeOK, Phases
<1> QED BY <1>1, TypeStep, PTL DEF Spec

-----------------------------------------------------------------------------
(* The inductive invariant *)

\* Only Publish, Discard and EndLookup free memory, and a running lookup keeps its
\* own snapshot out of the sweep.
LEMMA LookupStep ==
    ASSUME IInv, [Next]_vars
    PROVE  LookupIsolation'
<1> USE DEF IInv, LookupIsolation
<1>1. CASE UNCHANGED heap /\ UNCHANGED readerVars
  BY <1>1 DEF readerVars
<1>2. ASSUME NEW e \in Editors, Publish(e) PROVE LookupIsolation'
  <2>1. PICK a \in Addr \ Referenced :
          live' = a /\ Sweep([heap EXCEPT ![a] = draft[e]])
    BY <1>2 DEF Publish
  <2>2. [heap EXCEPT ![a] = draft[e]] \in [Addr -> Content]
    BY DEF TypeOK
  <2>3. \A r \in Readers : held[r] # a /\ held'[r] = held[r] /\ seen'[r] = seen[r]
    BY <1>2, PointersAreReferenced DEF Publish
  <2>4. \A r \in Readers : held'[r] \in Referenced'
    BY DEF Referenced
  <2>5. \A b \in Addr : b \in Referenced' => heap'[b] = [heap EXCEPT ![a] = draft[e]][b]
    BY <2>1, <2>2, SweepKeepsReferenced
  <2> QED BY <2>2, <2>3, <2>4, <2>5, DomainStoreAssumption DEF TypeOK
<1>3. ASSUME NEW e \in Editors, Discard(e) PROVE LookupIsolation'
  <2>1. \A r \in Readers : held'[r] = held[r] /\ seen'[r] = seen[r]
    BY <1>3 DEF Discard, readerVars
  <2>2. \A r \in Readers : held'[r] \in Referenced'
    BY DEF Referenced
  <2>3. \A b \in Addr : b \in Referenced' => heap'[b] = heap[b]
    BY <1>3, SweepKeepsReferenced DEF Discard, TypeOK
  <2> QED BY <2>1, <2>2, <2>3, DomainStoreAssumption DEF TypeOK
<1>4. ASSUME NEW r \in Readers, BeginLookup(r) PROVE LookupIsolation'
  BY <1>4, DomainStoreAssumption DEF BeginLookup, TypeOK, registry
<1>5. ASSUME NEW r \in Readers, EndLookup(r) PROVE LookupIsolation'
  <2>1. \A x \in Readers : x # r => held'[x] = held[x] /\ seen'[x] = seen[x]
    BY <1>5 DEF EndLookup, TypeOK
  <2>2. held'[r] = NoAddr
    BY <1>5 DEF EndLookup, TypeOK
  <2>3. \A x \in Readers : held'[x] \in Referenced'
    BY DEF Referenced
  <2>4. \A b \in Addr : b \in Referenced' => heap'[b] = heap[b]
    BY <1>5, SweepKeepsReferenced DEF EndLookup, TypeOK
  <2> QED BY <2>1, <2>2, <2>3, <2>4, DomainStoreAssumption DEF TypeOK
<1> QED
  BY <1>1, <1>2, <1>3, <1>4, <1>5
  DEF Next, EditorNext, ReaderNext, BeginEdit, Add, RemoveId, SetVolatile, EnterCommit,
      RejectStale, BuildThrows, vars, readerVars

\* The mutex and the comparison under it: nobody can publish while an edit builds.
LEMMA ExclusionStep ==
    ASSUME IInv, [Next]_vars
    PROVE  BuildingIsExclusive'
<1> USE DomainStoreAssumption DEF IInv, BuildingIsExclusive, TypeOK
<1>1. ASSUME NEW e \in Editors, EditorNext(e) PROVE BuildingIsExclusive'
  <2>1. CASE BeginEdit(e)
    BY <2>1 DEF BeginEdit
  <2>2. CASE \/ \E i \in Ids, v \in Values : Add(e, i, v)
             \/ \E i \in Ids : RemoveId(e, i)
             \/ \E o \in Overrides : SetVolatile(e, o)
    BY <2>2 DEF Add, RemoveId, SetVolatile
  <2>3. CASE EnterCommit(e) \/ RejectStale(e)
    BY <2>3 DEF EnterCommit, RejectStale
  <2>4. CASE Publish(e) \/ BuildThrows(e)
    BY <2>4 DEF Publish, BuildThrows
  <2>5. CASE Discard(e)
    BY <2>5 DEF Discard
  <2> QED BY <1>1, <2>1, <2>2, <2>3, <2>4, <2>5 DEF EditorNext
<1>2. ASSUME NEW r \in Readers, ReaderNext(r) PROVE BuildingIsExclusive'
  BY <1>2 DEF ReaderNext, BeginLookup, EndLookup, editorVars
<1>3. CASE UNCHANGED vars
  BY <1>3 DEF vars, editorVars
<1> QED BY <1>1, <1>2, <1>3 DEF Next

\* An editor outside an edit has no draft left of the one before.
LEMMA MovedOutStep == ASSUME IInv, [Next]_vars PROVE MovedOut'
<1> USE DEF IInv, MovedOut, InProgress, TypeOK
<1>1. ASSUME NEW e \in Editors, EditorNext(e) PROVE MovedOut'
  <2>1. CASE BeginEdit(e) \/ EnterCommit(e) \/ RejectStale(e)
    BY <2>1 DEF BeginEdit, EnterCommit, RejectStale
  <2>2. CASE \/ \E i \in Ids, v \in Values : Add(e, i, v)
             \/ \E i \in Ids : RemoveId(e, i)
             \/ \E o \in Overrides : SetVolatile(e, o)
    BY <2>2 DEF Add, RemoveId, SetVolatile
  <2>3. CASE Publish(e) \/ BuildThrows(e) \/ Discard(e)
    BY <2>3 DEF Publish, BuildThrows, Discard
  <2> QED BY <1>1, <2>1, <2>2, <2>3 DEF EditorNext
<1>2. ASSUME NEW r \in Readers, ReaderNext(r) PROVE MovedOut'
  BY <1>2 DEF ReaderNext, BeginLookup, EndLookup, editorVars
<1>3. CASE UNCHANGED vars
  BY <1>3 DEF vars, editorVars
<1> QED BY <1>1, <1>2, <1>3 DEF Next

\* Nobody's step makes a draft and its live base differ where the edit did not
\* write: the edit records what it writes, and publishing gives every other edit
\* an origin that is no longer live.
LEMMA DraftStep ==
    ASSUME IInv, [Next]_vars, ~RetryFailed
    PROVE  DraftFollowsBase'
<1> USE DomainStoreAssumption DEF IInv, DraftFollowsBase, InProgress, registry
<1> DEFINE Follows(e) ==
      InProgress(e) /\ base[e] = live =>
        /\ \A i \in Ids \ touched[e] : draft[e].entries[i] = heap[live].entries[i]
        /\ ~refreshed[e] => draft[e].volatile = heap[live].volatile
<1> SUFFICES ASSUME NEW f \in Editors PROVE Follows(f)'
  OBVIOUS
<1>0. Follows(f)
  OBVIOUS
<1>1. ASSUME NEW e \in Editors, EditorNext(e) PROVE Follows(f)'
  <2>1. CASE BeginEdit(e)
    BY <2>1, <1>0 DEF BeginEdit, TypeOK
  <2>2. ASSUME NEW i \in Ids, NEW v \in Values, Add(e, i, v) PROVE Follows(f)'
    <3>1. draft[e] \in Content
      BY DEF TypeOK
    <3>2. e = f => /\ \A j \in Ids \ {i} : draft'[f].entries[j] = draft[f].entries[j]
                   /\ draft'[f].volatile = draft[f].volatile
                   /\ touched'[f] = touched[f] \cup {i}
      BY <2>2, <3>1 DEF Add, TypeOK, Content
    <3> QED BY <2>2, <3>2, <1>0 DEF Add, TypeOK
  <2>3. ASSUME NEW i \in Ids, RemoveId(e, i) PROVE Follows(f)'
    <3>1. draft[e] \in Content
      BY DEF TypeOK
    <3>2. e = f => /\ \A j \in Ids \ {i} : draft'[f].entries[j] = draft[f].entries[j]
                   /\ draft'[f].volatile = draft[f].volatile
                   /\ touched'[f] = touched[f] \cup {i}
      BY <2>3, <3>1 DEF RemoveId, TypeOK, Content
    <3> QED BY <2>3, <3>2, <1>0 DEF RemoveId, TypeOK
  <2>4. ASSUME NEW o \in Overrides, SetVolatile(e, o) PROVE Follows(f)'
    <3>1. e = f => draft'[f].entries = draft[f].entries /\ refreshed'[f]
      BY <2>4 DEF SetVolatile, TypeOK, Content
    <3> QED BY <2>4, <3>1, <1>0 DEF SetVolatile, TypeOK
  <2>5. CASE EnterCommit(e)
    BY <2>5, <1>0 DEF EnterCommit, CanCommit, TypeOK
  <2>6. CASE RejectStale(e)
    BY <2>6, <1>0 DEF RejectStale, TypeOK
  <2>7. CASE Publish(e)
    BY <2>7 DEF Publish, TypeOK, Referenced
  <2>8. CASE BuildThrows(e)
    BY <2>8, <1>0 DEF BuildThrows, TypeOK
  <2>9. CASE Discard(e)
    <3>1. heap'[live'] = heap[live]
      BY <2>9, SweepKeepsReferenced DEF Discard, TypeOK
    <3> QED BY <2>9, <3>1, <1>0 DEF Discard, TypeOK
  <2> QED BY <1>1, <2>1, <2>2, <2>3, <2>4, <2>5, <2>6, <2>7, <2>8, <2>9 DEF EditorNext
<1>2. ASSUME NEW r \in Readers, BeginLookup(r) PROVE Follows(f)'
  BY <1>2, <1>0 DEF BeginLookup, editorVars
<1>3. ASSUME NEW r \in Readers, EndLookup(r) PROVE Follows(f)'
  <2>1. heap'[live'] = heap[live]
    BY <1>3, SweepKeepsReferenced DEF EndLookup, TypeOK
  <2> QED BY <1>3, <2>1, <1>0 DEF EndLookup, editorVars
<1>4. CASE UNCHANGED vars
  BY <1>4, <1>0 DEF vars, editorVars
<1> QED BY <1>1, <1>2, <1>3, <1>4 DEF Next, ReaderNext

\* The invariant every other result is taken from.
THEOREM Invariance == Spec => []IInv
<1>1. Init => IInv
  BY DomainStoreAssumption, EmptyIsContent
  DEF Init, IInv, TypeOK, Phases, BuildingIsExclusive, LookupIsolation, DraftFollowsBase, MovedOut, InProgress
<1>2. IInv /\ [Next]_vars => IInv'
  BY TypeStep, ExclusionStep, MovedOutStep, LookupStep, DraftStep DEF IInv
<1> QED BY <1>1, <1>2, PTL DEF Spec

\* A lookup searches one registry from its first step to its last.
THEOREM LookupsAreIsolated == Spec => []LookupIsolation
BY Invariance, PTL DEF IInv

\* Between the comparison and the publication nobody else publishes.
THEOREM BuildsAreExclusive == Spec => []BuildingIsExclusive
BY Invariance, PTL DEF IInv

-----------------------------------------------------------------------------
(* Action properties *)

\* The registry moves only in Publish.
LEMMA OnlyPublishMovesRegistry ==
    ASSUME IInv, [Next]_vars, ~ \E e \in Editors : Publish(e)
    PROVE  live' = live /\ registry' = registry
<1> USE DEF IInv, registry
<1>1. ASSUME NEW e \in Editors, Discard(e) PROVE live' = live /\ registry' = registry
  BY <1>1, SweepKeepsReferenced DEF Discard, TypeOK
<1>2. ASSUME NEW r \in Readers, EndLookup(r) PROVE live' = live /\ registry' = registry
  BY <1>2, SweepKeepsReferenced DEF EndLookup, TypeOK
<1> QED
  BY <1>1, <1>2
  DEF Next, EditorNext, ReaderNext, BeginEdit, Add, RemoveId, SetVolatile, EnterCommit,
      RejectStale, BuildThrows, BeginLookup, vars

\* What Publish makes of the registry.
LEMMA PublishInstallsDraft ==
    ASSUME IInv, NEW e \in Editors, Publish(e)
    PROVE  /\ registry' = draft[e]
           /\ live' \in Addr \ Referenced
           /\ phase[e] = "building" /\ phase'[e] = "spent"
<1>1. PICK a \in Addr \ Referenced :
        live' = a /\ Sweep([heap EXCEPT ![a] = draft[e]])
  BY DEF Publish
<1>2. [heap EXCEPT ![a] = draft[e]] \in [Addr -> Content]
  BY DEF IInv, TypeOK
<1>3. registry' = draft[e]
  BY <1>1, <1>2, SweepKeepsReferenced DEF registry, IInv, TypeOK
<1> QED BY <1>1, <1>3 DEF Publish, IInv, TypeOK

\* No entry and no volatile domain is lost to an edit that did not mean to change
\* it, for clients that drop an edit whose commit threw.
THEOREM NoUpdateIsLost == ASSUME ~RetryFailed PROVE Spec => NoLostUpdate
<1> DEFINE Kept ==
      /\ \A i \in Ids : registry.entries[i] # registry'.entries[i] => ByItsEditor(i)
      /\ registry.volatile # registry'.volatile => ByARefresh
<1>1. IInv /\ [Next]_vars => [Kept]_vars
  <2> SUFFICES ASSUME IInv, [Next]_vars PROVE Kept
    OBVIOUS
  <2>1. ASSUME NEW e \in Editors, Publish(e) PROVE Kept
    <3>1. registry' = draft[e] /\ phase[e] = "building" /\ phase'[e] = "spent"
      BY <2>1, PublishInstallsDraft
    <3>2. /\ \A i \in Ids \ touched[e] : draft[e].entries[i] = registry.entries[i]
          /\ ~refreshed[e] => draft[e].volatile = registry.volatile
      BY <3>1 DEF IInv, BuildingIsExclusive, DraftFollowsBase, InProgress
    <3> QED BY <3>1, <3>2 DEF ByItsEditor, ByARefresh
  <2>2. CASE ~ \E e \in Editors : Publish(e)
    BY <2>2, OnlyPublishMovesRegistry
  <2> QED BY <2>1, <2>2
<1> QED BY <1>1, Invariance, PTL DEF Spec, NoLostUpdate

\* Two edits of one snapshot never both get in.
THEOREM PublicationOutdates == Spec => PublishOutdatesOthers
<1> DEFINE Outdates ==
      \A e, f \in Editors :
         (phase[e] = "building" /\ phase'[e] = "spent" /\ e # f /\ phase[f] \in {"open", "failed"})
             => base'[f] # live'
<1>1. IInv /\ [Next]_vars => [Outdates]_vars
  <2> SUFFICES ASSUME IInv, [Next]_vars, NEW e \in Editors, NEW f \in Editors,
                      phase[e] = "building", phase'[e] = "spent", e # f
               PROVE  base'[f] # live'
    OBVIOUS
  <2>1. Publish(e)
    BY DEF Next, EditorNext, ReaderNext, BeginEdit, Add, RemoveId, SetVolatile, EnterCommit,
           RejectStale, Publish, BuildThrows, Discard, BeginLookup, EndLookup, vars, editorVars,
           IInv, TypeOK
  <2>2. base' = base /\ live' \notin Referenced
    BY <2>1, PublishInstallsDraft DEF Publish
  <2> QED BY <2>2, PointersAreReferenced
<1> QED BY <1>1, Invariance, PTL DEF Spec, PublishOutdatesOthers

-----------------------------------------------------------------------------
(* Refinement *)

\* Every step of the store is a step of the atomic registry, or changes nothing it
\* can see.
LEMMA StepRefines ==
    ASSUME IInv, [Next]_vars, ~RetryFailed
    PROVE  [R!Next]_R!vars
<1> USE DomainStoreAssumption DEF IInv, viewBar, InProgress
<1>1. ASSUME NEW e \in Editors, EditorNext(e) PROVE [R!Next]_R!vars
  <2> SUFFICES R!Begin(e) \/ R!Change(e) \/ R!Commit(e) \/ R!Close(e) \/ UNCHANGED R!vars
    BY DEF R!Next
  <2>1. CASE BeginEdit(e)
    <3>1. registry' = registry
      BY <2>1 DEF BeginEdit, registry
    <3> QED BY <2>1, <3>1 DEF BeginEdit, R!Begin, TypeOK
  <2>2. CASE \/ \E i \in Ids, v \in Values : Add(e, i, v)
             \/ \E i \in Ids : RemoveId(e, i)
             \/ \E o \in Overrides : SetVolatile(e, o)
    <3>1. registry' = registry /\ viewBar' = viewBar /\ phase[e] = "open"
      BY <2>2 DEF Add, RemoveId, SetVolatile, registry
    <3>2. draft' = [draft EXCEPT ![e] = draft'[e]]
      BY <2>2 DEF Add, RemoveId, SetVolatile, TypeOK
    <3>3. draft'[e] \in Content
      BY TypeStep DEF TypeOK
    <3> QED BY <3>1, <3>2, <3>3 DEF R!Change
  <2>3. CASE EnterCommit(e)
    <3>1. registry' = registry /\ viewBar' = viewBar
      BY <2>3 DEF EnterCommit, CanCommit, registry, TypeOK
    <3> QED BY <2>3, <3>1 DEF EnterCommit, R!vars
  <2>4. CASE RejectStale(e) \/ BuildThrows(e)
    <3>1. registry' = registry /\ viewBar[e] # "none"
      BY <2>4 DEF RejectStale, BuildThrows, CanCommit, registry
    <3>2. viewBar' = [viewBar EXCEPT ![e] = "none"]
      BY <2>4 DEF RejectStale, BuildThrows, TypeOK
    <3> QED BY <2>4, <3>1, <3>2 DEF RejectStale, BuildThrows, R!Close
  <2>5. CASE Publish(e)
    <3>1. registry' = draft[e] /\ live' \notin Referenced
      BY <2>5, PublishInstallsDraft
    <3>2. \A f \in Editors : base'[f] = base[f] /\ base[f] # live'
      BY <2>5, <3>1, PointersAreReferenced DEF Publish
    <3>3. viewBar[e] = "current"
      BY <2>5 DEF Publish, BuildingIsExclusive
    <3>4. viewBar' = R!Outdate(e)
      BY <2>5, <3>2 DEF Publish, R!Outdate, TypeOK
    <3> QED BY <2>5, <3>1, <3>3, <3>4 DEF Publish, R!Commit
  <2>6. CASE Discard(e)
    <3>1. registry' = registry
      BY <2>6, SweepKeepsReferenced DEF Discard, TypeOK, registry
    <3>2. viewBar' = [viewBar EXCEPT ![e] = "none"]
      BY <2>6 DEF Discard, TypeOK
    <3>3. CASE InProgress(e)
      BY <2>6, <3>1, <3>2, <3>3 DEF Discard, R!Close
    <3>4. CASE ~InProgress(e)
      BY <2>6, <3>1, <3>2, <3>4 DEF Discard, MovedOut, TypeOK, R!vars
    <3> QED BY <3>3, <3>4
  <2> QED BY <1>1, <2>1, <2>2, <2>3, <2>4, <2>5, <2>6 DEF EditorNext
<1>2. ASSUME NEW r \in Readers, ReaderNext(r) PROVE UNCHANGED R!vars
  <2>1. registry' = registry
    BY <1>2, SweepKeepsReferenced DEF ReaderNext, BeginLookup, EndLookup, TypeOK, registry
  <2> QED BY <1>2, <2>1 DEF ReaderNext, BeginLookup, EndLookup, editorVars, R!vars
<1>3. CASE UNCHANGED vars
  BY <1>3 DEF vars, editorVars, R!vars, registry
<1> QED BY <1>1, <1>2, <1>3 DEF Next

\* DomainStore implements Registry, for clients that drop an edit whose commit
\* threw.
THEOREM Refinement == ASSUME ~RetryFailed PROVE Spec => ImplementsRegistry
<1>1. Init => R!Init
  BY DEF Init, R!Init, viewBar, InProgress, registry
<1>2. IInv /\ [Next]_vars => [R!Next]_R!vars
  BY StepRefines
<1> QED BY <1>1, <1>2, Invariance, PTL DEF Spec, R!Spec, ImplementsRegistry

-----------------------------------------------------------------------------
(* Prefixes *)

\* The prefixes of a domain: their lengths, and the prefixes of those.
LEMMA PrefixFacts ==
    ASSUME NEW X, NEW s \in Seq(X), NEW n \in 0..Len(s)
    PROVE  /\ SubSeq(s, 1, n) \in Seq(X) /\ Len(SubSeq(s, 1, n)) = n
           /\ SubSeq(s, 1, n) \in Prefixes(s)
           /\ \A m \in 0..n : SubSeq(SubSeq(s, 1, n), 1, m) = SubSeq(s, 1, m)
           /\ n # 0 => Front(SubSeq(s, 1, n)) = SubSeq(s, 1, n - 1)
           /\ n = 0 => SubSeq(s, 1, n) = <<>>
           /\ n = Len(s) => SubSeq(s, 1, n) = s
<1>1. SubSeq(s, 1, n) \in Seq(X) /\ Len(SubSeq(s, 1, n)) = n
  OBVIOUS
<1>2. SubSeq(s, 1, n) \in Prefixes(s)
  BY DEF Prefixes
<1>3. ASSUME NEW m \in 0..n PROVE SubSeq(SubSeq(s, 1, n), 1, m) = SubSeq(s, 1, m)
  OBVIOUS
<1>4. n # 0 => Front(SubSeq(s, 1, n)) = SubSeq(s, 1, n - 1)
  <2> SUFFICES ASSUME n # 0 PROVE Front(SubSeq(s, 1, n)) = SubSeq(s, 1, n - 1)
    OBVIOUS
  <2>1. n - 1 \in 0..n
    OBVIOUS
  <2> QED BY <1>1, <1>3, <2>1 DEF Front
<1>5. n = 0 => SubSeq(s, 1, n) = <<>>
  OBVIOUS
<1>6. n = Len(s) => SubSeq(s, 1, n) = s
  OBVIOUS
<1> QED BY <1>1, <1>2, <1>3, <1>4, <1>5, <1>6

-----------------------------------------------------------------------------
(* The first that is accepted *)

First(s, accepts) ==
    LET i == SelectInSeq(s, LAMBDA p : p \in accepts) IN IF i = 0 THEN 0 ELSE s[i]

\* FirstAccepted is about what the node holds.
LEMMA FirstOfNode ==
    ASSUME NEW tree, NEW node, NEW accepts
    PROVE  Tree!FirstAccepted(tree, node, accepts) = First(tree[node], accepts)
BY DEF Tree!FirstAccepted, First, SelectInSeq, Tree!SelectInSeq, Min, Tree!Min

\* It is the first one, if there is one.
LEMMA FirstIs ==
    ASSUME NEW s \in Seq(Parsers), NEW accepts
    PROVE  \/ First(s, accepts) = 0 /\ \A k \in DOMAIN s : s[k] \notin accepts
           \/ \E k \in DOMAIN s : /\ First(s, accepts) = s[k] /\ s[k] \in accepts
                                  /\ \A j \in DOMAIN s : s[j] \in accepts => k <= j
<1> DEFINE I == {i \in 1..Len(s) : s[i] \in accepts}
           found == IF I # {} THEN Min(I) ELSE 0
<1>1. First(s, accepts) = IF found = 0 THEN 0 ELSE s[found]
  BY DEF First, SelectInSeq
<1>2. DOMAIN s = 1..Len(s)
  OBVIOUS
<1>3. CASE I = {}
  BY <1>1, <1>2, <1>3
<1>4. CASE I # {}
  <2>1. I \in SUBSET Nat
    OBVIOUS
  <2>2. \E n \in I : \A m \in I : n <= m
    BY <1>4, <2>1, LeastNumber
  <2>3. Min(I) \in I /\ \A m \in I : Min(I) <= m
    BY <2>2 DEF Min
  <2>4. found = Min(I) /\ found # 0
    BY <1>4, <2>3
  <2> QED BY <1>1, <1>2, <2>3, <2>4
<1> QED BY <1>3, <1>4

\* One more is asked last.
LEMMA FirstOfAppended ==
    ASSUME NEW s \in Seq(Parsers), NEW p \in Parsers, NEW accepts
    PROVE  First(Append(s, p), accepts) =
             IF First(s, accepts) # 0 THEN First(s, accepts) ELSE IF p \in accepts THEN p ELSE 0
<1> DEFINE t == Append(s, p)
           N == Len(s)
<1>1. /\ t \in Seq(Parsers) /\ N \in Nat /\ DOMAIN s = 1..N /\ DOMAIN t = 1..(N + 1)
      /\ t[N + 1] = p /\ \A k \in 1..N : t[k] = s[k]
  OBVIOUS
<1> HIDE DEF t, N
<1>2. \A k \in DOMAIN t : t[k] # 0
  <2>1. \A k \in DOMAIN t : t[k] \in Parsers
    BY <1>1
  <2> QED BY <2>1 DEF Parsers
<1>3. \/ First(t, accepts) = 0 /\ \A k \in DOMAIN t : t[k] \notin accepts
      \/ \E k \in DOMAIN t : /\ First(t, accepts) = t[k] /\ t[k] \in accepts
                             /\ \A j \in DOMAIN t : t[j] \in accepts => k <= j
  BY <1>1, FirstIs
<1>4. CASE First(s, accepts) = 0 /\ \A k \in DOMAIN s : s[k] \notin accepts
  <2>1. \A k \in DOMAIN t : t[k] \in accepts => k = N + 1
    BY <1>1, <1>4
  <2>2. p \notin accepts => First(t, accepts) = 0
    BY <1>1, <1>3, <2>1
  <2>3. p \in accepts => First(t, accepts) = p
    BY <1>1, <1>3, <2>1
  <2> QED BY <1>4, <2>2, <2>3 DEF t
<1>5. CASE \E k \in DOMAIN s : /\ First(s, accepts) = s[k] /\ s[k] \in accepts
                               /\ \A j \in DOMAIN s : s[j] \in accepts => k <= j
  <2>1. PICK k \in DOMAIN s : /\ First(s, accepts) = s[k] /\ s[k] \in accepts
                              /\ \A j \in DOMAIN s : s[j] \in accepts => k <= j
    BY <1>5
  <2>2. k \in DOMAIN t /\ t[k] = s[k] /\ s[k] # 0
    BY <1>1, <1>2, <2>1
  <2>3. PICK i \in DOMAIN t : /\ First(t, accepts) = t[i] /\ t[i] \in accepts
                              /\ \A j \in DOMAIN t : t[j] \in accepts => i <= j
    BY <1>3, <2>1, <2>2
  <2>4. i <= k
    BY <2>1, <2>2, <2>3
  <2>5. i \in DOMAIN s /\ s[i] \in accepts
    BY <1>1, <2>1, <2>3, <2>4
  <2>6. i = k
    BY <1>1, <2>1, <2>4, <2>5
  <2> QED BY <2>1, <2>2, <2>3, <2>6 DEF t
<1> QED BY <1>4, <1>5, FirstIs

\* Nobody is accepted where nobody was declared.
LEMMA FirstOfNone == \A accepts : First(<<>>, accepts) = 0
BY FirstIs, <<>> \in Seq(Parsers), DOMAIN <<>> = {}

-----------------------------------------------------------------------------
(* The tree of the first n declarations *)

Hosts == BoundedSeq(Labels, MaxDepth)
Declaration == [domain : Hosts, parser : Parsers]

\* A host is a sequence of labels that is not too long, and so are its parents.
LEMMA HostsAre ==
    /\ \A h : h \in Hosts <=> h \in Seq(Labels) /\ Len(h) <= MaxDepth
    /\ \A h \in Hosts : h \in Seq(Labels) /\ \A n \in 0..Len(h) : SubSeq(h, 1, n) \in Hosts
<1>1. \A h : h \in Hosts <=> h \in Seq(Labels) /\ Len(h) <= MaxDepth
  BY RoutingAssumption, SeqDef DEF Hosts, BoundedSeq, SeqOf
<1>2. ASSUME NEW h \in Hosts, NEW n \in 0..Len(h) PROVE SubSeq(h, 1, n) \in Hosts
  <2>1. h \in Seq(Labels) /\ Len(h) <= MaxDepth
    BY <1>1
  <2>2. SubSeq(h, 1, n) \in Seq(Labels) /\ Len(SubSeq(h, 1, n)) = n
    BY <2>1, PrefixFacts
  <2>3. Len(SubSeq(h, 1, n)) <= MaxDepth
    BY <2>1, <2>2, RoutingAssumption
  <2> QED BY Zenon, <1>1, <2>2, <2>3
<1> QED BY <1>1, <1>2

\* found is the parser of the first declaration of I.
Heads(found, d, I) ==
    \/ I = {} /\ found = 0
    \/ \E i \in I : found = d[i].parser /\ \A j \in I : i <= j

\* Which of the first n declarations are for the node and for one of those parsers.
ForNode(d, n, node, accepts) == {i \in 1..n : d[i].domain = node /\ d[i].parser \in accepts}

Holds(tree, d, n) ==
    /\ Tree!IsTree(tree)
    /\ DOMAIN tree \subseteq Hosts
    /\ \A i \in 1..n : d[i].domain \in DOMAIN tree
    /\ \A node \in DOMAIN tree, accepts \in SUBSET Parsers :
         Heads(First(tree[node], accepts), d, ForNode(d, n, node, accepts))

\* The tree's own copies of the operators on sequences.
LEMMA TreeOperators ==
    ASSUME NEW s
    PROVE  Tree!Prefixes(s) = Prefixes(s) /\ Tree!Front(s) = Front(s)
BY DEF Tree!Prefixes, Prefixes, Tree!Front, Front

\* What a tree is.
LEMMA TreeIs ==
    ASSUME NEW tree
    PROVE  Tree!IsTree(tree) <=>
             /\ <<>> \in DOMAIN tree
             /\ \A node \in DOMAIN tree : /\ node # <<>> => Front(node) \in DOMAIN tree
                                          /\ tree[node] \in Seq(Parsers)
<1>1. \A node : Tree!Front(node) = Front(node)
  BY TreeOperators
<1> QED BY <1>1, Zenon DEF Tree!IsTree

\* Before anything was declared there is the root.
LEMMA EmptyHolds ==
    ASSUME NEW d
    PROVE  Holds(Tree!EmptyTree, d, 0)
<1>1. DOMAIN Tree!EmptyTree = {<<>>} /\ Tree!EmptyTree[<<>>] = <<>>
  BY DEF Tree!EmptyTree
<1>2. Tree!IsTree(Tree!EmptyTree)
  <2>1. <<>> \in Seq(Parsers)
    OBVIOUS
  <2> HIDE DEF Tree!EmptyTree
  <2> QED BY <1>1, <2>1, TreeIs
<1>3. ForNode(d, 0, <<>>, {}) = {} /\ \A accepts : ForNode(d, 0, <<>>, accepts) = {}
  BY DEF ForNode
<1>4. <<>> \in Hosts
  <2>1. <<>> \in Seq(Labels) /\ Len(<<>>) <= MaxDepth
    BY RoutingAssumption
  <2> QED BY Zenon, <2>1, HostsAre
<1> QED BY <1>1, <1>2, <1>3, <1>4, FirstOfNone DEF Holds, Heads

\* One more declaration.
LEMMA AddedHolds ==
    ASSUME NEW d \in Seq(Declaration), NEW m \in Nat, NEW n \in DOMAIN d, n = m + 1, NEW tree,
           Holds(tree, d, m)
    PROVE  Holds(Tree!Added(tree, d[n].domain, d[n].parser), d, n)
<1> DEFINE domain == d[n].domain
           parser == d[n].parser
           new == Tree!Added(tree, domain, parser)
           Old(node) == IF node \in DOMAIN tree THEN tree[node] ELSE <<>>
<1>1. domain \in Hosts /\ domain \in Seq(Labels) /\ parser \in Parsers /\ parser # 0
  <2>1. d[n] \in Declaration
    OBVIOUS
  <2>2. domain \in Hosts /\ parser \in Parsers
    BY <2>1 DEF Declaration
  <2> QED BY <2>2, HostsAre DEF Parsers
<1>2. /\ DOMAIN new = DOMAIN tree \cup Prefixes(domain)
      /\ \A node \in DOMAIN new :
           new[node] = IF node = domain THEN Append(Old(node), parser) ELSE Old(node)
  BY TreeOperators DEF Tree!Added
<1>3. /\ <<>> \in DOMAIN tree
      /\ \A node \in DOMAIN tree : /\ node # <<>> => Front(node) \in DOMAIN tree
                                   /\ tree[node] \in Seq(Parsers)
      /\ DOMAIN tree \subseteq Hosts
      /\ \A i \in 1..m : d[i].domain \in DOMAIN tree
      /\ \A node \in DOMAIN tree, accepts \in SUBSET Parsers :
           Heads(First(tree[node], accepts), d, ForNode(d, m, node, accepts))
  BY TreeIs DEF Holds
<1>4. \A node : Old(node) \in Seq(Parsers)
  BY <1>3
<1>5. \A node, accepts : node \in DOMAIN new /\ accepts \in SUBSET Parsers =>
        Heads(First(Old(node), accepts), d, ForNode(d, m, node, accepts))
  <2> SUFFICES ASSUME NEW node, NEW accepts, node \in DOMAIN new, accepts \in SUBSET Parsers
               PROVE  Heads(First(Old(node), accepts), d, ForNode(d, m, node, accepts))
    OBVIOUS
  <2>1. CASE node \in DOMAIN tree
    BY <1>3, <2>1
  <2>2. CASE node \notin DOMAIN tree
    <3>1. ForNode(d, m, node, accepts) = {}
      BY <1>3, <2>2 DEF ForNode
    <3> QED BY <2>2, <3>1, FirstOfNone DEF Heads
  <2> QED BY <2>1, <2>2
<1>6. \A node \in Prefixes(domain) :
        node \in Hosts /\ (node # <<>> => Front(node) \in Prefixes(domain))
  <2> SUFFICES ASSUME NEW l \in 0..Len(domain)
               PROVE  /\ SubSeq(domain, 1, l) \in Hosts
                      /\ SubSeq(domain, 1, l) # <<>> => Front(SubSeq(domain, 1, l)) \in Prefixes(domain)
    BY DEF Prefixes
  <2> HIDE DEF domain
  <2>1. /\ SubSeq(domain, 1, l) \in Hosts /\ (l = 0 => SubSeq(domain, 1, l) = <<>>)
        /\ (l # 0 => Front(SubSeq(domain, 1, l)) = SubSeq(domain, 1, l - 1))
    <3>1. SubSeq(domain, 1, l) \in Hosts
      BY <1>1, HostsAre
    <3>2. /\ l = 0 => SubSeq(domain, 1, l) = <<>>
          /\ l # 0 => Front(SubSeq(domain, 1, l)) = SubSeq(domain, 1, l - 1)
      BY <1>1, PrefixFacts
    <3> QED BY <3>1, <3>2
  <2>2. l # 0 => SubSeq(domain, 1, l - 1) \in Prefixes(domain)
    BY <1>1 DEF Prefixes
  <2> QED BY <2>1, <2>2
<1>7. domain \in Prefixes(domain)
  <2>1. Len(domain) \in 0..Len(domain) /\ SubSeq(domain, 1, Len(domain)) = domain
    BY <1>1
  <2> QED BY <2>1 DEF Prefixes
<1> HIDE DEF new, Old
<1>8. Tree!IsTree(new) /\ DOMAIN new \subseteq Hosts
  <2>1. \A node \in DOMAIN new : node # <<>> => Front(node) \in DOMAIN new
    BY <1>2, <1>3, <1>6
  <2>2. \A node \in DOMAIN new : new[node] \in Seq(Parsers)
    <3>1. \A node : Append(Old(node), parser) \in Seq(Parsers)
      BY <1>1, <1>4
    <3> QED BY <1>2, <1>4, <3>1
  <2>3. Tree!IsTree(new)
    BY <1>2, <1>3, <2>1, <2>2, TreeIs
  <2> QED BY <1>2, <1>3, <1>6, <2>3
<1>9. \A i \in 1..n : d[i].domain \in DOMAIN new
  BY <1>2, <1>3, <1>7
<1>10. ASSUME NEW node \in DOMAIN new, NEW accepts \in SUBSET Parsers
       PROVE  Heads(First(new[node], accepts), d, ForNode(d, n, node, accepts))
  <2> DEFINE before == ForNode(d, m, node, accepts)
             after == ForNode(d, n, node, accepts)
             was == First(Old(node), accepts)
  <2>1. Heads(was, d, before) /\ before \subseteq 1..m /\ \A i \in before : d[i].parser # 0
    <3>1. Heads(was, d, before) /\ before \subseteq 1..m
      BY <1>5 DEF ForNode
    <3>2. \A i \in 1..m : d[i].parser \in Parsers
      <4>1. \A i \in 1..m : d[i] \in Declaration
        OBVIOUS
      <4> QED BY <4>1 DEF Declaration
    <3> QED BY <3>1, <3>2 DEF Parsers
  <2>2. CASE node = domain /\ parser \in accepts
    <3>1. after = before \cup {n}
      BY <2>2 DEF ForNode
    <3>2. First(new[node], accepts) = IF was # 0 THEN was ELSE parser
      BY <1>1, <1>2, <1>4, <2>2, FirstOfAppended
    <3> HIDE DEF before, after, was
    <3>3. CASE before = {}
      <4>1. was = 0
        BY <2>1, <3>3 DEF Heads
      <4>2. First(new[node], accepts) = d[n].parser /\ n \in after /\ \A j \in after : n <= j
        BY <3>1, <3>2, <3>3, <4>1
      <4> QED BY <4>2 DEF Heads, after
    <3>4. CASE before # {}
      <4>1. PICK i \in before : was = d[i].parser /\ \A j \in before : i <= j
        BY <2>1, <3>4 DEF Heads
      <4>2. First(new[node], accepts) = d[i].parser /\ i \in after /\ \A j \in after : i <= j
        BY <2>1, <3>1, <3>2, <4>1
      <4> QED BY <4>2 DEF Heads, after
    <3> QED BY <3>3, <3>4
  <2>3. CASE ~(node = domain /\ parser \in accepts)
    <3>1. after = before
      BY <2>3 DEF ForNode
    <3>2. First(new[node], accepts) = was
      <4>1. CASE node = domain
        BY <1>1, <1>2, <1>4, <2>3, <4>1, FirstOfAppended
      <4>2. CASE node # domain
        BY <1>2, <4>2
      <4> QED BY <4>1, <4>2
    <3> QED BY <2>1, <3>1, <3>2
  <2> QED BY <2>2, <2>3
<1> QED BY <1>8, <1>9, <1>10 DEF Holds, new

\* tree is the recursion of TreeOf, over N declarations.
Grows(tree, d, N) ==
    tree = [n \in 0..N |->
             IF n = 0 THEN Tree!EmptyTree
             ELSE Tree!Added(tree[n - 1], d[n].domain, d[n].parser)]

\* The recursion of TreeOf has a solution.
LEMMA GrowsExists ==
    ASSUME NEW d, NEW N \in Nat
    PROVE  \E f : Grows(f, d, N)
<1> DEFINE T == {k \in Nat : \E f : Grows(f, d, k)}
<1>1. 0 \in T
  <2>1. Grows([n \in 0..0 |-> Tree!EmptyTree], d, 0)
    BY DEF Grows
  <2> QED BY <2>1
<1>2. ASSUME NEW k \in T PROVE k + 1 \in T
  <2>1. PICK f : Grows(f, d, k)
    OBVIOUS
  <2> DEFINE Step(was, n) == Tree!Added(was, d[n].domain, d[n].parser)
  <2>a. \A n \in 0..k : f[n] = IF n = 0 THEN Tree!EmptyTree ELSE Step(f[n - 1], n)
    BY <2>1 DEF Grows
  <2> DEFINE g == [n \in 0..(k + 1) |-> IF n <= k THEN f[n]
                    ELSE IF n = 0 THEN Tree!EmptyTree ELSE Step(f[n - 1], n)]
  <2> HIDE DEF Step
  <2>2. \A n \in 0..(k + 1) : n # 0 => g[n - 1] = f[n - 1]
    OBVIOUS
  <2>3. ASSUME NEW n \in 0..(k + 1)
        PROVE  g[n] = IF n = 0 THEN Tree!EmptyTree ELSE Step(g[n - 1], n)
    <3>1. CASE n <= k
      <4>1. n \in 0..k /\ g[n] = f[n]
        BY <3>1
      <4> HIDE DEF g
      <4> QED BY <2>a, <2>2, <4>1
    <3>2. CASE n = k + 1
      <4>1. n # 0 /\ g[n] = Step(f[n - 1], n)
        BY <3>2
      <4> HIDE DEF g
      <4> QED BY <2>2, <4>1
    <3> QED BY <3>1, <3>2
  <2>4. g = [n \in 0..(k + 1) |-> g[n]]
    OBVIOUS
  <2> HIDE DEF g
  <2>5. Grows(g, d, k + 1)
    BY <2>3, <2>4 DEF Grows, Step
  <2> QED BY <2>5
<1>3. T = Nat
  <2>1. T \in SUBSET Nat
    OBVIOUS
  <2> HIDE DEF T
  <2> QED BY <1>1, <1>2, <2>1, SetInduction
<1> QED BY <1>3

\* The tree made of declarations holds them.
LEMMA TreeHolds ==
    ASSUME NEW d \in Seq(Declaration)
    PROVE  Holds(TreeOf(d), d, Len(d))
<1>1. Len(d) \in Nat /\ DOMAIN d = 1..Len(d)
  OBVIOUS
<1>2. \E f : Grows(f, d, Len(d))
  BY <1>1, GrowsExists
<1> DEFINE tree == CHOOSE f : Grows(f, d, Len(d))
<1>3. Grows(tree, d, Len(d))
  BY <1>2, Zenon
<1>4. TreeOf(d) = tree[Len(d)]
  BY Zenon DEF TreeOf, Grows
<1> HIDE DEF tree
<1>5. \A n \in 0..Len(d) : tree[n] = IF n = 0 THEN Tree!EmptyTree
                                     ELSE Tree!Added(tree[n - 1], d[n].domain, d[n].parser)
  BY <1>3 DEF Grows
<1> DEFINE T == {n \in Nat : n <= Len(d) => Holds(tree[n], d, n)}
<1>6. 0 \in T
  <2>1. tree[0] = Tree!EmptyTree
    BY <1>1, <1>5
  <2> QED BY <2>1, EmptyHolds
<1>7. ASSUME NEW m \in T PROVE m + 1 \in T
  <2> DEFINE n == m + 1
  <2>1. m \in Nat /\ n \in Nat /\ n - 1 = m /\ n # 0 /\ (n <= Len(d) => m <= Len(d))
    BY <1>1
  <2>2. m <= Len(d) => Holds(tree[m], d, m)
    OBVIOUS
  <2> HIDE DEF n
  <2>3. ASSUME n <= Len(d) PROVE Holds(tree[n], d, n)
    <3>1. n \in DOMAIN d /\ n \in 0..Len(d)
      BY <1>1, <2>1, <2>3
    <3>2. tree[n] = Tree!Added(tree[m], d[n].domain, d[n].parser)
      BY <1>5, <2>1, <3>1
    <3>3. Holds(tree[m], d, m) /\ n = m + 1
      BY <2>1, <2>2, <2>3 DEF n
    <3> QED BY <2>1, <3>1, <3>2, <3>3, AddedHolds
  <2> QED BY <2>1, <2>3 DEF n
<1>8. T = Nat
  <2>1. T \in SUBSET Nat
    OBVIOUS
  <2> HIDE DEF T
  <2> QED BY <1>6, <1>7, <2>1, SetInduction
<1>9. Holds(tree[Len(d)], d, Len(d))
  BY <1>1, <1>8
<1> QED BY <1>4, <1>9

-----------------------------------------------------------------------------
(* The search *)

\* A node below the one the host has in the tree is in it as well.
Found(tree, host, accepts, n) == First(tree[SubSeq(host, 1, n)], accepts)

\* The deepest node of a host.
LEMMA DeepestIs ==
    ASSUME NEW tree, NEW host \in Seq(Labels), Tree!IsTree(tree), DOMAIN tree \subseteq Seq(Labels)
    PROVE  \E k \in 0..Len(host) :
             /\ Len(Tree!Deepest(tree, host)) = k
             /\ \A n \in 0..Len(host) : SubSeq(host, 1, n) \in DOMAIN tree <=> n <= k
<1> DEFINE L == Len(host)
           At(n) == SubSeq(host, 1, n)
           In == {n \in 0..L : At(n) \in DOMAIN tree}
           Up == {L - n : n \in In}
<1>1. L \in Nat /\ \A n \in 0..L : Len(At(n)) = n /\ (n = 0 => At(n) = <<>>)
  BY PrefixFacts
<1>2. 0 \in In
  <2>1. <<>> \in DOMAIN tree
    BY TreeIs
  <2>2. 0 \in 0..L /\ At(0) = <<>>
    BY <1>1
  <2> QED BY <2>1, <2>2
<1>3. \A n \in In : n # 0 => n - 1 \in In
  <2> SUFFICES ASSUME NEW n \in In, n # 0 PROVE n - 1 \in In
    OBVIOUS
  <2>1. n \in 0..L /\ n - 1 \in 0..L /\ At(n) \in DOMAIN tree
    BY <1>1
  <2>2. At(n) # <<>>
    <3>1. Len(At(n)) # 0
      BY <1>1, <2>1
    <3> HIDE DEF At
    <3> QED BY <3>1
  <2>3. Front(At(n)) = At(n - 1)
    BY <2>1, PrefixFacts
  <2>4. Front(At(n)) \in DOMAIN tree
    BY <2>1, <2>2, TreeIs
  <2> QED BY <2>1, <2>3, <2>4
<1>4. PICK k \in In : \A n \in In : n <= k
  <2>1. Up \in SUBSET Nat /\ Up # {}
    BY <1>1, <1>2
  <2>2. PICK u \in Up : \A v \in Up : u <= v
    <3> HIDE DEF Up
    <3> QED BY <2>1, LeastNumber
  <2>3. PICK j \in In : u = L - j
    BY <2>2
  <2>4. \A n \in In : L - j <= L - n
    BY <2>2, <2>3
  <2> QED BY <1>1, <2>4
<1>5. \A n \in 0..L : n <= k => n \in In
  <2> DEFINE T == {m \in Nat : m <= k => k - m \in In}
  <2>1. 0 \in T
    BY <1>1
  <2>2. ASSUME NEW m \in T PROVE m + 1 \in T
    <3> HIDE DEF In
    <3>1. k \in Nat
      BY <1>1 DEF In
    <3>2. m + 1 <= k => k - m \in In /\ k - m # 0 /\ k - (m + 1) = (k - m) - 1
      BY <3>1
    <3> QED BY <1>3, <3>2
  <2>3. T = Nat
    <3>1. T \in SUBSET Nat
      OBVIOUS
    <3> HIDE DEF T
    <3> QED BY <2>1, <2>2, <3>1, SetInduction
  <2>4. k \in Nat /\ \A n \in 0..L : n <= k => (k - n) \in Nat /\ k - n <= k /\ k - (k - n) = n
    BY <1>1
  <2>5. \A m \in Nat : m <= k => k - m \in In
    BY <2>3
  <2> HIDE DEF T, In
  <2> QED BY <2>4, <2>5
<1>6. k \in 0..L /\ \A n \in 0..L : At(n) \in DOMAIN tree <=> n <= k
  BY <1>4, <1>5
<1> DEFINE S == Prefixes(host) \cap DOMAIN tree
<1>7. \A node : node \in S <=> \E n \in 0..k : node = At(n)
  <2>1. Prefixes(host) = {At(n) : n \in 0..L}
    BY DEF Prefixes
  <2>2. \A n \in 0..k : n \in 0..L /\ n <= k
    BY <1>1, <1>6
  <2> HIDE DEF At, In
  <2> QED BY <1>6, <2>1, <2>2
<1>8. Tree!Deepest(tree, host) = CHOOSE node \in S : \A other \in S : Len(other) <= Len(node)
  BY TreeOperators DEF Tree!Deepest
<1> HIDE DEF S, At, In
<1>9. At(k) \in S /\ \A other \in S : Len(other) <= Len(At(k))
  BY <1>1, <1>6, <1>7
<1>10. /\ Tree!Deepest(tree, host) \in S
       /\ \A other \in S : Len(other) <= Len(Tree!Deepest(tree, host))
  BY <1>8, <1>9
<1>11. Len(Tree!Deepest(tree, host)) = k
  <2>1. PICK n \in 0..k : Tree!Deepest(tree, host) = At(n)
    BY <1>7, <1>10
  <2>2. n \in 0..L /\ Len(At(n)) = n /\ Len(At(k)) = k
    BY <1>1, <1>6
  <2>3. k <= n
    BY <1>9, <1>10, <2>1, <2>2
  <2> QED BY <1>6, <2>1, <2>2, <2>3
<1> QED BY <1>6, <1>11 DEF At

\* f is the recursion of SearchAll, over the first N labels.
Walks(f, tree, host, accepts, N) ==
    f = [n \in 0..N |->
          IF Found(tree, host, accepts, n) # 0 \/ n = 0 THEN Found(tree, host, accepts, n)
          ELSE f[n - 1]]

\* The recursion of SearchAll has a solution.
LEMMA WalksExists ==
    ASSUME NEW tree, NEW host, NEW accepts, NEW N \in Nat
    PROVE  \E f : Walks(f, tree, host, accepts, N)
<1> DEFINE F(n) == Found(tree, host, accepts, n)
           T == {k \in Nat : \E f : Walks(f, tree, host, accepts, k)}
<1>1. 0 \in T
  <2>1. Walks([n \in 0..0 |-> F(0)], tree, host, accepts, 0)
    BY DEF Walks
  <2> QED BY <2>1
<1>2. ASSUME NEW k \in T PROVE k + 1 \in T
  <2>1. PICK f : Walks(f, tree, host, accepts, k)
    OBVIOUS
  <2>a. \A n \in 0..k : f[n] = IF F(n) # 0 \/ n = 0 THEN F(n) ELSE f[n - 1]
    BY <2>1 DEF Walks
  <2> DEFINE g == [n \in 0..(k + 1) |-> IF n <= k THEN f[n]
                    ELSE IF F(n) # 0 \/ n = 0 THEN F(n) ELSE f[n - 1]]
  <2> HIDE DEF F
  <2>2. \A n \in 0..(k + 1) : n # 0 => g[n - 1] = f[n - 1]
    OBVIOUS
  <2>3. ASSUME NEW n \in 0..(k + 1)
        PROVE  g[n] = IF F(n) # 0 \/ n = 0 THEN F(n) ELSE g[n - 1]
    <3>1. CASE n <= k
      <4>1. n \in 0..k /\ g[n] = f[n]
        BY <3>1
      <4> HIDE DEF g
      <4> QED BY <2>a, <2>2, <4>1
    <3>2. CASE n = k + 1
      <4>1. n # 0 /\ g[n] = IF F(n) # 0 \/ n = 0 THEN F(n) ELSE f[n - 1]
        BY <3>2
      <4> HIDE DEF g
      <4> QED BY <2>2, <4>1
    <3> QED BY <3>1, <3>2
  <2>4. g = [n \in 0..(k + 1) |-> g[n]]
    OBVIOUS
  <2> HIDE DEF g
  <2>5. Walks(g, tree, host, accepts, k + 1)
    BY <2>3, <2>4 DEF Walks, F
  <2> QED BY <2>5
<1>3. T = Nat
  <2>1. T \in SUBSET Nat
    OBVIOUS
  <2> HIDE DEF T
  <2> QED BY <1>1, <1>2, <2>1, SetInduction
<1> QED BY <1>3

\* The search ends at the deepest node that has a parser which is accepted.
LEMMA SearchStops ==
    ASSUME NEW tree, NEW host \in Seq(Labels), NEW accepts, NEW k \in 0..Len(host),
           Len(Tree!Deepest(tree, host)) = k
    PROVE  \/ /\ Tree!SearchAll(tree, host, accepts) = 0
              /\ \A n \in 0..k : Found(tree, host, accepts, n) = 0
           \/ \E m \in 0..k : /\ Tree!SearchAll(tree, host, accepts) = Found(tree, host, accepts, m)
                              /\ Found(tree, host, accepts, m) # 0
                              /\ \A n \in (m + 1)..k : Found(tree, host, accepts, n) = 0
<1> DEFINE F(n) == Found(tree, host, accepts, n)
           L == Len(host)
<1>1. L \in Nat
  OBVIOUS
<1>2. \E f : Walks(f, tree, host, accepts, L)
  BY <1>1, WalksExists
<1> DEFINE walk == CHOOSE f : Walks(f, tree, host, accepts, L)
<1>3. Walks(walk, tree, host, accepts, L)
  BY <1>2, Zenon
<1>4. Tree!SearchAll(tree, host, accepts) = walk[k]
  BY Zenon DEF Tree!SearchAll, Walks, Found, First, Tree!FirstAccepted, SelectInSeq,
       Tree!SelectInSeq, Min, Tree!Min
<1> HIDE DEF walk
<1>5. \A n \in 0..L : walk[n] = IF F(n) # 0 \/ n = 0 THEN F(n) ELSE walk[n - 1]
  BY <1>3 DEF Walks
<1> HIDE DEF F
<1> DEFINE Stops(n) == \/ walk[n] = 0 /\ \A j \in 0..n : F(j) = 0
                       \/ \E m \in 0..n : /\ walk[n] = F(m) /\ F(m) # 0
                                          /\ \A j \in (m + 1)..n : F(j) = 0
           T == {n \in Nat : n <= L => Stops(n)}
<1>6. 0 \in T
  <2>1. walk[0] = F(0)
    BY <1>1, <1>5
  <2> QED BY <2>1
<1>7. ASSUME NEW p \in T PROVE p + 1 \in T
  <2> DEFINE n == p + 1
  <2>1. p \in Nat /\ n \in Nat /\ n - 1 = p /\ n # 0 /\ (n <= L => p <= L)
    BY <1>1
  <2>2. p <= L => Stops(p)
    OBVIOUS
  <2> HIDE DEF n, T
  <2>3. ASSUME n <= L PROVE Stops(n)
    <3>1. walk[n] = IF F(n) # 0 THEN F(n) ELSE walk[p]
      BY <1>1, <1>5, <2>1, <2>3
    <3>2. 0..n = (0..p) \cup {n}
      BY <2>1 DEF n
    <3>3. CASE F(n) # 0
      <4>1. walk[n] = F(n) /\ n \in 0..n /\ \A j \in (n + 1)..n : FALSE
        BY <2>1, <3>1, <3>3
      <4> QED BY <3>3, <4>1
    <3>4. CASE F(n) = 0
      <4>1. CASE walk[p] = 0 /\ \A j \in 0..p : F(j) = 0
        BY <3>1, <3>2, <3>4, <4>1
      <4>2. CASE \E m \in 0..p : walk[p] = F(m) /\ F(m) # 0 /\ \A j \in (m + 1)..p : F(j) = 0
        <5>1. PICK m \in 0..p : walk[p] = F(m) /\ F(m) # 0 /\ \A j \in (m + 1)..p : F(j) = 0
          BY <4>2
        <5>2. \A j \in (m + 1)..n : j = n \/ j \in (m + 1)..p
          BY <2>1 DEF n
        <5>3. m \in 0..n /\ walk[n] = F(m) /\ \A j \in (m + 1)..n : F(j) = 0
          BY <3>1, <3>2, <3>4, <5>1, <5>2
        <5> QED BY <5>1, <5>3
      <4> QED BY <2>1, <2>2, <2>3, <4>1, <4>2
    <3> QED BY <3>3, <3>4
  <2> QED BY <2>1, <2>3 DEF n, T
<1>8. T = Nat
  <2>1. T \in SUBSET Nat
    OBVIOUS
  <2> HIDE DEF T
  <2> QED BY <1>6, <1>7, <2>1, SetInduction
<1>9. Stops(k)
  <2>1. k \in T /\ k <= L
    BY <1>1, <1>8
  <2> QED BY <2>1
<1> QED BY <1>4, <1>9 DEF F

\* A tree that holds declarations finds what is declared for the longest domain.
LEMMA LongestIsFound ==
    ASSUME NEW d \in Seq(Declaration), NEW tree, Holds(tree, d, Len(d)),
           NEW host \in Seq(Labels), NEW accepts \in SUBSET Parsers
    PROVE  Tree!FindsLongestMatch(tree, d, host, accepts)
<1> DEFINE N == Len(d)
           L == Len(host)
           At(n) == SubSeq(host, 1, n)
           F(n) == Found(tree, host, accepts, n)
           length(i) == Len(d[i].domain)
           matching == {i \in DOMAIN d : d[i].parser \in accepts /\ Tree!IsPrefix(d[i].domain, host)}
           found == Tree!SearchAll(tree, host, accepts)
<1>1. Tree!IsTree(tree) /\ DOMAIN tree \subseteq Seq(Labels)
  BY HostsAre DEF Holds
<1>2. PICK k \in 0..L : /\ Len(Tree!Deepest(tree, host)) = k
                        /\ \A n \in 0..L : At(n) \in DOMAIN tree <=> n <= k
  BY <1>1, DeepestIs
<1>3. L \in Nat /\ DOMAIN d = 1..N /\ \A n \in 0..L : At(n) \in Seq(Labels) /\ Len(At(n)) = n
  BY PrefixFacts
<1>4. \A i \in DOMAIN d : /\ d[i].domain \in Seq(Labels) /\ d[i].domain \in DOMAIN tree
                          /\ d[i].parser # 0
  <2>1. \A i \in DOMAIN d : d[i] \in Declaration
    OBVIOUS
  <2>2. \A i \in DOMAIN d : d[i].domain \in DOMAIN tree
    BY <1>3 DEF Holds
  <2> QED BY <2>1, <2>2, HostsAre DEF Declaration, Parsers
<1>5. \A i \in matching : length(i) \in 0..k /\ d[i].domain = At(length(i))
  <2> SUFFICES ASSUME NEW i \in matching
               PROVE  length(i) \in 0..k /\ d[i].domain = At(length(i))
    OBVIOUS
  <2>1. length(i) \in 0..L /\ d[i].domain = At(length(i))
    <3>1. d[i].domain \in Seq(Labels) /\ Tree!IsPrefix(d[i].domain, host)
      BY <1>4
    <3>2. length(i) \in Nat /\ SubSeq(d[i].domain, 1, length(i)) = d[i].domain
      BY <3>1, PrefixFacts
    <3> QED BY <1>3, <3>1, <3>2 DEF Tree!IsPrefix
  <2>2. At(length(i)) \in DOMAIN tree
    BY <1>4, <2>1
  <2> HIDE DEF At, length, L, matching
  <2> QED BY <1>2, <2>1, <2>2
<1>6. \A n \in 0..k : ForNode(d, N, At(n), accepts) = {i \in matching : length(i) = n}
  <2> SUFFICES ASSUME NEW n \in 0..k, NEW i \in 1..N
               PROVE  d[i].domain = At(n) /\ d[i].parser \in accepts <=>
                        i \in matching /\ length(i) = n
    BY <1>3 DEF ForNode
  <2>1. n \in 0..L /\ i \in DOMAIN d /\ Len(At(n)) = n
    BY <1>3
  <2>2. d[i].domain = At(n) => Tree!IsPrefix(d[i].domain, host)
    BY <1>3, <2>1 DEF Tree!IsPrefix
  <2>3. d[i].domain = At(n) => length(i) = n
    BY <2>1
  <2> QED BY <1>5, <2>1, <2>2, <2>3
<1>7. \A n \in 0..k : Heads(F(n), d, {i \in matching : length(i) = n})
  <2> SUFFICES ASSUME NEW n \in 0..k PROVE Heads(F(n), d, {i \in matching : length(i) = n})
    OBVIOUS
  <2>1. At(n) \in DOMAIN tree /\ F(n) = First(tree[At(n)], accepts)
    BY <1>2, <1>3 DEF Found
  <2>2. Heads(First(tree[At(n)], accepts), d, ForNode(d, N, At(n), accepts))
    BY <2>1 DEF Holds
  <2> QED BY <1>6, <2>1, <2>2
<1>8. \/ found = 0 /\ \A n \in 0..k : F(n) = 0
      \/ \E m \in 0..k : found = F(m) /\ F(m) # 0 /\ \A n \in (m + 1)..k : F(n) = 0
  BY <1>2, SearchStops
<1>9. \A n \in 0..k : F(n) = 0 <=> {i \in matching : length(i) = n} = {}
  BY <1>4, <1>7 DEF Heads
<1>10. Tree!FindsLongestMatch(tree, d, host, accepts) <=>
         IF matching = {} THEN found = 0
         ELSE \E i \in matching :
                /\ found = d[i].parser
                /\ \A j \in matching : length(j) < length(i) \/ (length(j) = length(i) /\ i <= j)
  BY Zenon DEF Tree!FindsLongestMatch
<1> HIDE DEF matching, found, F, length, At
<1>11. CASE found = 0 /\ \A n \in 0..k : F(n) = 0
  <2>1. matching = {}
    BY <1>5, <1>9, <1>11
  <2> QED BY <1>10, <1>11, <2>1
<1>12. CASE \E m \in 0..k : found = F(m) /\ F(m) # 0 /\ \A n \in (m + 1)..k : F(n) = 0
  <2>1. PICK m \in 0..k : found = F(m) /\ F(m) # 0 /\ \A n \in (m + 1)..k : F(n) = 0
    BY <1>12
  <2>2. PICK i \in {j \in matching : length(j) = m} :
          found = d[i].parser /\ \A j \in {h \in matching : length(h) = m} : i <= j
    BY <1>7, <2>1 DEF Heads
  <2>3. \A j \in matching : length(j) <= m
    <3> SUFFICES ASSUME NEW j \in matching, length(j) > m PROVE FALSE
      BY <1>5
    <3>1. length(j) \in (m + 1)..k /\ length(j) \in 0..k
      BY <1>5
    <3> QED BY <1>9, <2>1, <3>1
  <2>4. \A j \in matching : length(j) < length(i) \/ (length(j) = length(i) /\ i <= j)
    BY <1>5, <2>2, <2>3
  <2> QED BY <1>10, <2>2, <2>4
<1> QED BY <1>8, <1>11, <1>12

-----------------------------------------------------------------------------
(* Declarations and lists *)

\* What the registered parsers and the catalog can be.
Registrations == UNION {[ids -> Lists(StaticDomains)] : ids \in SUBSET Parsers}
Volatiles == [Parsers -> BoundedSeq(CatalogDomains \cup CatalogUrls, 2 * MaxListed + 1)]

\* Whatever can be listed is a host.
LEMMA ListedAreHosts ==
    /\ \A S, n : n \in Nat => (\A q : q \in BoundedSeq(S, n) <=> q \in Seq(S) /\ Len(q) <= n)
    /\ StaticDomains \subseteq Hosts /\ CatalogDomains \subseteq Hosts /\ CatalogUrls \subseteq Hosts
    /\ \A e \in Registrations : /\ DOMAIN e \subseteq Parsers
                          /\ \A id \in DOMAIN e : e[id] \in Lists(StaticDomains)
    /\ \A e \in Registrations : \A id \in DOMAIN e : e[id] \in Seq(Hosts)
    /\ \A v \in Volatiles : \A id \in Parsers : v[id] \in Seq(Hosts)
<1>1. \A S, n : n \in Nat => (\A q : q \in BoundedSeq(S, n) <=> q \in Seq(S) /\ Len(q) <= n)
  BY SeqDef DEF BoundedSeq, SeqOf
<1>2. StaticDomains \subseteq Hosts /\ CatalogDomains \subseteq Hosts /\ CatalogUrls \subseteq Hosts
  BY RoutingAssumption DEF Hosts
<1>3. \A e \in Registrations : /\ DOMAIN e \subseteq Parsers
                        /\ \A id \in DOMAIN e : e[id] \in Lists(StaticDomains)
  BY DEF Registrations
<1>4. \A e \in Registrations : \A id \in DOMAIN e : e[id] \in Seq(Hosts)
  <2> SUFFICES ASSUME NEW e \in Registrations, NEW id \in DOMAIN e PROVE e[id] \in Seq(Hosts)
    OBVIOUS
  <2>1. e[id] \in Lists(StaticDomains)
    BY <1>3
  <2>2. e[id] \in Seq(StaticDomains)
    BY <1>1, <2>1, RoutingAssumption DEF Lists
  <2> QED BY <1>2, <2>2
<1>5. \A v \in Volatiles : \A id \in Parsers : v[id] \in Seq(Hosts)
  <2> SUFFICES ASSUME NEW v \in Volatiles, NEW id \in Parsers PROVE v[id] \in Seq(Hosts)
    OBVIOUS
  <2>1. v[id] \in BoundedSeq(CatalogDomains \cup CatalogUrls, 2 * MaxListed + 1)
    BY DEF Volatiles
  <2>2. v[id] \in Seq(CatalogDomains \cup CatalogUrls)
    <3>1. 2 * MaxListed + 1 \in Nat
      BY RoutingAssumption
    <3> QED BY <1>1, <2>1, <3>1
  <2> QED BY <1>2, <2>2
<1> QED BY <1>1, <1>2, <1>3, <1>4, <1>5

\* Every domain of a registered parser is declared for it, its own and the catalog's.
LEMMA AllAreDeclared ==
    ASSUME NEW e \in Registrations, NEW v \in Volatiles
    PROVE  /\ Declarations(e, v) \in Seq(Declaration)
           /\ \A id \in DOMAIN e : \A host \in ToSet(e[id]) \cup ToSet(v[id]) :
                \E i \in DOMAIN Declarations(e, v) :
                   Declarations(e, v)[i] = [domain |-> host, parser |-> id]
<1> DEFINE part(id) == IF id \in DOMAIN e THEN DeclaredBy(id, e[id]) \o DeclaredBy(id, v[id]) ELSE <<>>
           parts == [id \in Parsers |-> part(id)]
<1>1. ASSUME NEW id \in Parsers, NEW q \in Seq(Hosts)
      PROVE  /\ DeclaredBy(id, q) \in Seq(Declaration) /\ Len(DeclaredBy(id, q)) = Len(q)
             /\ \A i \in 1..Len(q) : DeclaredBy(id, q)[i] = [domain |-> q[i], parser |-> id]
  <2> DEFINE N == Len(q)
             t == DeclaredBy(id, q)
  <2>1. N \in Nat /\ DOMAIN q = 1..N /\ \A i \in 1..N : q[i] \in Hosts
    OBVIOUS
  <2>2. t = [i \in 1..N |-> [domain |-> q[i], parser |-> id]]
    BY <2>1 DEF DeclaredBy
  <2>3. \A i \in 1..N : [domain |-> q[i], parser |-> id] \in Declaration
    BY <2>1 DEF Declaration
  <2> HIDE DEF N, t
  <2>4. \A i \in 1..N : t[i] = [domain |-> q[i], parser |-> id]
    BY <2>2
  <2>5. t \in [1..N -> Declaration]
    BY <2>2, <2>3
  <2>6. t \in Seq(Declaration) /\ Len(t) = N
    BY <2>1, <2>5
  <2> QED BY <2>4, <2>6 DEF N, t
<1>2. ASSUME NEW id \in DOMAIN e
      PROVE  /\ part(id) \in Seq(Declaration)
             /\ \A host \in ToSet(e[id]) \cup ToSet(v[id]) :
                  \E k \in DOMAIN part(id) : part(id)[k] = [domain |-> host, parser |-> id]
  <2> DEFINE a == DeclaredBy(id, e[id])
             b == DeclaredBy(id, v[id])
             A == Len(e[id])
             B == Len(v[id])
  <2>1. id \in Parsers /\ e[id] \in Seq(Hosts) /\ v[id] \in Seq(Hosts)
    BY ListedAreHosts
  <2>2. /\ a \in Seq(Declaration) /\ Len(a) = A /\ b \in Seq(Declaration) /\ Len(b) = B
        /\ \A i \in 1..A : a[i] = [domain |-> e[id][i], parser |-> id]
        /\ \A i \in 1..B : b[i] = [domain |-> v[id][i], parser |-> id]
        /\ A \in Nat /\ B \in Nat /\ DOMAIN e[id] = 1..A /\ DOMAIN v[id] = 1..B
    <3>1. /\ a \in Seq(Declaration) /\ Len(a) = A
          /\ \A i \in 1..A : a[i] = [domain |-> e[id][i], parser |-> id]
      BY Zenon, <1>1, <2>1
    <3>2. /\ b \in Seq(Declaration) /\ Len(b) = B
          /\ \A i \in 1..B : b[i] = [domain |-> v[id][i], parser |-> id]
      BY Zenon, <1>1, <2>1
    <3> QED BY <2>1, <3>1, <3>2
  <2>3. part(id) = a \o b
    OBVIOUS
  <2> HIDE DEF a, b, A, B, part
  <2>4. /\ a \o b \in Seq(Declaration) /\ Len(a \o b) = A + B
        /\ \A i \in 1..(A + B) : (a \o b)[i] = IF i <= A THEN a[i] ELSE b[i - A]
    BY Zenon, <2>2, ConcatProperties
  <2> DEFINE t == a \o b
  <2>5. t \in Seq(Declaration) /\ DOMAIN t = 1..(A + B)
    BY <2>2, <2>4
  <2>6. \A i \in 1..A : t[i] = a[i] /\ i \in 1..(A + B)
    BY <2>2, <2>4
  <2>7. ASSUME NEW i \in 1..B PROVE t[A + i] = b[i] /\ A + i \in 1..(A + B)
    <3>1. A + i \in 1..(A + B) /\ ~(A + i <= A) /\ (A + i) - A = i
      BY <2>2
    <3> QED BY <2>4, <3>1
  <2> HIDE DEF t
  <2>8. \A host \in ToSet(e[id]) \cup ToSet(v[id]) :
          \E k \in DOMAIN t : t[k] = [domain |-> host, parser |-> id]
    <3>1. ASSUME NEW host \in ToSet(e[id])
          PROVE  \E k \in DOMAIN t : t[k] = [domain |-> host, parser |-> id]
      <4>1. PICK i \in 1..A : e[id][i] = host
        BY <2>2 DEF ToSet
      <4> QED BY <2>2, <2>5, <2>6, <4>1
    <3>2. ASSUME NEW host \in ToSet(v[id])
          PROVE  \E k \in DOMAIN t : t[k] = [domain |-> host, parser |-> id]
      <4>1. PICK i \in 1..B : v[id][i] = host
        BY <2>2 DEF ToSet
      <4>2. t[A + i] = [domain |-> host, parser |-> id] /\ A + i \in DOMAIN t
        BY <2>2, <2>5, <2>7, <4>1
      <4> QED BY <4>2
    <3> QED BY <3>1, <3>2
  <2> QED BY <2>3, <2>5, <2>8 DEF t
<1>3. \A id \in Parsers : part(id) \in Seq(Declaration)
  <2> SUFFICES ASSUME NEW id \in Parsers PROVE part(id) \in Seq(Declaration)
    OBVIOUS
  <2>1. CASE id \in DOMAIN e
    BY <1>2, <2>1
  <2>2. CASE id \notin DOMAIN e
    BY <2>2
  <2> QED BY <2>1, <2>2
<1>4. Declarations(e, v) = FlattenSeq(parts)
  BY DEF Declarations
<1> HIDE DEF part
<1>5. Count \in Nat /\ parts \in [1..Count -> Seq(Declaration)]
  BY <1>3, RoutingAssumption DEF Parsers
<1>6. \A id \in Parsers : parts[id] = part(id)
  OBVIOUS
<1> HIDE DEF parts
<1>7. /\ FlattenSeq(parts) \in Seq(Declaration)
      /\ \A i \in 1..Count : \A k \in DOMAIN parts[i] :
           \E j \in DOMAIN FlattenSeq(parts) : FlattenSeq(parts)[j] = parts[i][k]
  <2>1. \A N \in Nat : \A s \in [1..N -> Seq(Declaration)] :
          /\ FlattenSeq(s) \in Seq(Declaration)
          /\ \A i \in 1..N : \A k \in DOMAIN s[i] :
               \E j \in DOMAIN FlattenSeq(s) : FlattenSeq(s)[j] = s[i][k]
    <3> TAKE N \in Nat
    <3> TAKE s \in [1..N -> Seq(Declaration)]
    <3> HIDE DEF Declaration
    <3> QED BY FlattenMembers
  <2> QED BY <1>5, <2>1, Zenon
<1>8. ASSUME NEW id \in DOMAIN e, NEW host \in ToSet(e[id]) \cup ToSet(v[id])
      PROVE  \E i \in DOMAIN FlattenSeq(parts) :
                FlattenSeq(parts)[i] = [domain |-> host, parser |-> id]
  <2>1. id \in 1..Count /\ parts[id] = part(id)
    BY <1>6, ListedAreHosts DEF Parsers
  <2>2. PICK k \in DOMAIN part(id) : part(id)[k] = [domain |-> host, parser |-> id]
    BY <1>2
  <2> QED BY <1>7, <2>1, <2>2
<1> QED BY <1>4, <1>7, <1>8

\* hosts is the recursion of WithHosts, over N URLs.
Unites(hosts, domains, urls, N) ==
    hosts = [n \in 0..N |->
              IF n = 0 THEN domains
              ELSE IF Contains(hosts[n - 1], urls[n]) THEN hosts[n - 1]
              ELSE Append(hosts[n - 1], urls[n])]

\* The recursion of WithHosts has a solution.
LEMMA UnitesExists ==
    ASSUME NEW domains, NEW urls, NEW N \in Nat
    PROVE  \E f : Unites(f, domains, urls, N)
<1> DEFINE Grown(was, n) == IF Contains(was, urls[n]) THEN was ELSE Append(was, urls[n])
           T == {k \in Nat : \E f : Unites(f, domains, urls, k)}
<1>1. 0 \in T
  <2>1. Unites([n \in 0..0 |-> domains], domains, urls, 0)
    BY DEF Unites
  <2> QED BY <2>1
<1>2. ASSUME NEW k \in T PROVE k + 1 \in T
  <2>1. PICK f : Unites(f, domains, urls, k)
    OBVIOUS
  <2>a. \A n \in 0..k : f[n] = IF n = 0 THEN domains ELSE Grown(f[n - 1], n)
    BY <2>1 DEF Unites
  <2> DEFINE g == [n \in 0..(k + 1) |-> IF n <= k THEN f[n]
                    ELSE IF n = 0 THEN domains ELSE Grown(f[n - 1], n)]
  <2> HIDE DEF Grown
  <2>2. \A n \in 0..(k + 1) : n # 0 => g[n - 1] = f[n - 1]
    OBVIOUS
  <2>3. ASSUME NEW n \in 0..(k + 1)
        PROVE  g[n] = IF n = 0 THEN domains ELSE Grown(g[n - 1], n)
    <3>1. CASE n <= k
      <4>1. n \in 0..k /\ g[n] = f[n]
        BY <3>1
      <4> HIDE DEF g
      <4> QED BY <2>a, <2>2, <4>1
    <3>2. CASE n = k + 1
      <4>1. n # 0 /\ g[n] = Grown(f[n - 1], n)
        BY <3>2
      <4> HIDE DEF g
      <4> QED BY <2>2, <4>1
    <3> QED BY <3>1, <3>2
  <2>4. g = [n \in 0..(k + 1) |-> g[n]]
    OBVIOUS
  <2> HIDE DEF g
  <2>5. Unites(g, domains, urls, k + 1)
    BY <2>3, <2>4 DEF Unites, Grown
  <2> QED BY <2>5
<1>3. T = Nat
  <2>1. T \in SUBSET Nat
    OBVIOUS
  <2> HIDE DEF T
  <2> QED BY <1>1, <1>2, <2>1, SetInduction
<1> QED BY <1>3

\* A list with hosts has all of them and what it had, and is not longer than both.
LEMMA WithHostsHas ==
    ASSUME NEW X, NEW domains \in Seq(X), NEW urls \in Seq(X)
    PROVE  /\ WithHosts(domains, urls) \in Seq(X)
           /\ Len(WithHosts(domains, urls)) <= Len(domains) + Len(urls)
           /\ ToSet(domains) \cup ToSet(urls) \subseteq ToSet(WithHosts(domains, urls))
<1> DEFINE N == Len(urls)
<1>1. N \in Nat /\ DOMAIN urls = 1..N /\ Len(domains) \in Nat
  OBVIOUS
<1>2. \E f : Unites(f, domains, urls, N)
  BY <1>1, UnitesExists
<1> DEFINE hosts == CHOOSE f : Unites(f, domains, urls, N)
<1>3. Unites(hosts, domains, urls, N)
  BY <1>2, Zenon
<1>4. WithHosts(domains, urls) = hosts[N]
  BY Zenon DEF WithHosts, Unites
<1> HIDE DEF hosts
<1>5. \A n \in 0..N : hosts[n] = IF n = 0 THEN domains
                                  ELSE IF Contains(hosts[n - 1], urls[n]) THEN hosts[n - 1]
                                  ELSE Append(hosts[n - 1], urls[n])
  BY <1>3 DEF Unites
<1> DEFINE Good(q, n) == /\ q \in Seq(X) /\ Len(q) <= Len(domains) + n
                         /\ ToSet(domains) \subseteq ToSet(q)
                         /\ \A i \in 1..n : urls[i] \in ToSet(q)
           T == {n \in Nat : n <= N => Good(hosts[n], n)}
<1>6. 0 \in T
  <2>1. hosts[0] = domains
    BY <1>1, <1>5
  <2>2. Good(domains, 0)
    BY <1>1
  <2> QED BY <2>1, <2>2
<1>7. ASSUME NEW p \in T PROVE p + 1 \in T
  <2> DEFINE n == p + 1
  <2>1. p \in Nat /\ n \in Nat /\ n - 1 = p /\ n # 0 /\ (n <= N => p <= N) /\ 1..n = (1..p) \cup {n}
    BY <1>1
  <2>2. p <= N => Good(hosts[p], p)
    OBVIOUS
  <2> HIDE DEF T
  <2>3. ASSUME n <= N PROVE Good(hosts[n], n)
    <3>1. n \in 0..N /\ n \in 1..N /\ urls[n] \in X
      BY <1>1, <2>1, <2>3
    <3> DEFINE q == hosts[p]
               u == urls[n]
    <3>2. hosts[n] = IF Contains(q, u) THEN q ELSE Append(q, u)
      BY <1>5, <2>1, <3>1
    <3>3. Good(q, p)
      BY <2>1, <2>2, <2>3
    <3>4. n = p + 1
      OBVIOUS
    <3> HIDE DEF q, u, n
    <3>5. CASE Contains(q, u)
      <4>1. u \in ToSet(q)
        BY <3>3, <3>5 DEF Contains, ToSet
      <4> QED BY <1>1, <2>1, <3>2, <3>3, <3>4, <3>5, <4>1 DEF u
    <3>6. CASE ~Contains(q, u)
      <4>1. /\ Append(q, u) \in Seq(X) /\ Len(Append(q, u)) = Len(q) + 1
            /\ ToSet(Append(q, u)) = ToSet(q) \cup {u}
        <5>1. q \in Seq(X) /\ u \in X /\ Len(q) \in Nat /\ DOMAIN q = 1..Len(q)
          BY <3>1, <3>3 DEF u
        <5> HIDE DEF Good
        <5>2. /\ Append(q, u) \in Seq(X) /\ Len(Append(q, u)) = Len(q) + 1
              /\ Append(q, u)[Len(q) + 1] = u
              /\ \A i \in 1..Len(q) : Append(q, u)[i] = q[i]
          BY <5>1
        <5>3. DOMAIN Append(q, u) = 1..(Len(q) + 1)
          BY <5>2
        <5>4. ToSet(Append(q, u)) = ToSet(q) \cup {u}
          BY <5>1, <5>2, <5>3 DEF ToSet
        <5> QED BY <5>2, <5>4
      <4> QED BY <1>1, <2>1, <3>2, <3>3, <3>4, <3>6, <4>1 DEF u
    <3> QED BY <3>5, <3>6
  <2> QED BY <2>1, <2>3 DEF n, T
<1>8. T = Nat
  <2>1. T \in SUBSET Nat
    OBVIOUS
  <2> HIDE DEF T
  <2> QED BY <1>6, <1>7, <2>1, SetInduction
<1>9. Good(hosts[N], N)
  <2>1. N \in T
    BY <1>1, <1>8
  <2> QED BY <1>1, <2>1
<1> QED BY <1>1, <1>4, <1>9 DEF ToSet

\* No list at all is one.
LEMMA NothingListed == <<>> \in BoundedSeq(CatalogDomains \cup CatalogUrls, 2 * MaxListed + 1)
<1>1. 2 * MaxListed + 1 \in Nat
  BY RoutingAssumption
<1>2. \A q : q \in BoundedSeq(CatalogDomains \cup CatalogUrls, 2 * MaxListed + 1) <=>
         q \in Seq(CatalogDomains \cup CatalogUrls) /\ Len(q) <= 2 * MaxListed + 1
  BY <1>1, ListedAreHosts
<1>3. <<>> \in Seq(CatalogDomains \cup CatalogUrls) /\ Len(<<>>) <= 2 * MaxListed + 1
  BY <1>1
<1> QED BY <1>2, <1>3, Zenon

\* What UnionHosts makes of a catalog: lists that are not too long, with every URL's host.
LEMMA UnionHostsHas ==
    ASSUME NEW domains \in [Parsers -> Lists(CatalogDomains)],
           NEW mirrors \in [Parsers -> Lists(CatalogUrls)],
           NEW canonical \in [Parsers -> BoundedSeq(CatalogUrls, 1)]
    PROVE  /\ UnionHosts(domains, mirrors, canonical) \in Volatiles
           /\ \A id \in Parsers : ToSet(mirrors[id]) \cup ToSet(canonical[id])
                                    \subseteq ToSet(UnionHosts(domains, mirrors, canonical)[id])
<1> DEFINE X == CatalogDomains \cup CatalogUrls
           B == BoundedSeq(X, 2 * MaxListed + 1)
           one(id) == WithHosts(domains[id], mirrors[id])
           both(id) == WithHosts(one(id), canonical[id])
<1>1. /\ \A S : \A q \in Lists(S) : q \in Seq(S) /\ Len(q) <= MaxListed
      /\ \A q \in BoundedSeq(CatalogUrls, 1) : q \in Seq(CatalogUrls) /\ Len(q) <= 1
  BY ListedAreHosts, RoutingAssumption DEF Lists
<1>2. ASSUME NEW id \in Parsers
      PROVE  both(id) \in B /\ ToSet(mirrors[id]) \cup ToSet(canonical[id]) \subseteq ToSet(both(id))
  <2>1. /\ domains[id] \in Seq(CatalogDomains) /\ Len(domains[id]) <= MaxListed
        /\ mirrors[id] \in Seq(CatalogUrls) /\ Len(mirrors[id]) <= MaxListed
        /\ canonical[id] \in Seq(CatalogUrls) /\ Len(canonical[id]) <= 1
    BY <1>1
  <2>2. domains[id] \in Seq(X) /\ mirrors[id] \in Seq(X) /\ canonical[id] \in Seq(X)
    BY <2>1
  <2> HIDE DEF X, B
  <2>3. /\ one(id) \in Seq(X)
        /\ Len(one(id)) <= Len(domains[id]) + Len(mirrors[id])
        /\ ToSet(domains[id]) \cup ToSet(mirrors[id]) \subseteq ToSet(one(id))
    BY <2>2, WithHostsHas
  <2> HIDE DEF one
  <2>4. /\ both(id) \in Seq(X)
        /\ Len(both(id)) <= Len(one(id)) + Len(canonical[id])
        /\ ToSet(one(id)) \cup ToSet(canonical[id]) \subseteq ToSet(both(id))
    BY <2>2, <2>3, WithHostsHas
  <2> HIDE DEF both
  <2>5. Len(both(id)) <= 2 * MaxListed + 1
    <3>1. /\ Len(domains[id]) \in Nat /\ Len(mirrors[id]) \in Nat /\ Len(canonical[id]) \in Nat
          /\ Len(one(id)) \in Nat /\ Len(both(id)) \in Nat
      BY <2>2, <2>3, <2>4
    <3> QED BY <2>1, <2>3, <2>4, <3>1, RoutingAssumption
  <2>6. both(id) \in B
    <3>1. 2 * MaxListed + 1 \in Nat
      BY RoutingAssumption
    <3> QED BY <2>4, <2>5, <3>1, ListedAreHosts DEF B
  <2> QED BY <2>3, <2>4, <2>6
<1>3. UnionHosts(domains, mirrors, canonical) = [id \in Parsers |-> both(id)]
  BY DEF UnionHosts
<1> HIDE DEF both, B
<1> QED BY <1>2, <1>3 DEF Volatiles, B, X

-----------------------------------------------------------------------------
(* The invariant *)

\* The tree is the one of the registered parsers and the catalog in force, and every
\* host the catalog lists is among its domains.
RoutingInv ==
    /\ RoutingTypeOK
    /\ scanner = MakeSnapshot(entries, volatile)
    /\ \A id \in Parsers : listed[id] \subseteq ToSet(volatile[id])

\* Every snapshot is a tree of hosts.
LEMMA SnapshotHolds ==
    ASSUME NEW e \in Registrations, NEW v \in Volatiles
    PROVE  /\ Holds(MakeSnapshot(e, v), Declarations(e, v), Len(Declarations(e, v)))
           /\ Tree!IsTree(MakeSnapshot(e, v))
           /\ DOMAIN MakeSnapshot(e, v) \subseteq BoundedSeq(Labels, MaxDepth)
<1>1. Declarations(e, v) \in Seq(Declaration)
  BY AllAreDeclared
<1>2. Holds(MakeSnapshot(e, v), Declarations(e, v), Len(Declarations(e, v)))
  BY <1>1, TreeHolds DEF MakeSnapshot
<1> QED BY <1>2 DEF Holds, Hosts

\* It holds in the beginning.
LEMMA RoutingInitInv == RoutingInit => RoutingInv
<1> SUFFICES ASSUME RoutingInit PROVE RoutingInv
  OBVIOUS
<1>1. entries \in Registrations
  <2>1. entries \in [{} -> Lists(StaticDomains)] /\ {} \in SUBSET Parsers
    BY DEF RoutingInit
  <2> QED BY <2>1 DEF Registrations
<1>2. volatile \in Volatiles
  BY NothingListed DEF RoutingInit, Volatiles
<1>3. listed \in [Parsers -> SUBSET CatalogUrls] /\ \A id \in Parsers : listed[id] = {}
  BY DEF RoutingInit
<1>4. scanner = MakeSnapshot(entries, volatile)
  BY DEF RoutingInit
<1> QED BY <1>1, <1>2, <1>3, <1>4, SnapshotHolds
        DEF RoutingInv, RoutingTypeOK, Registrations, Volatiles

\* It holds again once a snapshot was made of what is registered and listed now.
LEMMA SnapshotMade ==
    ASSUME entries' \in Registrations, volatile' \in Volatiles,
           listed' \in [Parsers -> SUBSET CatalogUrls],
           scanner' = MakeSnapshot(entries', volatile'),
           \A id \in Parsers : listed'[id] \subseteq ToSet(volatile'[id])
    PROVE  RoutingInv'
<1>1. /\ Tree!IsTree(MakeSnapshot(entries', volatile'))
      /\ DOMAIN MakeSnapshot(entries', volatile') \subseteq BoundedSeq(Labels, MaxDepth)
  BY SnapshotHolds
<1> QED BY <1>1 DEF RoutingInv, RoutingTypeOK, Registrations, Volatiles

\* Every step preserves it.
LEMMA RoutingStep == RoutingInv /\ [RoutingNext]_routingVars => RoutingInv'
<1> SUFFICES ASSUME RoutingInv, [RoutingNext]_routingVars PROVE RoutingInv'
  OBVIOUS
<1>1. /\ entries \in Registrations /\ volatile \in Volatiles
      /\ listed \in [Parsers -> SUBSET CatalogUrls]
      /\ \A id \in Parsers : listed[id] \subseteq ToSet(volatile[id])
  BY DEF RoutingInv, RoutingTypeOK, Registrations, Volatiles
<1>2. DOMAIN entries \subseteq Parsers /\ \A id \in DOMAIN entries : entries[id] \in Lists(StaticDomains)
  BY <1>1, ListedAreHosts
<1>3. ASSUME NEW id \in Parsers, NEW domains \in Lists(StaticDomains), AddParser(id, domains)
      PROVE  RoutingInv'
  <2>1. entries' \in [DOMAIN entries \cup {id} -> Lists(StaticDomains)]
    BY <1>2, <1>3 DEF AddParser
  <2>2. entries' \in Registrations
    BY <1>2, <2>1 DEF Registrations
  <2> QED BY <1>1, <1>3, <2>2, SnapshotMade DEF AddParser
<1>4. ASSUME NEW id \in Parsers, RemoveParser(id) PROVE RoutingInv'
  <2>1. entries' \in [DOMAIN entries \ {id} -> Lists(StaticDomains)]
    BY <1>2, <1>4 DEF RemoveParser
  <2>2. entries' \in Registrations
    BY <1>2, <2>1 DEF Registrations
  <2> QED BY <1>1, <1>4, <2>2, SnapshotMade DEF RemoveParser
<1>5. ASSUME NEW domains \in [Parsers -> Lists(CatalogDomains)],
             NEW mirrors \in [Parsers -> Lists(CatalogUrls)],
             NEW canonical \in [Parsers -> BoundedSeq(CatalogUrls, 1)],
             ApplyCatalog(domains, mirrors, canonical)
      PROVE  RoutingInv'
  <2>1. /\ volatile' \in Volatiles
        /\ \A id \in Parsers : ToSet(mirrors[id]) \cup ToSet(canonical[id]) \subseteq ToSet(volatile'[id])
    BY <1>5, UnionHostsHas DEF ApplyCatalog
  <2>2. /\ listed' = [id \in Parsers |-> ToSet(mirrors[id]) \cup ToSet(canonical[id])]
        /\ entries' = entries /\ scanner' = MakeSnapshot(entries', volatile')
    BY <1>5 DEF ApplyCatalog
  <2>3. \A id \in Parsers : ToSet(mirrors[id]) \subseteq CatalogUrls /\ ToSet(canonical[id]) \subseteq CatalogUrls
    <3>1. \A q \in Lists(CatalogUrls) \cup BoundedSeq(CatalogUrls, 1) : ToSet(q) \subseteq CatalogUrls
      <4>1. \A q \in Lists(CatalogUrls) \cup BoundedSeq(CatalogUrls, 1) : q \in Seq(CatalogUrls)
        BY ListedAreHosts, RoutingAssumption DEF Lists
      <4> QED BY <4>1 DEF ToSet
    <3> QED BY <3>1
  <2>4. /\ listed' \in [Parsers -> SUBSET CatalogUrls]
        /\ \A id \in Parsers : listed'[id] \subseteq ToSet(volatile'[id])
    BY <2>1, <2>2, <2>3
  <2> QED BY <1>1, <2>1, <2>2, <2>4, SnapshotMade
<1>6. ASSUME ResetCatalog PROVE RoutingInv'
  <2>1. volatile' \in Volatiles
    BY <1>6, NothingListed DEF ResetCatalog, Volatiles
  <2>2. listed' = [id \in Parsers |-> {}] /\ entries' = entries /\ scanner' = MakeSnapshot(entries', volatile')
    BY <1>6 DEF ResetCatalog
  <2> QED BY <1>1, <2>1, <2>2, SnapshotMade
<1>7. CASE UNCHANGED routingVars
  BY <1>7 DEF RoutingInv, RoutingTypeOK, routingVars
<1> QED BY <1>3, <1>4, <1>5, <1>6, <1>7 DEF RoutingNext

\* It is an invariant.
LEMMA RoutingInvariant == RoutingSpec => []RoutingInv
BY RoutingInitInv, RoutingStep, PTL DEF RoutingSpec

-----------------------------------------------------------------------------
(* Theorems *)

\* A snapshot is a tree: every node's parent is one of its nodes, and hosts are no longer
\* than what was declared (DomainScanner.cpp: DomainScanner::add).
THEOREM RoutingTyping == RoutingSpec => []RoutingTypeOK
<1>1. RoutingInv => RoutingTypeOK
  BY DEF RoutingInv
<1> QED BY <1>1, RoutingInvariant, PTL

\* Whatever is registered and whatever catalog is applied or reset, a URL goes to the
\* parser declared for the longest domain its host is under among those that accept it
\* (ParserStore::find_for_url, DomainScanner::search_all).
THEOREM RoutesToLongest == RoutingSpec => []RoutesByLongestDomain
<1>1. RoutingInv => RoutesByLongestDomain
  <2> SUFFICES ASSUME RoutingInv,
                      NEW host \in BoundedSeq(LowerLabels, MaxDepth + 1), NEW accepts \in SUBSET Parsers
               PROVE  Tree!FindsLongestMatch(scanner, Declarations(entries, volatile), host, accepts)
    BY DEF RoutesByLongestDomain
  <2>1. host \in Seq(Labels)
    <3>1. MaxDepth + 1 \in Nat
      BY RoutingAssumption
    <3>2. host \in Seq(LowerLabels)
      BY <3>1, ListedAreHosts
    <3> QED BY <3>2 DEF Labels
  <2>2. entries \in Registrations /\ volatile \in Volatiles /\ scanner = MakeSnapshot(entries, volatile)
    BY DEF RoutingInv, RoutingTypeOK, Registrations, Volatiles
  <2>3. /\ Declarations(entries, volatile) \in Seq(Declaration)
        /\ Holds(scanner, Declarations(entries, volatile), Len(Declarations(entries, volatile)))
    BY <2>2, AllAreDeclared, SnapshotHolds
  <2> QED BY <2>1, <2>3, LongestIsFound
<1> QED BY <1>1, RoutingInvariant, PTL

\* The catalog's URLs have their hosts in lower case (what finding 7 is about left out).
LowerUrls == \A host \in CatalogUrls : Parsed(host) = host

\* A URL from a listed mirror or canonical origin, and one from a domain the parser
\* declares itself, reaches a parser that accepts it (CatalogManager.cpp:
\* union_mirror_hosts, union_canonical_hosts).
THEOREM ListedRoute == LowerUrls /\ RoutingSpec => []ListedUrlsRoute
<1> SUFFICES ASSUME LowerUrls PROVE RoutingSpec => []ListedUrlsRoute
  OBVIOUS
<1>1. RoutingInv => ListedUrlsRoute
  <2> SUFFICES ASSUME RoutingInv, NEW id \in DOMAIN entries
               PROVE  /\ \A host \in listed[id] : FindForUrl(host, {id}) = id
                      /\ \A host \in ToSet(entries[id]) : Parsed(host) = host => FindForUrl(host, {id}) = id
    BY DEF ListedUrlsRoute
  <2> DEFINE d == Declarations(entries, volatile)
  <2>1. /\ entries \in Registrations /\ volatile \in Volatiles
        /\ scanner = MakeSnapshot(entries, volatile) /\ listed \in [Parsers -> SUBSET CatalogUrls]
    BY DEF RoutingInv, RoutingTypeOK, Registrations, Volatiles
  <2>2. id \in Parsers /\ {id} \in SUBSET Parsers
    BY <2>1, ListedAreHosts
  <2>3. d \in Seq(Declaration) /\ Holds(scanner, d, Len(d))
    BY <2>1, AllAreDeclared, SnapshotHolds
  <2>4. \A host \in ToSet(entries[id]) \cup ToSet(volatile[id]) :
          \E i \in DOMAIN d : d[i] = [domain |-> host, parser |-> id]
    BY <2>1, AllAreDeclared
  <2> HIDE DEF d
  <2>5. ASSUME NEW host \in Seq(Labels), host \in ToSet(entries[id]) \cup ToSet(volatile[id]),
               Parsed(host) = host
        PROVE  FindForUrl(host, {id}) = id
    <3> DEFINE matching == {i \in DOMAIN d : d[i].parser \in {id} /\ Tree!IsPrefix(d[i].domain, host)}
               found == Tree!SearchAll(scanner, host, {id})
    <3>1. Tree!FindsLongestMatch(scanner, d, host, {id})
      BY <2>2, <2>3, LongestIsFound
    <3>2. IF matching = {} THEN found = 0 ELSE \E i \in matching : found = d[i].parser
      BY <3>1, Zenon DEF Tree!FindsLongestMatch
    <3>3. matching # {}
      <4>1. PICK i \in DOMAIN d : d[i] = [domain |-> host, parser |-> id]
        BY <2>4, <2>5
      <4>2. Tree!IsPrefix(host, host)
        BY PrefixFacts DEF Tree!IsPrefix
      <4> QED BY <4>1, <4>2
    <3>4. found = id
      BY <3>2, <3>3
    <3> QED BY <2>5, <3>4 DEF FindForUrl
  <2>6. \A host \in listed[id] : host \in ToSet(volatile[id]) /\ Parsed(host) = host /\ host \in Seq(Labels)
    <3>1. \A host \in listed[id] : host \in ToSet(volatile[id]) /\ host \in CatalogUrls
      BY <2>1, <2>2 DEF RoutingInv
    <3> QED BY <3>1, ListedAreHosts, HostsAre DEF LowerUrls
  <2>7. \A host \in ToSet(entries[id]) : host \in Seq(Labels)
    <3>1. entries[id] \in Seq(Hosts)
      BY <2>1, ListedAreHosts
    <3> QED BY <3>1, HostsAre DEF ToSet
  <2> QED BY <2>5, <2>6, <2>7
<1> QED BY <1>1, RoutingInvariant, PTL

=============================================================================
