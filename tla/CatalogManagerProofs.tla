------------------------ MODULE CatalogManagerProofs ------------------------
(***************************************************************************)
(* Proofs about CatalogManager, for any number of host threads, names,     *)
(* revisions and values of a word, and any choice of configured parts.     *)
(***************************************************************************)
EXTENDS CatalogManager, TLAPS

New == Decoded(target)

\* Where the manager can be: idle at the beginning, inside an edit only in a store.
PlaceInv ==
    /\ op = "idle" => at = 1 /\ step = "begin" /\ target = 0
    /\ step # "begin" => op # "idle" /\ at \in {1, 2}
    /\ at = 2 /\ step # "begin" => "extractors" \in Configured

\* A draft that can still be committed has every registration there is, and a host's
\* leaves the catalog's part of its store as it is.
DraftsFollow ==
    /\ \A e \in Editors : parserView[e] = "current" => parsers.entries \subseteq parserDraft[e].entries
    /\ \A e \in Editors : extractorView[e] = "current" => extractors.entries \subseteq extractorDraft[e].entries
    /\ \A h \in Hosts : parserView[h] = "current" => parserDraft[h].volatile = parsers.volatile
    /\ \A h \in Hosts : extractorView[h] = "current" => extractorDraft[h].volatile = extractors.volatile

\* What the manager is about to commit is of the catalog it installs.
ManagersDraft ==
    /\ at = 1 /\ step = "commit" => parserDraft[Manager].volatile = New
    /\ at = 2 /\ step = "commit" => extractorDraft[Manager].volatile = New

\* The parts before the manager's place are of the new catalog; those behind it are of the
\* last one, unless a call has thrown.
StoresFollow ==
    /\ at > 1 => parsers.volatile = New
    /\ at = 1 /\ ~dirty => parsers.volatile = revision
    /\ "extractors" \in Configured /\ at > 2 => extractors.volatile = New
    /\ "extractors" \in Configured /\ at <= 2 /\ ~dirty => extractors.volatile = revision

HoldersFollow ==
    \A k \in 3..8 : Order[k] \in Configured =>
        /\ k < at => holder[Order[k]] = New
        /\ at <= k /\ ~dirty => holder[Order[k]] = revision

IInv ==
    /\ TypeOK
    /\ PlaceInv
    /\ DraftsFollow
    /\ ManagersDraft
    /\ StoresFollow
    /\ HoldersFollow

-----------------------------------------------------------------------------

\* The two stores come first, every part has one place.
LEMMA Places ==
    /\ Done = 9
    /\ Order[1] = "parsers" /\ Order[2] = "extractors"
    /\ Order[3] = "mirrors" /\ Order[7] = "extractorMirrors"
    /\ \A j, k \in 1..8 : Order[j] = Order[k] => j = k
    /\ \A k \in 3..8 : Order[k] \in Holders
    /\ \A h \in Holders : \E k \in 3..8 : h = Order[k]
<1>1. Len(Order) = 8 /\ DOMAIN Order = 1..8
  BY DEF Order
<1>2. /\ Order[1] = "parsers" /\ Order[2] = "extractors" /\ Order[3] = "mirrors"
      /\ Order[4] = "selectors" /\ Order[5] = "patterns" /\ Order[6] = "resources"
      /\ Order[7] = "extractorMirrors" /\ Order[8] = "extractorPatterns"
  BY DEF Order
<1>3. \A k \in 1..8 : k = 1 \/ k = 2 \/ k = 3 \/ k = 4 \/ k = 5 \/ k = 6 \/ k = 7 \/ k = 8
  OBVIOUS
<1>4. \A j, k \in 1..8 : Order[j] = Order[k] => j = k
  BY <1>2, <1>3
<1>5. \A k \in 3..8 : Order[k] \in Holders
  <2>1. SUFFICES ASSUME NEW k \in 3..8 PROVE Order[k] \in Parts /\ Order[k] # "parsers" /\ Order[k] # "extractors"
    BY DEF Holders, Stores
  <2>2. k \in 1..8 /\ k # 1 /\ k # 2
    OBVIOUS
  <2>3. Order[k] \in Parts
    BY <1>1, <2>2 DEF Parts
  <2> QED BY <1>2, <1>4, <2>2, <2>3
<1>6. ASSUME NEW h \in Holders PROVE \E k \in 3..8 : h = Order[k]
  <2>1. PICK k \in 1..8 : h = Order[k]
    BY <1>1 DEF Holders, Parts
  <2>2. k # 1 /\ k # 2
    BY <1>2, <2>1 DEF Holders, Stores
  <2> QED BY <2>1, <2>2
<1> QED BY <1>1, <1>2, <1>4, <1>5, <1>6 DEF Done

\* What a catalog has written in it is a revision once it is decoded.
LEMMA DecodedIsARevision ==
    /\ Modulus \in Nat /\ 0 \in Revision /\ Null \notin Revision
    /\ \A w \in Written \cup {0} : Decoded(w) \in Revision
    /\ Decoded(0) = 0
<1>1. Modulus \in Nat \ {0}
  BY CatalogManagerAssumption DEF Modulus
<1>2. \A w \in Written \cup {0} : w \in Int
  BY CatalogManagerAssumption
<1>3. \A w \in Int : (w % Modulus) \in 0 .. Modulus - 1
  BY <1>1
<1>4. (0 % Modulus) = 0
  BY <1>1
<1> QED BY <1>1, <1>2, <1>3, <1>4 DEF Decoded, Revision, Null
\* A draft with one field changed is a content that differs from it in that field only.
LEMMA ContentChanges ==
    ASSUME NEW c \in Content
    PROVE  /\ \A n \in Names :
                /\ [c EXCEPT !.entries = c.entries \cup {n}] \in Content
                /\ c.entries \subseteq [c EXCEPT !.entries = c.entries \cup {n}].entries
                /\ [c EXCEPT !.entries = c.entries \cup {n}].volatile = c.volatile
           /\ \A r \in Revision :
                /\ [c EXCEPT !.volatile = r] \in Content
                /\ [c EXCEPT !.volatile = r].volatile = r
                /\ [c EXCEPT !.volatile = r].entries = c.entries
BY DEF Content

-----------------------------------------------------------------------------

\* A step of a host thread on the parsers: the catalog's part stays as it is, and what
\* the host commits has every registration in it.
LEMMA HostParsersStep ==
    ASSUME IInv, NEW h \in Hosts, HostParsers(h)
    PROVE  IInv' /\ parsers.entries \subseteq parsers'.entries
<1> USE CatalogManagerAssumption DEF IInv, Editors
<1>0. /\ UNCHANGED <<extractorVars, holder, managerVars>>
      /\ h # Manager /\ h \in Editors /\ Manager \in Editors
  BY DEF HostParsers
<1>1. CASE P!Begin(h)
  <2>1. TypeOK'
    BY <1>0, <1>1 DEF TypeOK, P!TypeOK, P!Begin, P!Views, X!TypeOK, extractorVars, managerVars
  <2>2. DraftsFollow'
    BY <1>0, <1>1 DEF TypeOK, P!TypeOK, P!Begin, DraftsFollow, extractorVars
  <2>3. ManagersDraft' /\ parsers' = parsers
    BY <1>0, <1>1 DEF TypeOK, P!TypeOK, P!Begin, ManagersDraft, New, Decoded, extractorVars, managerVars
  <2>4. PlaceInv' /\ StoresFollow' /\ HoldersFollow'
    BY <1>0, <2>3 DEF PlaceInv, StoresFollow, HoldersFollow, New, Decoded, extractorVars, managerVars
  <2> QED BY <2>1, <2>2, <2>3, <2>4
<1>2. CASE /\ parserView[h] # "none"
           /\ \E n \in Names : parserDraft' = [parserDraft EXCEPT ![h].entries = @ \cup {n}]
           /\ UNCHANGED <<parsers, parserView>>
  <2> PICK n \in Names : parserDraft' = [parserDraft EXCEPT ![h].entries = @ \cup {n}]
    BY <1>2
  <2> DEFINE added == [parserDraft[h] EXCEPT !.entries = parserDraft[h].entries \cup {n}]
  <2>a. parserDraft[h] \in Content /\ parserDraft \in [Editors -> Content]
    BY <1>0 DEF TypeOK, P!TypeOK
  <2>b. /\ added \in Content
        /\ parserDraft[h].entries \subseteq added.entries /\ added.volatile = parserDraft[h].volatile
    BY <2>a, ContentChanges
  <2>c. parserDraft' = [parserDraft EXCEPT ![h] = added]
    OBVIOUS
  <2> HIDE DEF added
  <2>0. /\ parserDraft' \in [Editors -> Content]
        /\ \A e \in Editors : /\ parserDraft[e].entries \subseteq parserDraft'[e].entries
                              /\ parserDraft'[e].volatile = parserDraft[e].volatile
                              /\ e # h => parserDraft'[e] = parserDraft[e]
    BY <1>0, <2>a, <2>b, <2>c
  <2>1. TypeOK'
    BY <1>0, <1>2, <2>0 DEF TypeOK, P!TypeOK, X!TypeOK, extractorVars, managerVars
  <2>2. DraftsFollow'
    BY <1>0, <1>2, <2>0 DEF DraftsFollow, extractorVars
  <2>3. ManagersDraft' /\ parsers' = parsers
    BY <1>0, <1>2, <2>0 DEF TypeOK, P!TypeOK, ManagersDraft, New, Decoded, extractorVars, managerVars
  <2>4. PlaceInv' /\ StoresFollow' /\ HoldersFollow'
    BY <1>0, <2>3 DEF PlaceInv, StoresFollow, HoldersFollow, New, Decoded, extractorVars, managerVars
  <2> QED BY <2>1, <2>2, <2>3, <2>4
<1>3. CASE P!Commit(h)
  <2>0. /\ parsers' = parserDraft[h] /\ parserDraft[h] \in Content
        /\ parserView' \in [Editors -> P!Views]
        /\ \A e \in Editors : parserView'[e] # "current"
    BY <1>0, <1>3 DEF TypeOK, P!TypeOK, P!Commit, P!Outdate, P!Views
  <2>1. TypeOK'
    <3>1. EmptyContent \in Content
      BY DecodedIsARevision DEF EmptyContent, Content
    <3> QED BY <1>0, <1>3, <2>0, <3>1 DEF TypeOK, P!TypeOK, P!Commit, X!TypeOK, extractorVars, managerVars
  <2>2. DraftsFollow'
    BY <1>0, <2>0 DEF DraftsFollow, extractorVars
  <2>3. parsers'.volatile = parsers.volatile /\ parsers.entries \subseteq parsers'.entries
    BY <1>0, <1>3, <2>0 DEF P!Commit, DraftsFollow
  <2>4. ManagersDraft'
    BY <1>0, <1>3 DEF TypeOK, P!TypeOK, P!Commit, ManagersDraft, New, Decoded, extractorVars, managerVars
  <2>5. PlaceInv' /\ StoresFollow' /\ HoldersFollow'
    BY <1>0, <2>3 DEF PlaceInv, StoresFollow, HoldersFollow, New, Decoded, extractorVars, managerVars
  <2> QED BY <2>1, <2>2, <2>3, <2>4, <2>5
<1>4. CASE P!Close(h)
  <2>1. TypeOK'
    <3>1. EmptyContent \in Content
      BY DecodedIsARevision DEF EmptyContent, Content
    <3> QED BY <1>0, <1>4, <3>1 DEF TypeOK, P!TypeOK, P!Close, P!Views, X!TypeOK, extractorVars, managerVars
  <2>2. DraftsFollow'
    BY <1>0, <1>4 DEF TypeOK, P!TypeOK, P!Close, DraftsFollow, extractorVars
  <2>3. ManagersDraft' /\ parsers' = parsers
    BY <1>0, <1>4 DEF TypeOK, P!TypeOK, P!Close, ManagersDraft, New, Decoded, extractorVars, managerVars
  <2>4. PlaceInv' /\ StoresFollow' /\ HoldersFollow'
    BY <1>0, <2>3 DEF PlaceInv, StoresFollow, HoldersFollow, New, Decoded, extractorVars, managerVars
  <2> QED BY <2>1, <2>2, <2>3, <2>4
<1> QED BY <1>1, <1>2, <1>3, <1>4 DEF HostParsers

\* The same of the extractors.
LEMMA HostExtractorsStep ==
    ASSUME IInv, NEW h \in Hosts, HostExtractors(h)
    PROVE  IInv' /\ extractors.entries \subseteq extractors'.entries
<1> USE CatalogManagerAssumption DEF IInv, Editors
<1>0. /\ UNCHANGED <<parserVars, holder, managerVars>>
      /\ h # Manager /\ h \in Editors /\ Manager \in Editors
  BY DEF HostExtractors
<1>1. CASE X!Begin(h)
  <2>1. TypeOK'
    BY <1>0, <1>1 DEF TypeOK, X!TypeOK, X!Begin, X!Views, P!TypeOK, parserVars, managerVars
  <2>2. DraftsFollow'
    BY <1>0, <1>1 DEF TypeOK, X!TypeOK, X!Begin, DraftsFollow, parserVars
  <2>3. ManagersDraft' /\ extractors' = extractors
    BY <1>0, <1>1 DEF TypeOK, X!TypeOK, X!Begin, ManagersDraft, New, Decoded, parserVars, managerVars
  <2>4. PlaceInv' /\ StoresFollow' /\ HoldersFollow'
    BY <1>0, <2>3 DEF PlaceInv, StoresFollow, HoldersFollow, New, Decoded, parserVars, managerVars
  <2> QED BY <2>1, <2>2, <2>3, <2>4
<1>2. CASE /\ extractorView[h] # "none"
           /\ \E n \in Names : extractorDraft' = [extractorDraft EXCEPT ![h].entries = @ \cup {n}]
           /\ UNCHANGED <<extractors, extractorView>>
  <2> PICK n \in Names : extractorDraft' = [extractorDraft EXCEPT ![h].entries = @ \cup {n}]
    BY <1>2
  <2> DEFINE added == [extractorDraft[h] EXCEPT !.entries = extractorDraft[h].entries \cup {n}]
  <2>a. extractorDraft[h] \in Content /\ extractorDraft \in [Editors -> Content]
    BY <1>0 DEF TypeOK, X!TypeOK
  <2>b. /\ added \in Content
        /\ extractorDraft[h].entries \subseteq added.entries /\ added.volatile = extractorDraft[h].volatile
    BY <2>a, ContentChanges
  <2>c. extractorDraft' = [extractorDraft EXCEPT ![h] = added]
    OBVIOUS
  <2> HIDE DEF added
  <2>0. /\ extractorDraft' \in [Editors -> Content]
        /\ \A e \in Editors : /\ extractorDraft[e].entries \subseteq extractorDraft'[e].entries
                              /\ extractorDraft'[e].volatile = extractorDraft[e].volatile
                              /\ e # h => extractorDraft'[e] = extractorDraft[e]
    BY <1>0, <2>a, <2>b, <2>c
  <2>1. TypeOK'
    BY <1>0, <1>2, <2>0 DEF TypeOK, X!TypeOK, P!TypeOK, parserVars, managerVars
  <2>2. DraftsFollow'
    BY <1>0, <1>2, <2>0 DEF DraftsFollow, parserVars
  <2>3. ManagersDraft' /\ extractors' = extractors
    BY <1>0, <1>2, <2>0 DEF TypeOK, X!TypeOK, ManagersDraft, New, Decoded, parserVars, managerVars
  <2>4. PlaceInv' /\ StoresFollow' /\ HoldersFollow'
    BY <1>0, <2>3 DEF PlaceInv, StoresFollow, HoldersFollow, New, Decoded, parserVars, managerVars
  <2> QED BY <2>1, <2>2, <2>3, <2>4
<1>3. CASE X!Commit(h)
  <2>0. /\ extractors' = extractorDraft[h] /\ extractorDraft[h] \in Content
        /\ extractorView' \in [Editors -> X!Views]
        /\ \A e \in Editors : extractorView'[e] # "current"
    BY <1>0, <1>3 DEF TypeOK, X!TypeOK, X!Commit, X!Outdate, X!Views
  <2>1. TypeOK'
    <3>1. EmptyContent \in Content
      BY DecodedIsARevision DEF EmptyContent, Content
    <3> QED BY <1>0, <1>3, <2>0, <3>1 DEF TypeOK, X!TypeOK, X!Commit, P!TypeOK, parserVars, managerVars
  <2>2. DraftsFollow'
    BY <1>0, <2>0 DEF DraftsFollow, parserVars
  <2>3. extractors'.volatile = extractors.volatile /\ extractors.entries \subseteq extractors'.entries
    BY <1>0, <1>3, <2>0 DEF X!Commit, DraftsFollow
  <2>4. ManagersDraft'
    BY <1>0, <1>3 DEF TypeOK, X!TypeOK, X!Commit, ManagersDraft, New, Decoded, parserVars, managerVars
  <2>5. PlaceInv' /\ StoresFollow' /\ HoldersFollow'
    BY <1>0, <2>3 DEF PlaceInv, StoresFollow, HoldersFollow, New, Decoded, parserVars, managerVars
  <2> QED BY <2>1, <2>2, <2>3, <2>4, <2>5
<1>4. CASE X!Close(h)
  <2>1. TypeOK'
    <3>1. EmptyContent \in Content
      BY DecodedIsARevision DEF EmptyContent, Content
    <3> QED BY <1>0, <1>4, <3>1 DEF TypeOK, X!TypeOK, X!Close, X!Views, P!TypeOK, parserVars, managerVars
  <2>2. DraftsFollow'
    BY <1>0, <1>4 DEF TypeOK, X!TypeOK, X!Close, DraftsFollow, parserVars
  <2>3. ManagersDraft' /\ extractors' = extractors
    BY <1>0, <1>4 DEF TypeOK, X!TypeOK, X!Close, ManagersDraft, New, Decoded, parserVars, managerVars
  <2>4. PlaceInv' /\ StoresFollow' /\ HoldersFollow'
    BY <1>0, <2>3 DEF PlaceInv, StoresFollow, HoldersFollow, New, Decoded, parserVars, managerVars
  <2> QED BY <2>1, <2>2, <2>3, <2>4
<1> QED BY <1>1, <1>2, <1>3, <1>4 DEF HostExtractors

-----------------------------------------------------------------------------

\* A step of the manager on a store that leaves the content alone: it begins or edits.
LEMMA ManagerEditStep ==
    ASSUME IInv, BeginParsers \/ EditParsers \/ BeginExtractors \/ EditExtractors
    PROVE  IInv' /\ parsers' = parsers /\ extractors' = extractors
<1> USE CatalogManagerAssumption, Places DEF IInv, At, Goto
<1>0. Manager \in Editors /\ Manager \notin Hosts /\ Hosts \subseteq Editors
  BY DEF Editors
<1>1. New \in Revision
  BY DecodedIsARevision DEF TypeOK, New
<1>2. CASE BeginParsers
  <2>1. at = 1 /\ step = "begin" /\ step' = "edit"
    BY <1>2 DEF BeginParsers, TypeOK
  <2>2. /\ parsers' = parsers
        /\ UNCHANGED <<extractorVars, holder, revision, op, target, dirty, applied, at>>
    BY <1>2 DEF BeginParsers, P!Begin
  <2>3. TypeOK'
    BY <1>0, <1>2, <2>1, <2>2 DEF BeginParsers, TypeOK, P!TypeOK, P!Begin, P!Views, X!TypeOK, extractorVars
  <2>4. DraftsFollow'
    BY <1>0, <1>2, <2>2 DEF BeginParsers, TypeOK, P!TypeOK, P!Begin, DraftsFollow, extractorVars
  <2>5. PlaceInv' /\ ManagersDraft' /\ StoresFollow' /\ HoldersFollow'
    BY <1>2, <2>1, <2>2 DEF BeginParsers, PlaceInv, ManagersDraft, StoresFollow, HoldersFollow, New, Decoded, extractorVars
  <2> QED BY <2>2, <2>3, <2>4, <2>5 DEF extractorVars
<1>3. CASE EditParsers
  <2>1. at = 1 /\ step = "edit" /\ step' = "commit"
    BY <1>3 DEF EditParsers, TypeOK
  <2>2. UNCHANGED <<parsers, parserView, extractorVars, holder, revision, op, target, dirty, applied, at>>
    BY <1>3 DEF EditParsers
  <2> DEFINE edited == [parserDraft[Manager] EXCEPT !.volatile = New]
  <2>3. parserDraft[Manager] \in Content /\ parserDraft \in [Editors -> Content]
    BY <1>0 DEF TypeOK, P!TypeOK
  <2>4. edited \in Content /\ edited.volatile = New /\ edited.entries = parserDraft[Manager].entries
    BY <1>1, <2>3, ContentChanges
  <2>5. parserDraft' = [parserDraft EXCEPT ![Manager] = edited]
    BY <1>3 DEF EditParsers, New
  <2> HIDE DEF edited
  <2>6. /\ parserDraft' \in [Editors -> Content]
        /\ parserDraft'[Manager].volatile = New
        /\ \A e \in Editors : parserDraft'[e].entries = parserDraft[e].entries
        /\ \A h \in Hosts : parserDraft'[h] = parserDraft[h]
    BY <1>0, <2>3, <2>4, <2>5
  <2>7. TypeOK'
    BY <2>1, <2>2, <2>6 DEF TypeOK, P!TypeOK, X!TypeOK, extractorVars
  <2>8. DraftsFollow'
    BY <1>0, <2>2, <2>6 DEF DraftsFollow, extractorVars
  <2>9. New' = New
    BY <2>2 DEF New, Decoded
  <2>10. PlaceInv' /\ ManagersDraft' /\ StoresFollow' /\ HoldersFollow'
    BY <2>1, <2>2, <2>6, <2>9 DEF PlaceInv, ManagersDraft, StoresFollow, HoldersFollow, Decoded, extractorVars
  <2> QED BY <2>2, <2>7, <2>8, <2>10 DEF extractorVars
<1>4. CASE BeginExtractors
  <2>1. at = 2 /\ "extractors" \in Configured /\ step = "begin" /\ step' = "edit"
    BY <1>4 DEF BeginExtractors, TypeOK
  <2>2. /\ extractors' = extractors
        /\ UNCHANGED <<parserVars, holder, revision, op, target, dirty, applied, at>>
    BY <1>4 DEF BeginExtractors, X!Begin
  <2>3. TypeOK'
    BY <1>0, <1>4, <2>1, <2>2 DEF BeginExtractors, TypeOK, X!TypeOK, X!Begin, X!Views, P!TypeOK, parserVars
  <2>4. DraftsFollow'
    BY <1>0, <1>4, <2>2 DEF BeginExtractors, TypeOK, X!TypeOK, X!Begin, DraftsFollow, parserVars
  <2>5. PlaceInv' /\ ManagersDraft' /\ StoresFollow' /\ HoldersFollow'
    BY <1>4, <2>1, <2>2 DEF BeginExtractors, PlaceInv, ManagersDraft, StoresFollow, HoldersFollow, New, Decoded, parserVars
  <2> QED BY <2>2, <2>3, <2>4, <2>5 DEF parserVars
<1>5. CASE EditExtractors
  <2>1. at = 2 /\ "extractors" \in Configured /\ step = "edit" /\ step' = "commit"
    BY <1>5 DEF EditExtractors, TypeOK
  <2>2. UNCHANGED <<extractors, extractorView, parserVars, holder, revision, op, target, dirty, applied, at>>
    BY <1>5 DEF EditExtractors
  <2> DEFINE edited == [extractorDraft[Manager] EXCEPT !.volatile = New]
  <2>3. extractorDraft[Manager] \in Content /\ extractorDraft \in [Editors -> Content]
    BY <1>0 DEF TypeOK, X!TypeOK
  <2>4. edited \in Content /\ edited.volatile = New /\ edited.entries = extractorDraft[Manager].entries
    BY <1>1, <2>3, ContentChanges
  <2>5. extractorDraft' = [extractorDraft EXCEPT ![Manager] = edited]
    BY <1>5 DEF EditExtractors, New
  <2> HIDE DEF edited
  <2>6. /\ extractorDraft' \in [Editors -> Content]
        /\ extractorDraft'[Manager].volatile = New
        /\ \A e \in Editors : extractorDraft'[e].entries = extractorDraft[e].entries
        /\ \A h \in Hosts : extractorDraft'[h] = extractorDraft[h]
    BY <1>0, <2>3, <2>4, <2>5
  <2>7. TypeOK'
    BY <2>1, <2>2, <2>6 DEF TypeOK, X!TypeOK, P!TypeOK, parserVars
  <2>8. DraftsFollow'
    BY <1>0, <2>2, <2>6 DEF DraftsFollow, parserVars
  <2>9. New' = New
    BY <2>2 DEF New, Decoded
  <2>10. PlaceInv' /\ ManagersDraft' /\ StoresFollow' /\ HoldersFollow'
    BY <2>1, <2>2, <2>6, <2>9 DEF PlaceInv, ManagersDraft, StoresFollow, HoldersFollow, Decoded, parserVars
  <2> QED BY <2>2, <2>7, <2>8, <2>10 DEF parserVars
<1> QED BY <1>2, <1>3, <1>4, <1>5

\* A commit of the manager's succeeds or throws.
LEMMA ManagerCommitStep ==
    ASSUME IInv, CommitParsers \/ ParsersThrow \/ CommitExtractors \/ ExtractorsThrow
    PROVE  IInv' /\ parsers.entries \subseteq parsers'.entries /\ extractors.entries \subseteq extractors'.entries
<1> USE CatalogManagerAssumption, Places DEF IInv, At, Goto
<1>0. /\ Manager \in Editors /\ Manager \notin Hosts /\ Hosts \subseteq Editors
      /\ EmptyContent \in Content
  BY DecodedIsARevision DEF Editors, EmptyContent, Content
<1>1. CASE CommitParsers
  <2>1. at = 1 /\ step = "commit" /\ at' = 2 /\ step' = "begin" /\ op # "idle"
    BY <1>1 DEF CommitParsers, TypeOK
  <2>2. UNCHANGED <<extractorVars, holder, revision, op, target, dirty, applied>>
    BY <1>1 DEF CommitParsers
  <2>3. /\ parsers' = parserDraft[Manager] /\ parserDraft[Manager] \in Content
        /\ parserView' \in [Editors -> P!Views] /\ parserDraft' \in [Editors -> Content]
        /\ \A e \in Editors : parserView'[e] # "current"
    BY <1>0, <1>1 DEF CommitParsers, TypeOK, P!TypeOK, P!Commit, P!Outdate, P!Views
  <2>4. parsers'.volatile = New /\ parsers.entries \subseteq parsers'.entries
    BY <1>0, <1>1, <2>1, <2>3 DEF CommitParsers, P!Commit, DraftsFollow, ManagersDraft
  <2>5. New' = New
    BY <2>2 DEF New, Decoded
  <2>6. TypeOK'
    BY <2>1, <2>2, <2>3 DEF TypeOK, P!TypeOK, X!TypeOK, extractorVars
  <2>7. DraftsFollow'
    BY <1>0, <2>2, <2>3 DEF DraftsFollow, extractorVars
  <2>8. StoresFollow' /\ HoldersFollow'
    BY <2>1, <2>2, <2>4, <2>5 DEF StoresFollow, HoldersFollow, extractorVars
  <2>9. PlaceInv' /\ ManagersDraft'
    BY <2>1, <2>2, <2>5 DEF PlaceInv, ManagersDraft, Decoded
  <2>10. extractors' = extractors
    BY <2>2 DEF extractorVars
  <2> QED BY <2>4, <2>6, <2>7, <2>8, <2>9, <2>10
<1>2. CASE ParsersThrow
  <2>1. at' = 1 /\ step' = "begin" /\ op' = "idle" /\ target' = 0 /\ dirty' = TRUE
    BY <1>2 DEF ParsersThrow, GoIdle
  <2>2. UNCHANGED <<parsers, extractorVars, holder, revision, applied>>
    BY <1>2 DEF ParsersThrow, P!Close
  <2>3. /\ parserView' \in [Editors -> P!Views] /\ parserDraft' \in [Editors -> Content]
        /\ \A e \in Editors : e # Manager => parserView'[e] = parserView[e] /\ parserDraft'[e] = parserDraft[e]
        /\ parserView'[Manager] # "current"
    BY <1>0, <1>2 DEF ParsersThrow, TypeOK, P!TypeOK, P!Close, P!Views
  <2>4. TypeOK'
    BY <2>1, <2>2, <2>3 DEF TypeOK, P!TypeOK, X!TypeOK, extractorVars
  <2>5. DraftsFollow'
    BY <1>0, <2>2, <2>3 DEF DraftsFollow, extractorVars
  <2>6. StoresFollow' /\ HoldersFollow'
    BY <2>1, <2>2 DEF StoresFollow, HoldersFollow, extractorVars
  <2>7. PlaceInv' /\ ManagersDraft'
    BY <2>1, <2>2 DEF PlaceInv, ManagersDraft, Decoded
  <2> QED BY <2>2, <2>4, <2>5, <2>6, <2>7 DEF extractorVars
<1>3. CASE CommitExtractors
  <2>1. at = 2 /\ "extractors" \in Configured /\ step = "commit" /\ at' = 3 /\ step' = "begin" /\ op # "idle"
    BY <1>3 DEF CommitExtractors, TypeOK
  <2>2. UNCHANGED <<parserVars, holder, revision, op, target, dirty, applied>>
    BY <1>3 DEF CommitExtractors
  <2>3. /\ extractors' = extractorDraft[Manager] /\ extractorDraft[Manager] \in Content
        /\ extractorView' \in [Editors -> X!Views] /\ extractorDraft' \in [Editors -> Content]
        /\ \A e \in Editors : extractorView'[e] # "current"
    BY <1>0, <1>3 DEF CommitExtractors, TypeOK, X!TypeOK, X!Commit, X!Outdate, X!Views
  <2>4. extractors'.volatile = New /\ extractors.entries \subseteq extractors'.entries
    BY <1>0, <1>3, <2>1, <2>3 DEF CommitExtractors, X!Commit, DraftsFollow, ManagersDraft
  <2>5. New' = New
    BY <2>2 DEF New, Decoded
  <2>6. TypeOK'
    BY <2>1, <2>2, <2>3 DEF TypeOK, X!TypeOK, P!TypeOK, parserVars
  <2>7. DraftsFollow'
    BY <1>0, <2>2, <2>3 DEF DraftsFollow, parserVars
  <2>8. StoresFollow' /\ HoldersFollow'
    BY <2>1, <2>2, <2>4, <2>5 DEF StoresFollow, HoldersFollow, parserVars
  <2>9. PlaceInv' /\ ManagersDraft'
    BY <2>1, <2>2, <2>5 DEF PlaceInv, ManagersDraft, Decoded
  <2>10. parsers' = parsers
    BY <2>2 DEF parserVars
  <2> QED BY <2>4, <2>6, <2>7, <2>8, <2>9, <2>10
<1>4. CASE ExtractorsThrow
  <2>1. at' = 1 /\ step' = "begin" /\ op' = "idle" /\ target' = 0 /\ dirty' = TRUE
    BY <1>4 DEF ExtractorsThrow, GoIdle
  <2>2. UNCHANGED <<extractors, parserVars, holder, revision, applied>>
    BY <1>4 DEF ExtractorsThrow, X!Close
  <2>3. /\ extractorView' \in [Editors -> X!Views] /\ extractorDraft' \in [Editors -> Content]
        /\ \A e \in Editors : e # Manager => extractorView'[e] = extractorView[e] /\ extractorDraft'[e] = extractorDraft[e]
        /\ extractorView'[Manager] # "current"
    BY <1>0, <1>4 DEF ExtractorsThrow, TypeOK, X!TypeOK, X!Close, X!Views
  <2>4. TypeOK'
    BY <2>1, <2>2, <2>3 DEF TypeOK, X!TypeOK, P!TypeOK, parserVars
  <2>5. DraftsFollow'
    BY <1>0, <2>2, <2>3 DEF DraftsFollow, parserVars
  <2>6. StoresFollow' /\ HoldersFollow'
    BY <2>1, <2>2 DEF StoresFollow, HoldersFollow, parserVars
  <2>7. PlaceInv' /\ ManagersDraft'
    BY <2>1, <2>2 DEF PlaceInv, ManagersDraft, Decoded
  <2> QED BY <2>2, <2>4, <2>5, <2>6, <2>7 DEF parserVars
<1> QED BY <1>1, <1>2, <1>3, <1>4

\* The manager's other steps do not touch the stores.
LEMMA ManagerOtherStep ==
    ASSUME IInv, \/ \E c \in Catalogs : BeginApply(c)
                 \/ BeginReset
                 \/ \E h \in Holders : SetHolder(h)
                 \/ Skip
                 \/ Finish
    PROVE  IInv' /\ UNCHANGED <<parserVars, extractorVars>>
<1> USE CatalogManagerAssumption, Places DEF IInv, parserVars, extractorVars
<1>0. UNCHANGED <<parserVars, extractorVars>>
  BY DEF BeginApply, BeginReset, SetHolder, Skip, Finish
<1>1. (TypeOK => P!TypeOK /\ X!TypeOK) /\ (P!TypeOK => P!TypeOK') /\ (X!TypeOK => X!TypeOK')
  BY <1>0 DEF TypeOK, P!TypeOK, X!TypeOK
<1>2. DraftsFollow'
  BY <1>0 DEF DraftsFollow
<1>3. CASE (\E c \in Catalogs : BeginApply(c)) \/ BeginReset
  <2>1. /\ UNCHANGED <<holder, revision, at, step, dirty, applied>>
        /\ op = "idle" /\ at = 1 /\ step = "begin" /\ op' \in {"apply", "reset"}
        /\ target' \in Written \cup {0}
    BY <1>3 DEF BeginApply, BeginReset, Catalogs, PlaceInv
  <2>2. TypeOK'
    BY <1>1, <2>1 DEF TypeOK
  <2>3. PlaceInv' /\ ManagersDraft' /\ StoresFollow' /\ HoldersFollow'
    BY <1>0, <2>1 DEF PlaceInv, ManagersDraft, StoresFollow, HoldersFollow
  <2> QED BY <1>0, <1>2, <2>2, <2>3
<1>4. ASSUME NEW h \in Holders, SetHolder(h) PROVE IInv'
  <2>1. PICK k \in 3..8 : h = Order[k]
    OBVIOUS
  <2>2. at = k /\ at' = k + 1 /\ step = "begin" /\ step' = "begin" /\ op # "idle" /\ h \in Configured
    BY <1>4, <2>1 DEF SetHolder, At, Goto, TypeOK
  <2>3. UNCHANGED <<revision, op, target, dirty, applied>> /\ New' = New
    BY <1>4 DEF SetHolder, Goto, New, Decoded
  <2>4. /\ holder' \in [Holders -> Revision \cup {Null}]
        /\ holder'[h] = New /\ New \in Revision
        /\ \A g \in Holders : g # h => holder'[g] = holder[g]
    BY <1>4, DecodedIsARevision DEF SetHolder, New, TypeOK
  <2>5. \A g \in Holders : holder'[g] = Null <=> g \notin Configured
    BY <2>2, <2>4, DecodedIsARevision DEF TypeOK
  <2>6. TypeOK'
    BY <1>1, <2>2, <2>3, <2>4, <2>5 DEF TypeOK
  <2>7. HoldersFollow'
    <3> SUFFICES ASSUME NEW j \in 3..8, Order[j] \in Configured
                 PROVE  /\ j < at' => holder'[Order[j]] = New
                        /\ at' <= j /\ ~dirty => holder'[Order[j]] = revision
      BY <2>3 DEF HoldersFollow
    <3>1. j \in 1..8 /\ k \in 1..8 /\ Order[j] \in Holders
      OBVIOUS
    <3>2. CASE j = k
      BY <2>1, <2>2, <2>4, <3>2
    <3>3. CASE j # k
      <4>1. Order[j] # h
        BY <2>1, <3>1, <3>3
      <4>2. holder'[Order[j]] = holder[Order[j]]
        BY <2>4, <3>1, <4>1
      <4>3. (j < at' <=> j < at) /\ (at' <= j <=> at <= j)
        BY <2>2, <3>3
      <4> QED BY <4>2, <4>3 DEF HoldersFollow
    <3> QED BY <3>2, <3>3
  <2>8. PlaceInv' /\ ManagersDraft' /\ StoresFollow'
    BY <1>0, <2>2, <2>3 DEF PlaceInv, ManagersDraft, StoresFollow, Decoded
  <2> QED BY <1>2, <2>6, <2>7, <2>8
<1>5. CASE Skip
  <2>1. /\ at \in 1..8 /\ Order[at] \notin Configured /\ at # 1
        /\ at' = at + 1 /\ step' = "begin" /\ op # "idle"
        /\ UNCHANGED <<holder, revision, op, target, dirty, applied>>
    BY <1>5 DEF Skip, Goto, TypeOK
  <2>2. New' = New
    BY <2>1 DEF New, Decoded
  <2>3. TypeOK'
    BY <1>1, <2>1 DEF TypeOK
  <2>4. HoldersFollow'
    <3> SUFFICES ASSUME NEW j \in 3..8, Order[j] \in Configured
                 PROVE  /\ j < at' => holder[Order[j]] = New
                        /\ at' <= j /\ ~dirty => holder[Order[j]] = revision
      BY <2>1, <2>2 DEF HoldersFollow
    <3>1. j # at
      BY <2>1
    <3>2. (j < at' <=> j < at) /\ (at' <= j => at <= j)
      BY <2>1, <3>1
    <3> QED BY <3>2 DEF HoldersFollow
  <2>5. StoresFollow'
    <3>1. at = 2 => "extractors" \notin Configured
      BY <2>1
    <3> QED BY <1>0, <2>1, <2>2, <3>1 DEF StoresFollow
  <2>6. PlaceInv' /\ ManagersDraft'
    BY <2>1, <2>2 DEF PlaceInv, ManagersDraft, Decoded
  <2> QED BY <1>0, <1>2, <2>3, <2>4, <2>5, <2>6
<1>6. CASE Finish
  <2>1. /\ at = 9 /\ at' = 1 /\ step' = "begin" /\ op' = "idle" /\ target' = 0
        /\ revision' = New /\ applied' = target /\ dirty' = FALSE /\ UNCHANGED holder
    BY <1>6 DEF Finish, GoIdle, New
  <2>0. New \in Revision /\ target \in Written \cup {0}
    BY DecodedIsARevision DEF TypeOK, New
  <2>2. TypeOK'
    <3>1. P!TypeOK' /\ X!TypeOK'
      BY <1>1
    <3>2. /\ holder' \in [Holders -> Revision \cup {Null}]
          /\ \A h \in Holders : holder'[h] = Null <=> h \notin Configured
      BY <2>1 DEF TypeOK
    <3>3. revision' \in Revision /\ applied' \in Written \cup {0}
      BY <2>0, <2>1
    <3>4. op' = "idle" /\ target' = 0 /\ at' \in 1..Done /\ step' = "begin" /\ dirty' = FALSE
      BY <2>1
    <3> QED BY <3>1, <3>2, <3>3, <3>4 DEF TypeOK
  <2>3. HoldersFollow'
    BY <2>1 DEF HoldersFollow
  <2>4. StoresFollow'
    BY <1>0, <2>1 DEF StoresFollow
  <2>5. PlaceInv' /\ ManagersDraft'
    BY <2>1 DEF PlaceInv, ManagersDraft, New, Decoded, Modulus
  <2> QED BY <1>0, <1>2, <2>2, <2>3, <2>4, <2>5
<1> QED BY <1>0, <1>3, <1>4, <1>5, <1>6

-----------------------------------------------------------------------------

\* The inductive invariant, and what every step keeps of the registrations.
LEMMA Step ==
    ASSUME IInv, [Next]_vars
    PROVE  IInv' /\ parsers.entries \subseteq parsers'.entries /\ extractors.entries \subseteq extractors'.entries
<1>1. ASSUME NEW h \in Hosts, HostParsers(h)
      PROVE  IInv' /\ parsers.entries \subseteq parsers'.entries /\ extractors' = extractors
  BY <1>1, HostParsersStep DEF HostParsers, extractorVars
<1>2. ASSUME NEW h \in Hosts, HostExtractors(h)
      PROVE  IInv' /\ extractors.entries \subseteq extractors'.entries /\ parsers' = parsers
  BY <1>2, HostExtractorsStep DEF HostExtractors, parserVars
<1>3. CASE ManagerNext
  <2>1. CASE BeginParsers \/ EditParsers \/ BeginExtractors \/ EditExtractors
    BY <2>1, ManagerEditStep
  <2>2. CASE CommitParsers \/ ParsersThrow \/ CommitExtractors \/ ExtractorsThrow
    BY <2>2, ManagerCommitStep
  <2>3. CASE (\E c \in Catalogs : BeginApply(c)) \/ BeginReset \/ (\E h \in Holders : SetHolder(h)) \/ Skip \/ Finish
    BY <2>3, ManagerOtherStep DEF parserVars, extractorVars
  <2> QED BY <1>3, <2>1, <2>2, <2>3 DEF ManagerNext
<1>4. CASE UNCHANGED vars
  BY <1>4 DEF IInv, TypeOK, P!TypeOK, X!TypeOK, PlaceInv, DraftsFollow, ManagersDraft, StoresFollow, HoldersFollow,
              New, Decoded, vars, parserVars, extractorVars, managerVars
<1> QED BY <1>1, <1>2, <1>3, <1>4 DEF Next

\* A catalog is installed part by part, and what is behind the manager's place is still the
\* last one's unless a call has thrown.
THEOREM Invariance == Spec => []IInv
<1>1. Init => IInv
  <2> SUFFICES ASSUME Init PROVE IInv
    OBVIOUS
  <2>1. EmptyContent \in Content /\ EmptyContent.volatile = 0
    BY DecodedIsARevision DEF EmptyContent, Content
  <2>2. /\ parsers = EmptyContent /\ extractors = EmptyContent
        /\ parserView = [e \in Editors |-> "none"] /\ extractorView = [e \in Editors |-> "none"]
        /\ parserDraft = [e \in Editors |-> EmptyContent] /\ extractorDraft = [e \in Editors |-> EmptyContent]
        /\ at = 1 /\ step = "begin" /\ op = "idle" /\ revision = 0 /\ target = 0 /\ applied = 0 /\ dirty = FALSE
        /\ holder = [h \in Holders |-> IF h \in Configured THEN 0 ELSE Null]
    BY DEF Init, P!Init, X!Init
  <2>3. P!TypeOK /\ X!TypeOK
    BY <2>1, <2>2 DEF P!TypeOK, X!TypeOK, P!Views, X!Views
  <2>4. TypeOK
    <3>1. 0 \in Revision /\ 0 # Null
      BY DecodedIsARevision
    <3>2. /\ holder \in [Holders -> Revision \cup {Null}]
          /\ \A h \in Holders : holder[h] = Null <=> h \notin Configured
      BY <2>2, <3>1
    <3>3. at \in 1..Done
      BY <2>2, Places
    <3> QED BY <2>2, <2>3, <3>1, <3>2, <3>3 DEF TypeOK
  <2>5. HoldersFollow
    BY <2>2, Places DEF HoldersFollow
  <2>6. DraftsFollow
    BY <2>2 DEF DraftsFollow, Editors
  <2>7. PlaceInv /\ ManagersDraft /\ StoresFollow
    BY <2>1, <2>2, DecodedIsARevision DEF PlaceInv, ManagersDraft, StoresFollow
  <2> QED BY <2>4, <2>5, <2>6, <2>7 DEF IInv
<1>2. IInv /\ [Next]_vars => IInv'
  BY Step
<1> QED BY <1>1, <1>2, PTL DEF Spec

\* Stores, holders and the manager keep their types.
THEOREM TypeCorrect == Spec => []TypeOK
<1>1. IInv => TypeOK
  BY DEF IInv
<1> QED BY <1>1, Invariance, PTL

\* Between calls everything the manager was given is of the revision it says it is at.
THEOREM CallsAreWhole == Spec => []WholeBetweenCalls
<1>1. IInv => WholeBetweenCalls
  <2> SUFFICES ASSUME IInv, op = "idle", ~dirty PROVE AllFrom(revision)
    BY DEF WholeBetweenCalls
  <2>1. at = 1
    BY DEF IInv, PlaceInv
  <2>2. ASSUME NEW h \in Configured \cap Holders PROVE holder[h] = revision
    <3>1. PICK k \in 3..8 : h = Order[k]
      BY Places
    <3> QED BY <2>1, <3>1 DEF IInv, HoldersFollow
  <2> QED BY <2>1, <2>2 DEF IInv, StoresFollow, AllFrom
<1> QED BY <1>1, Invariance, PTL

\* While a catalog is installed, hosts are routed before the mirrors on them are handed out.
THEOREM RoutingComesFirst == Spec => []MirrorsFollowRouting
<1>1. IInv => MirrorsFollowRouting
  <2> SUFFICES ASSUME IInv, ~dirty, op # "idle"
               PROVE  /\ parsers.volatile \in {revision, New}
                      /\ \A h \in Configured \cap Holders : holder[h] \in {revision, New}
                      /\ holder["mirrors"] = New => parsers.volatile = New
                      /\ "extractors" \in Configured /\ holder["extractorMirrors"] = New => extractors.volatile = New
    BY DEF MirrorsFollowRouting, New
  <2>0. at \in 1..9
    BY Places DEF IInv, TypeOK
  <2>1. parsers.volatile \in {revision, New}
    BY <2>0 DEF IInv, StoresFollow
  <2>2. ASSUME NEW h \in Configured \cap Holders PROVE holder[h] \in {revision, New}
    <3>1. PICK k \in 3..8 : h = Order[k]
      BY Places
    <3> QED BY <2>0, <3>1 DEF IInv, HoldersFollow
  <2>3. New # Null
    BY DecodedIsARevision DEF IInv, TypeOK, New
  <2>4. ASSUME NEW h \in Holders, holder[h] = New PROVE h \in Configured
    BY <2>3, <2>4 DEF IInv, TypeOK
  <2>5. holder["mirrors"] = New => parsers.volatile = New
    <3>1. "mirrors" = Order[3] /\ Order[3] \in Holders
      BY Places
    <3> QED BY <2>0, <2>4, <3>1 DEF IInv, StoresFollow, HoldersFollow
  <2>6. "extractors" \in Configured /\ holder["extractorMirrors"] = New => extractors.volatile = New
    <3>1. "extractorMirrors" = Order[7] /\ Order[7] \in Holders
      BY Places
    <3> QED BY <2>0, <2>4, <3>1 DEF IInv, StoresFollow, HoldersFollow
  <2> QED BY <2>1, <2>2, <2>5, <2>6
<1> QED BY <1>1, Invariance, PTL

\* No catalog, applied, reset or failed half-way, costs a host a registration.
THEOREM RegistrationsAreKept == Spec => RegistrationsSurvive
<1>1. IInv /\ [Next]_vars =>
        [parsers.entries \subseteq parsers'.entries /\ extractors.entries \subseteq extractors'.entries]_vars
  BY Step
<1> QED BY <1>1, Invariance, PTL DEF Spec, RegistrationsSurvive

=============================================================================
