--------------------------- MODULE CatalogManager ---------------------------
(***************************************************************************)
(* CatalogManager::apply and reset, over two DomainStores (parsers and     *)
(* video extractors, each an instance of Registry, which DomainStore       *)
(* implements) and the swappable holders of the shared services.  The      *)
(* manager works through them one after the other without a lock while     *)
(* host threads edit the same stores, so an edit of either store can turn  *)
(* out stale, or its rebuild can throw, with part of the catalog applied.  *)
(*                                                                         *)
(* What a catalog puts into a store or a holder is represented by its      *)
(* revision; 0 is the empty content that reset() and a fresh manager have. *)
(***************************************************************************)
EXTENDS Integers, Sequences

CONSTANTS
    Hosts,          \* threads that register parsers and extractors
    Manager,        \* the thread that calls apply() and reset()
    Names,          \* what hosts register
    Written,        \* revisions a catalog payload can have written in it
    Half,           \* 2^63, scaled down: int64_t holds -Half to Half - 1
    Configured,     \* the parts this manager was given
    RebuildsThrow   \* TRUE: make_snapshot() can throw in the manager's own commit

\* A variant that hands the new mirrors out before their hosts are routed.
OrderMirrorsFirst == <<"mirrors", "parsers", "extractors", "selectors", "patterns",
                       "resources", "extractorMirrors", "extractorPatterns">>

\* What apply() and reset() renew, in this order.
Order == <<"parsers", "extractors", "mirrors", "selectors", "patterns",
           "resources", "extractorMirrors", "extractorPatterns">>

Parts == {Order[k] : k \in DOMAIN Order}
Stores == {"parsers", "extractors"}
Holders == Parts \ Stores
Done == Len(Order) + 1

ASSUME CatalogManagerAssumption ==
    /\ Manager \notin Hosts
    /\ Half \in Nat \ {0}
    /\ Written \subseteq -Half .. Half - 1
    /\ "parsers" \in Configured
    /\ Configured \subseteq Parts
    /\ RebuildsThrow \in BOOLEAN

Modulus == 2 * Half     \* values of uint64_t
Revision == 0 .. Modulus - 1
Null == Modulus        \* no such holder was given

Editors == Hosts \cup {Manager}
Content == [entries : SUBSET Names, volatile : Revision]
EmptyContent == [entries |-> {}, volatile |-> 0]

VARIABLES
    parsers, parserView, parserDraft,           \* ParserStore
    extractors, extractorView, extractorDraft,  \* VideoExtractorStore
    holder,         \* per holder: the revision its content came from
    revision,       \* revision_
    op,             \* what the manager is doing
    target,         \* the revision written in what it is installing
    at,             \* its place in Order
    step,           \* ... and in the edit of a store
    dirty,          \* history: has a call thrown since the last one that returned?
    applied         \* history: the revision written in the last applied catalog

parserVars == <<parsers, parserView, parserDraft>>
extractorVars == <<extractors, extractorView, extractorDraft>>
managerVars == <<revision, op, target, at, step, dirty, applied>>
vars == <<parserVars, extractorVars, holder, managerVars>>

P == INSTANCE Registry WITH registry <- parsers, view <- parserView, draft <- parserDraft
X == INSTANCE Registry WITH registry <- extractors, view <- extractorView, draft <- extractorDraft

TypeOK ==
    /\ P!TypeOK
    /\ X!TypeOK
    /\ holder \in [Holders -> Revision \cup {Null}]
    /\ \A h \in Holders : holder[h] = Null <=> h \notin Configured
    /\ revision \in Revision
    /\ op \in {"idle", "apply", "reset"}
    /\ target \in Written \cup {0}
    /\ at \in 1..Done
    /\ step \in {"begin", "edit", "commit"}
    /\ dirty \in BOOLEAN
    /\ applied \in Written \cup {0}

Init ==
    /\ P!Init
    /\ X!Init
    /\ holder = [h \in Holders |-> IF h \in Configured THEN 0 ELSE Null]
    /\ revision = 0
    /\ op = "idle"
    /\ target = 0
    /\ at = 1
    /\ step = "begin"
    /\ dirty = FALSE
    /\ applied = 0

-----------------------------------------------------------------------------
(* decode_catalog *)

Catalogs == [signed : BOOLEAN, shape : {"ok", "malformed", "other_version"}, written : Written]

\* json::integer() reads a signed value; the cast to uint64_t wraps it.
Decoded(written) == written % Modulus

Accepted(c) == c.signed /\ c.shape = "ok" /\ Decoded(c.written) > revision

-----------------------------------------------------------------------------
(* The manager *)

\* apply(): the payload decodes, so the parts are worked through.  One that does
\* not decode is answered with a CatalogError before anything is touched.
BeginApply(c) ==
    /\ op = "idle"
    /\ Accepted(c)
    /\ op' = "apply"
    /\ target' = c.written
    /\ UNCHANGED <<parserVars, extractorVars, holder, revision, at, step, dirty, applied>>

BeginReset ==
    /\ op = "idle"
    /\ op' = "reset"
    /\ target' = 0
    /\ UNCHANGED <<parserVars, extractorVars, holder, revision, at, step, dirty, applied>>

\* The manager is about to take this step of its work on this part.
At(part, s) ==
    /\ op # "idle"
    /\ at < Done
    /\ Order[at] = part
    /\ part \in Configured
    /\ step = s

Goto(k, s) ==
    /\ at' = k
    /\ step' = s
    /\ UNCHANGED <<revision, op, target, dirty, applied>>

\* refresh_domains() of the two stores: begin_edit, set the volatile domains, commit.
BeginParsers ==
    /\ At("parsers", "begin")
    /\ P!Begin(Manager)
    /\ Goto(at, "edit")
    /\ UNCHANGED <<extractorVars, holder>>

\* A variant that starts the draft from nothing.
EditParsersFromScratch ==
    /\ At("parsers", "edit")
    /\ parserDraft' = [parserDraft EXCEPT ![Manager] = [entries |-> {}, volatile |-> Decoded(target)]]
    /\ Goto(at, "commit")
    /\ UNCHANGED <<parsers, parserView, extractorVars, holder>>

EditParsers ==
    /\ At("parsers", "edit")
    /\ parserDraft' = [parserDraft EXCEPT ![Manager].volatile = Decoded(target)]
    /\ Goto(at, "commit")
    /\ UNCHANGED <<parsers, parserView, extractorVars, holder>>

CommitParsers ==
    /\ At("parsers", "commit")
    /\ P!Commit(Manager)
    /\ Goto(at + 1, "begin")
    /\ UNCHANGED <<extractorVars, holder>>

BeginExtractors ==
    /\ At("extractors", "begin")
    /\ X!Begin(Manager)
    /\ Goto(at, "edit")
    /\ UNCHANGED <<parserVars, holder>>

EditExtractors ==
    /\ At("extractors", "edit")
    /\ extractorDraft' = [extractorDraft EXCEPT ![Manager].volatile = Decoded(target)]
    /\ Goto(at, "commit")
    /\ UNCHANGED <<extractors, extractorView, parserVars, holder>>

CommitExtractors ==
    /\ At("extractors", "commit")
    /\ X!Commit(Manager)
    /\ Goto(at + 1, "begin")
    /\ UNCHANGED <<parserVars, holder>>

\* The manager has nothing more to do in this call.
GoIdle ==
    /\ op' = "idle"
    /\ target' = 0
    /\ at' = 1
    /\ step' = "begin"

\* commit() throws because the draft is outdated or the rebuild threw, and so does
\* the call: what was done so far stays done.
ParsersThrow ==
    /\ At("parsers", "commit")
    /\ RebuildsThrow \/ parserView[Manager] = "outdated"
    /\ P!Close(Manager)
    /\ GoIdle
    /\ dirty' = TRUE
    /\ UNCHANGED <<extractorVars, holder, revision, applied>>

ExtractorsThrow ==
    /\ At("extractors", "commit")
    /\ RebuildsThrow \/ extractorView[Manager] = "outdated"
    /\ X!Close(Manager)
    /\ GoIdle
    /\ dirty' = TRUE
    /\ UNCHANGED <<parserVars, holder, revision, applied>>

\* One holder swapped, or the resource cache cleared.
SetHolder(h) ==
    /\ At(h, "begin")
    /\ holder' = [holder EXCEPT ![h] = Decoded(target)]
    /\ Goto(at + 1, "begin")
    /\ UNCHANGED <<parserVars, extractorVars>>

\* Variant: a part is passed over.
SkipTooMuch ==
    /\ op # "idle"
    /\ at < Done
    /\ Order[at] \notin Configured
    /\ Goto(at + 2, "begin")
    /\ UNCHANGED <<parserVars, extractorVars, holder>>

\* A part this manager was not given.
Skip ==
    /\ op # "idle"
    /\ at < Done
    /\ Order[at] \notin Configured
    /\ Goto(at + 1, "begin")
    /\ UNCHANGED <<parserVars, extractorVars, holder>>

\* revision_ comes last; the call returns.
Finish ==
    /\ op # "idle"
    /\ at = Done
    /\ revision' = Decoded(target)
    /\ applied' = target
    /\ GoIdle
    /\ dirty' = FALSE
    /\ UNCHANGED <<parserVars, extractorVars, holder>>

ManagerNext ==
    \/ \E c \in Catalogs : BeginApply(c)
    \/ BeginReset
    \/ BeginParsers \/ EditParsers \/ CommitParsers \/ ParsersThrow
    \/ BeginExtractors \/ EditExtractors \/ CommitExtractors \/ ExtractorsThrow
    \/ \E h \in Holders : SetHolder(h)
    \/ Skip
    \/ Finish

-----------------------------------------------------------------------------
(* Host threads: add_parser() and add_extractor() are begin_edit, add, commit, *)
(* and so is a batch edit, with any number of names.                           *)

HostParsers(h) ==
    /\ \/ P!Begin(h)
       \/ /\ parserView[h] # "none"
          /\ \E n \in Names : parserDraft' = [parserDraft EXCEPT ![h].entries = @ \cup {n}]
          /\ UNCHANGED <<parsers, parserView>>
       \/ P!Commit(h)
       \/ P!Close(h)
    /\ UNCHANGED <<extractorVars, holder, managerVars>>

HostExtractors(h) ==
    /\ \/ X!Begin(h)
       \/ /\ extractorView[h] # "none"
          /\ \E n \in Names : extractorDraft' = [extractorDraft EXCEPT ![h].entries = @ \cup {n}]
          /\ UNCHANGED <<extractors, extractorView>>
       \/ X!Commit(h)
       \/ X!Close(h)
    /\ UNCHANGED <<parserVars, holder, managerVars>>

Next ==
    \/ ManagerNext
    \/ \E h \in Hosts : HostParsers(h) \/ HostExtractors(h)

Spec == Init /\ [][Next]_vars

-----------------------------------------------------------------------------
(* Properties *)

\* What each part the manager was given holds comes from this revision.
AllFrom(r) ==
    /\ parsers.volatile = r
    /\ "extractors" \in Configured => extractors.volatile = r
    /\ \A h \in Configured \cap Holders : holder[h] = r

\* A call that returns has moved everything: between calls the stores, the holders
\* and revision_ agree, however the hosts' edits fell in between, unless a call has
\* thrown since.
WholeBetweenCalls == op = "idle" /\ ~dirty => AllFrom(revision)

\* While one is installed, everything is from the old or from the new catalog, and
\* a new mirror is only handed out once its host routes to its parser.
MirrorsFollowRouting ==
    LET new == Decoded(target) IN
    ~dirty /\ op # "idle" =>
        /\ parsers.volatile \in {revision, new}
        /\ \A h \in Configured \cap Holders : holder[h] \in {revision, new}
        /\ holder["mirrors"] = new => parsers.volatile = new
        /\ "extractors" \in Configured /\ holder["extractorMirrors"] = new
               => extractors.volatile = new

\* Applying or resetting a catalog never costs a host its registration.
RegistrationsSurvive ==
    [][parsers.entries \subseteq parsers'.entries /\ extractors.entries \subseteq extractors'.entries]_vars

\* "on any failure nothing changes" (CatalogManager.hpp:60): a call that does not
\* return leaves everything as the last one that did left it.
FailureChangesNothing == op = "idle" => AllFrom(revision)

\* "never apply an unverified, malformed, or non-newer catalog"
\* (CatalogManager.hpp:23), said of the number the payload has written in it.  A negative
\* number is decoded as a large one, so this does not hold.
OnlyNewerIsApplied == [][op = "apply" /\ op' = "idle" /\ ~dirty' => applied' > applied]_vars

=============================================================================
