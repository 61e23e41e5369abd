----------------------------- MODULE Extraction -----------------------------
(***************************************************************************)
(* VideoExtractorStore::extract: one coroutine that asks the extractor of  *)
(* a URL for streams and, while it is given links instead, routes each     *)
(* link through the store again and asks the next one, depth first.  What  *)
(* an extractor answers is up to its site; meanwhile the store's routing   *)
(* can be replaced by an edit or a catalog.                                *)
(***************************************************************************)
EXTENDS Naturals, SequencesExt

CONSTANTS
    Extractors,
    NoExtractor,    \* nullptr
    Urls,           \* absolute URLs that parse
    Hosted,         \* <<extractor, url>>: its host is one the extractor declared
    Accepted,       \* <<extractor, url>>: valid_for_url()
    Offered,        \* links sites have: a URL and the extractor it is pinned to, if any
    Names,          \* header names
    MaxDepth,       \* argument max_depth
    MaxLinks,       \* bound: links of one extraction
    MaxEdits        \* bound: snapshots published during the extraction

ASSUME ExtractionAssumption ==
    /\ NoExtractor \notin Extractors
    /\ Hosted \subseteq Extractors \X Urls
    /\ Accepted \subseteq Extractors \X Urls
    /\ \A link \in Offered : link.url \in Urls /\ link.pin \in Extractors \cup {NoExtractor}
    /\ MaxDepth \in Nat
    /\ MaxLinks \in Nat
    /\ MaxEdits \in Nat

VARIABLES
    registered,     \* the extractors of the live snapshot
    edits,          \* how many were published
    frames,         \* the active extract_routed() calls, the outermost first
    at,             \* where the innermost one is
    result,         \* what it returns
    snapshot,       \* history: the extractors registered when extract() began
    deepest,        \* history: the depth of the deepest answer that was no error
    nest            \* history: what the calls around the streams had answered

extractionVars == <<registered, edits, frames, at, result, snapshot, deepest, nest>>

Depths == 1..MaxDepth + 1

\* A VideoExtraction or error.  A header is represented by the depth of the call that
\* set it, 0 if none did, an adapter by the depths of those it was composed of.
Kinds == {"streams", "links", "nothing", "error"}
Answers == [kind : Kinds, depth : Depths, headers : [Names -> {0} \cup Depths], adapter : Seq(Depths)]

Nothing == [kind |-> "nothing", depth |-> 1, headers |-> [n \in Names |-> 0], adapter |-> <<>>]

\* extract_routed(): whom it asks, what that one answered, the links not yet followed.
Frame(route) == [route |-> route, own |-> Nothing, links |-> <<>>]

depth == Len(frames)
top == frames[depth]

ExtractionTypeOK ==
    /\ registered \in SUBSET Extractors
    /\ edits \in 0..MaxEdits
    /\ depth <= MaxDepth + 1
    /\ frames \in Seq([route : Extractors \X Urls, own : Answers, links : Seq(Offered)])
    /\ at \in {"start", "asking", "following", "returning", "done"}
    /\ result \in Answers
    /\ snapshot \in SUBSET Extractors
    /\ deepest \in {0} \cup Depths
    /\ nest \in Seq(Answers)

ExtractionInit ==
    /\ registered \in SUBSET Extractors
    /\ edits = 0
    /\ frames = <<>>
    /\ at = "start"
    /\ result = Nothing
    /\ snapshot = registered
    /\ deepest = 0
    /\ nest = <<>>

-----------------------------------------------------------------------------
(* Routing, by the snapshot that is live now *)

\* route_url(): the tree proposes, valid_for_url() decides.
RouteUrl(url) == {e \in registered : <<e, url>> \in Hosted \cap Accepted} \X {url}

\* route_link(): a pinned extractor is looked up by its key.
RouteLink(link) ==
    IF link.pin = NoExtractor THEN RouteUrl(link.url)
    ELSE {e \in registered : e = link.pin /\ <<e, link.url>> \in Accepted} \X {link.url}

-----------------------------------------------------------------------------

\* extract(): route the URL; NotImplemented if nobody takes it.
Start(url) ==
    /\ at = "start"
    /\ snapshot' = registered
    /\ \/ \E route \in RouteUrl(url) :
            frames' = <<Frame(route)>> /\ at' = "asking" /\ UNCHANGED result
       \/ /\ RouteUrl(url) = {}
          /\ result' = [Nothing EXCEPT !.kind = "error"]
          /\ at' = "done"
          /\ UNCHANGED frames
    /\ UNCHANGED <<registered, edits, deepest, nest>>

\* What the extractor of the innermost call can answer.
Answer(kind, named, adapted) ==
    [kind |-> kind, depth |-> depth,
     headers |-> [n \in Names |-> IF n \in named THEN depth ELSE 0],
     adapter |-> IF adapted THEN <<depth>> ELSE <<>>]

\* Its answer arrives: streams, errors and dead ends are returned, and so are links
\* that are too deep; other links are followed.
Resolved(answer, links) ==
    /\ at = "asking"
    /\ frames' = [frames EXCEPT ![depth].own = answer, ![depth].links = links]
    /\ result' = answer
    /\ at' = IF answer.kind # "links" \/ depth > MaxDepth THEN "returning" ELSE "following"
    /\ deepest' = IF answer.kind # "error" /\ depth > deepest THEN depth ELSE deepest
    /\ nest' = IF answer.kind = "streams" THEN [i \in 1..depth |-> frames'[i].own] ELSE nest
    /\ UNCHANGED <<registered, edits, snapshot>>

Resolve ==
    \/ Resolved([Nothing EXCEPT !.kind = "error", !.depth = depth], <<>>)
    \/ \E named \in SUBSET Names, adapted \in BOOLEAN :
         \/ Resolved(Answer("streams", named, adapted), <<>>)
         \/ Resolved(Answer("nothing", named, adapted), <<>>)
         \/ \E links \in BoundedSeq(Offered, MaxLinks) \ {<<>>} :
              Resolved(Answer("links", named, adapted), links)

\* A variant that stays on a link nobody takes.
FollowLinkForever ==
    /\ at = "following"
    /\ top.links # <<>>
    /\ \E route \in RouteLink(Head(top.links)) :
         /\ frames' = Append([frames EXCEPT ![depth].links = Tail(@)], Frame(route))
         /\ at' = "asking"
    /\ UNCHANGED <<registered, edits, result, snapshot, deepest, nest>>

\* The next link: it leads one call deeper, or nowhere.
FollowLink ==
    /\ at = "following"
    /\ top.links # <<>>
    /\ LET rest == [frames EXCEPT ![depth].links = Tail(@)]
           routes == RouteLink(Head(top.links)) IN
       \/ \E route \in routes : frames' = Append(rest, Frame(route)) /\ at' = "asking"
       \/ routes = {} /\ frames' = rest /\ UNCHANGED at
    /\ UNCHANGED <<registered, edits, result, snapshot, deepest, nest>>

\* No link led to streams: the call's own extraction is the answer.
NoLinkLeft ==
    /\ at = "following"
    /\ top.links = <<>>
    /\ result' = top.own
    /\ at' = "returning"
    /\ UNCHANGED <<registered, edits, frames, snapshot, deepest, nest>>

\* A variant where the headers of the outer call win.
WrappedByOuter(outer, inner) ==
    [inner EXCEPT !.headers = [n \in Names |-> IF outer.headers[n] # 0 THEN outer.headers[n] ELSE @[n]],
                  !.adapter = outer.adapter \o @]

\* merge_missing() and ResourceAdapter::compose.
Wrapped(outer, inner) ==
    [inner EXCEPT !.headers = [n \in Names |-> IF @[n] # 0 THEN @[n] ELSE outer.headers[n]],
                  !.adapter = outer.adapter \o @]

\* Variants: an error ends the outer call as well; streams do not.
ReturnErrorsToo ==
    /\ at = "returning"
    /\ frames' = Front(frames)
    /\ \/ depth = 1 /\ at' = "done" /\ UNCHANGED result
       \/ /\ depth > 1
          /\ IF result.kind \in {"streams", "error"}
               THEN result' = Wrapped(frames[depth - 1].own, result) /\ UNCHANGED at
               ELSE at' = "following" /\ UNCHANGED result
    /\ UNCHANGED <<registered, edits, snapshot, deepest, nest>>

\* Streams are handed outwards through every call, anything else makes the call around
\* it go on with its next link.
Return ==
    /\ at = "returning"
    /\ frames' = Front(frames)
    /\ \/ depth = 1 /\ at' = "done" /\ UNCHANGED result
       \/ /\ depth > 1
          /\ IF result.kind = "streams"
               THEN result' = Wrapped(frames[depth - 1].own, result) /\ UNCHANGED at
               ELSE at' = "following" /\ UNCHANGED result
    /\ UNCHANGED <<registered, edits, snapshot, deepest, nest>>

\* Somebody publishes an edit of the store.
Publish ==
    /\ edits < MaxEdits
    /\ edits' = edits + 1
    /\ registered' \in SUBSET Extractors
    /\ UNCHANGED <<frames, at, result, snapshot, deepest, nest>>

ExtractNext == Resolve \/ FollowLink \/ NoLinkLeft \/ Return

ExtractionNext == \/ \E url \in Urls : Start(url)
        \/ ExtractNext
        \/ Publish

\* Extractors answer in the end: their requests end (Transfer), and they end with them.
ExtractionSpec == ExtractionInit /\ [][ExtractionNext]_extractionVars /\ WF_extractionVars(ExtractNext)

-----------------------------------------------------------------------------
(* Properties *)

\* The header each name should have: of the calls the streams passed through, the one
\* nearest to them that set it.
Nearest(name) ==
    LET setters == {i \in DOMAIN nest : nest[i].headers[name] # 0}
    IN  IF setters = {} THEN 0 ELSE CHOOSE i \in setters : \A j \in setters : j <= i

\* Streams come back through every extractor they were delegated by, and none that was
\* tried in vain: each one's adapter applies, the outer ones first, and each one's
\* headers, unless one nearer to the streams set the same.
StreamsAreWrapped ==
    at = "done" =>
        IF nest = <<>> THEN result.kind # "streams"
        ELSE /\ result.kind = "streams"
             /\ result.adapter = FlattenSeq([i \in DOMAIN nest |-> nest[i].adapter])
             /\ \A n \in Names : result.headers[n] = Nearest(n)

\* "an unroutable or failing link falls through to the next one" (VideoExtractor.cpp:20):
\* only the first extractor's own failure is a failure of the whole.
FailingLinksFallThrough == at = "done" /\ result.kind = "error" => deepest = 0

\* Both: what an extraction answers comes of one branch of links, whole, and never of one
\* it tried in vain.
OneBranchAnswers == StreamsAreWrapped /\ FailingLinksFallThrough

\* Extractors that delegate to one another in a circle are cut off: an extraction ends,
\* whatever its extractors answer.
ExtractionEnds == at # "start" ~> at = "done"

\* "The cap cuts the chain and returns the deepest extraction unresolved"
\* (VideoExtractorTest.cpp:217).
DeepestIsReturned ==
    at = "done" /\ result.kind \in {"links", "nothing"} => result.depth = deepest

\* "already in progress keep using their snapshot until they finish"
\* (VideoExtractor.hpp:283).
SnapshotIsKept == \A i \in DOMAIN frames : frames[i].route[1] \in snapshot

\* "after the domain tree selected this extractor as a candidate"
\* (VideoExtractor.hpp:111), said of valid_for_url() by whom it let through.
GateFollowsTree == \A i \in DOMAIN frames : frames[i].route \in Hosted

=============================================================================
