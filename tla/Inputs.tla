------------------------------- MODULE Inputs -------------------------------
(***************************************************************************)
(* What the algorithms are given, one input after the other: documents and *)
(* searches of them, addresses, queries with the declarations they are     *)
(* checked against, and windows of a listing.                              *)
(***************************************************************************)
EXTENDS ImageSource, Algorithms

CONSTANTS
    QueryTexts, QueryTokens, QueryPoints   \* what a query is built from: texts, tokens, ends of an interval

\* A panel can offer all tokens of an open axis, and an end of an interval can be left out.
ASSUME InputsAssumption == IsFiniteSet(QueryTokens) /\ QueryPoints \subseteq Int /\ Absent \notin Int

VARIABLE
    input           \* what an algorithm is given, or nothing

NoInput == [what |-> "nothing"]

(* What may be given *)

IsDocument(doc) == HasElements(doc, Len(doc.parent), doc.parent, STRING, STRING)
Views(doc) == 0..Len(doc.parent)

\* What a query may give for a key, offered or not, and what a source may declare for one.
OptionSets(tokens) == UNION {[T -> BOOLEAN] : T \in SUBSET tokens}
FilterValues ==
    [type : {"text"}, text : QueryTexts, exclusive : BOOLEAN]
      \cup [type : {"mark"}, exclusive : BOOLEAN]
      \cup [type : {"selection"}, options : OptionSets(QueryTokens), single : {FALSE}]
      \cup [type : Q!IntervalTypes, from : QueryPoints \cup {Absent}, to : QueryPoints \cup {Absent},
            exclusive : BOOLEAN]
DeclaredValues ==
    [type : {"text"}, text : STRING, exclusive : BOOLEAN]
      \cup [type : {"mark"}, exclusive : BOOLEAN]
      \cup [type : {"selection"}, options : OptionSets(QueryTokens), single : BOOLEAN]
      \cup [type : Q!IntervalTypes, from : Int \cup {Absent}, to : Int \cup {Absent},
            exclusive : BOOLEAN]

\* What ends a reference in a path.
Delimiters == {35, 47, 63}

MayBeGiven(given) ==
    /\ given.what = "walk" => IsDocument(given.doc) /\ given.view \in Views(given.doc)
    /\ given.what = "find" =>
          /\ IsDocument(given.doc) /\ given.view \in Views(given.doc)
          /\ IsStep(given.by, STRING) /\ IsStep(given.also, STRING)
    /\ given.what = "encode" => given.value \in Texts
    /\ given.what = "query" => IsQuery(given.query) /\ IsKey(given.key)
    /\ given.what = "ref" => IsReference(given.before, given.marker, given.ref, given.after, Delimiters)
    /\ given.what = "url" => given.url \in Components
    /\ given.what = "getter" =>
          given.url = [post |-> given.url.post, pool |-> given.url.pool] /\ given.pools \in BOOLEAN
    /\ given.what = "filter" =>
          /\ \A key \in DOMAIN given.supported : given.supported[key] \in DeclaredValues
          /\ \A key \in DOMAIN given.filters : given.filters[key] \in FilterValues
    /\ given.what = "window" =>
          given.paging \in [from : P!Offsets, want : P!Offsets, stride : P!Offsets] /\ given.base \in {0, 1}
    /\ given.what = "limit" =>
          /\ given.limit \in P!Limits
          /\ given.cap \in P!Offsets \ {0} /\ given.fallback \in P!Offsets \ {0}

Give(given) == MayBeGiven(given) /\ input' = given

\* Whatever is given.
InputsSpec == input = NoInput /\ [][MayBeGiven(input')]_input

-----------------------------------------------------------------------------
(* What the algorithms promise *)

\* A walk of a document (DOMElementWalkIterator, DOMNode's alike) visits exactly what is
\* below its root, in document order, and so do the children; all searches (Finder, find,
\* find_all) agree on the elements that are hit, and on the first one.
SearchesAgree ==
    /\ input.what = "walk" => Documents!WalkIsWhole(input.doc, input.view)
    /\ input.what = "find" => Documents!FindersAgree(input.doc, input.view, input.by, input.also)

\* What is encoded decodes to itself, encoding a URI twice is encoding it once, a key of a
\* query is not read from another key's end, nor is a reference read past its delimiter, the
\* parts of a URL are its components, and the getter (BooruImagesGetter::parse_url) found for
\* one survives its serialization.
AddressesAreExact ==
    /\ input.what = "encode" => Addresses!EncodingRoundTrips(input.value)
    /\ input.what = "query" => Addresses!KeyIsRead(input.query, input.key)
    /\ input.what = "ref" =>
          Addresses!ReferenceIsRead(input.before, input.marker, input.ref, input.after, Delimiters)
    /\ input.what = "url" => Addresses!PartsAreExact(input.url)
    /\ input.what = "getter" => GettersRestore(input.url, input.pools)

\* A query is accepted (validate_query) exactly if it was built from what the source declares,
\* ids reach the sources that take them, and a window of items is asked for as the pages
\* that hold it.
QueriesAreExact ==
    /\ input.what = "filter" =>
          Q!AcceptsWhatIsOffered(input.supported, input.filters, QueryTexts, QueryTokens, QueryPoints)
    /\ input.what = "ids" => Q!IdsReachTheirSource(input.supported, input.ns, input.ids)
    /\ input.what = "window" => P!WindowIsExact(input.paging, input.base)
    /\ input.what = "limit" => P!LimitIsHonoured(input.limit, input.cap, input.fallback)

=============================================================================
