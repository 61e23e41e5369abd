------------------------------ MODULE MCValues ------------------------------
(***************************************************************************)
(* One TLC instance for what computes rather than waits: the algorithms on *)
(* documents, scripts, URLs, times, scores and queries, each of which is   *)
(* given one input after the other, and next to them the three machines    *)
(* Routing, Bitset and ImageSource.  Only one of all these moves while the *)
(* others are where they began.                                            *)
(***************************************************************************)
EXTENDS Routing, Bitset, Inputs, TLC

valuesVars == <<routingVars, bits, listing, walk, input>>

Axes == [n \in {"mal", "kitsu"} |-> IF n = "mal" THEN "mal_id" ELSE "kitsu_id"]

Markup == INSTANCE HtmlText
Scripts == INSTANCE JSParser

(* Routing: two levels of labels; what a parser declares and what a catalog lists. *)
LowerCase == [l \in {"com", "site"} |-> l]
OwnHosts == {<<"com">>, <<"com", "site">>}
ListedHosts == {<<"com">>}
CatalogHosts == {<<>>, <<"com", "site">>}

\* A mirror whose host is written with a capital letter.
CapitalCase == LowerCase @@ ("Site" :> "site")
CapitalHosts == {<<"com", "Site">>}

-----------------------------------------------------------------------------
(* Documents: trees of n nodes, numbered in document order *)

Trees(n) ==
    {p \in [1..n -> 0..(n - 1)] :
       /\ p[1] = 0
       /\ \A i \in 2..n : p[i] \in 1..(i - 1) /\ \A j \in (p[i] + 1)..(i - 1) : p[j] >= p[i]}

Attr(name, value) == [name |-> name, value |-> value]
Element(tag, attrs) == [type |-> "element", tag |-> tag, attrs |-> attrs, text |-> <<>>]
TextNode(text) == [type |-> "text", tag |-> "", attrs |-> <<>>, text |-> text]
Comment == [type |-> "comment", tag |-> "", attrs |-> <<>>, text |-> <<>>]

\* Only an element other than <br> has children.
DocumentsOf(n, kinds) ==
    {[parent |-> p, node |-> [i \in 1..n |-> IF i = 1 THEN Element("div", <<>>) ELSE nodes[i]]] :
       p \in Trees(n), nodes \in [2..n -> kinds]}
Parents(doc) == {doc.parent[i] : i \in 2..Len(doc.parent)}
IsMarkup(doc) ==
    \A i \in Parents(doc) : doc.node[i].type = "element" /\ doc.node[i].tag # "br"

Bare == {Element("p", <<>>), Comment}
Prose == {Element("p", <<>>), Element("br", <<>>), TextNode(<<" ", "a">>), TextNode(<<"a", "\n", " ">>), Comment}
Marked == {Element("p", <<>>), Element("br", <<>>), TextNode(<<"a">>), TextNode(<<" ">>),
           Element("b", <<Attr("href", <<"u">>), Attr("color", <<"r">>)>>),
           Element("font", <<Attr("style", <<"color", ":", "#", "7", "8", "9">>)>>),
           Element("a", <<Attr("href", <<"u">>)>>)}
Colors == [hash : {TRUE}, digits : {<<"7", "8", "9">>, <<"7", "8", "9", "a">>, <<"0", "0", "7", "8", "9", "a">>,
                                    <<"7", "8">>, <<"7", "8", "r">>, <<"0", "7", "8", "9", "a">>,
                                    <<"0", "0", "7", "8", "9", "a", "8", "0">>}, after : {<<>>}]
          \cup [hash : {FALSE}, digits : {<<>>, <<"7", "8", "9">>}, after : {<<" ">>}]
Searched == {Element("p", <<Attr("class", <<"x", " ", "y">>)>>),
             Element("a", <<Attr("class", <<"y">>), Attr("src", <<>>)>>), TextNode(<<"a">>)}
SearchSteps == {[what |-> "tag", tag |-> "a"],
          [what |-> "attr", attr |-> "src", value |-> <<>>, ignore |-> FALSE],
          [what |-> "attr", attr |-> "id", value |-> <<>>, ignore |-> FALSE]}
         \cup [what : {"attr"}, attr : {"class"}, value : {<<"x">>, <<"y">>}, ignore : BOOLEAN]

PickDocument ==
    \/ \E doc \in DocumentsOf(5, Bare) : \E view \in 0..5 :
          IsMarkup(doc) /\ Give([what |-> "walk", doc |-> doc, view |-> view])
    \/ \E doc \in DocumentsOf(4, Prose) : \E view \in 1..4 :
          IsMarkup(doc) /\ input' = [what |-> "text", doc |-> doc, view |-> view]
    \/ \E attributes \in {<<>>} \cup {<<value>> : value \in Colors}, n \in 0..2 :
          \E declarations \in [1..n -> [name : {<<"color">>, <<"x">>}, value : Colors]] :
              input' = [what |-> "color", attributes |-> attributes, declarations |-> declarations]
    \/ \E doc \in DocumentsOf(4, Marked) :
          IsMarkup(doc) /\ input' = [what |-> "html", doc |-> doc, view |-> 1, outcome |-> "parsed"]
    \/ \E doc \in DocumentsOf(2, Marked), outcome \in {"refused", "thrown"} :
          IsMarkup(doc) /\ input' = [what |-> "html", doc |-> doc, view |-> 1, outcome |-> outcome]

PickSearch ==
    \E doc \in DocumentsOf(4, Searched), view \in {0, 1, 2}, by \in SearchSteps,
       also \in {s \in SearchSteps : s.what = "tag" \/ (s.attr = "class" /\ s.ignore)} :
        IsMarkup(doc) /\ Give([what |-> "find", doc |-> doc, view |-> view, by |-> by, also |-> also])

\* The text of an element (DOMElementView::text) is all of its letters, a line end for each
\* <br>, and no blank but one between two letters or lines; markup (text_from_html) becomes
\* its letters too, with runs that enclose the letters of their elements; and a colour is read from
\* what says one.
DocumentsKeepTheirText ==
    /\ input.what = "text" => Markup!TextIsClean(input.doc, input.view)
    /\ input.what = "html" => /\ Markup!NoLetterIsLost(<<"<", "a", ">", " ">>, input.outcome, input.doc, input.view)
                              /\ Markup!RunsFollowElements(input.doc, input.view)
    /\ input.what = "color" => Markup!ColorIsRead(input.attributes, input.declarations)

-----------------------------------------------------------------------------
(* Scripts *)

M(text) == Scripts!Mark(text)
S(quote, text) == Scripts!String(quote, text, FALSE)
Brackets(open, inner, close) == <<M(<<open>>)>> \o inner \o <<M(<<close>>)>>

Strings == {S("'", text) : text \in {<<>>, <<"}">>, <<"'", "dq">>, <<"bs", "x">>, <<"bs", "'">>}}
           \cup {S("dq", text) : text \in {<<"]">>, <<"'">>, <<"dq", "{">>}}
Between == {M(<<",">>), M(<<"/", "*", "}", "'", "*", "/">>), M(<<"/", "/", "]", "\n">>)}
Inner == {<<s>> : s \in Strings} \cup {<<s, b, t>> : s, t \in Strings, b \in Between}
Literals == {Brackets("{", inner, "}") : inner \in Inner}
            \cup {Brackets("[", Brackets("{", inner, "}"), "]") : inner \in Inner}
Decoys == {<<>>, <<"x", "v", "=", "[", "1", "]", " ">>, <<"v", "=", "=", "[", "1", "]", " ">>,
           <<"v", "=", ">", "{", "}", " ">>, <<"'", "v", "'", " ", ",">>,
           <<"v", "=", "[", "(", "\n">>}

Arguments == {<<M(<<"1">>)>>, <<S("'", <<")", ",">>)>>, Brackets("{", <<S("dq", <<"}", ",">>)>>, "}"),
              Brackets("(", <<M(<<",">>)>>, ")"), Brackets("[", <<M(<<"1", ",">>)>>, "]")}

PickScript ==
    \/ \E before \in Decoys, literal \in Literals, after \in {<<>>, <<";", "}">>} :
          input' = [what |-> "literal", before |-> before, literal |-> literal, after |-> after]
    \/ \E before \in {<<>>, <<"v", ";">>, <<"x", "v", "(", "[", "]", ")">>}, n \in 0..3 :
          \E args \in [1..n -> Arguments] :
              input' = [what |-> "call", before |-> before, args |-> args, after |-> <<";">>]

\* JSParser: a literal, or an argument of a call, is cut out of a script as it was written there,
\* whatever strings and comments hold and whatever else bears the name.
LiteralsSurvive ==
    /\ input.what = "literal" => Scripts!LiteralIsFound(input.before, input.literal, input.after)
    /\ input.what = "call" => Scripts!ArgumentIsFound(input.before, input.args, input.after)

-----------------------------------------------------------------------------
(* Addresses, as bytes *)

Bytes == {65, 37, 52, 49, 47, 32, 195}     \* A % 4 1 / blank, and one above 127
QueryKeys == {<<105>>, <<105, 100>>, <<112, 105>>}
OptionalText == {<<>>, <<<<>>>>, <<<<97>>>>}

PickAddress ==
    \/ \E n \in 0..3 : \E value \in [1..n -> Bytes] : Give([what |-> "encode", value |-> value])
    \/ \E n \in 0..3 : \E query \in [1..n -> [key : QueryKeys, value : {1, 2}]], key \in QueryKeys :
          Give([what |-> "query", query |-> query, key |-> key])
    \/ \E before \in {<<>>, <<47>>, <<47, 97, 47>>}, ref \in UNION {[1..n -> {49, 50, 97}] : n \in 0..2},
          after \in {<<>>, <<47, 49>>, <<63, 112, 47, 50>>} :
          Give([what |-> "ref", before |-> before, marker |-> <<112, 47>>, ref |-> ref, after |-> after])
    \/ \E user, password \in {<<>>, <<117>>}, port \in {<<>>, <<<<56>>>>}, path \in {<<>>, <<47, 97>>},
          query, fragment \in OptionalText :
          Give([what |-> "url",
                url |-> [scheme |-> <<104>>, user |-> user, password |-> password, host |-> <<<<98, 99>>>>,
                         port |-> port, path |-> path, query |-> query, fragment |-> fragment]])

-----------------------------------------------------------------------------
(* Times and scores *)

Dates == [y : {1969, 2023, 2024}, m : {2, 12}, d : {29, 31}]
         \cup {[y |-> 1970, m |-> 1, d |-> 1], [y |-> 2000, m |-> 13, d |-> 0], [y |-> 1900, m |-> 3, d |-> 1]}
NoTime == [written |-> FALSE, mark |-> "T", h |-> 0, m |-> 0, s |-> -1, f |-> <<>>, point |-> "."]
Times == {NoTime} \cup
         {[written |-> TRUE, mark |-> mark, h |-> h, m |-> 59, s |-> s, f |-> f, point |-> "."] :
            mark \in {"T"}, h \in {0, 23, 24}, s \in {60, 61}, f \in {<<>>, <<"0", "9", "5">>}} \cup
         {[written |-> TRUE, mark |-> " ", h |-> 9, m |-> m, s |-> 0, f |-> <<"5">>, point |-> point] :
            m \in {0, 60}, point \in {".", ","}}
Zones == {[sign |-> "", h |-> 0, m |-> 0, colon |-> FALSE]} \cup
         {[sign |-> sign, h |-> 9, m |-> m, colon |-> colon] :
            sign \in {"+", "-"}, m \in {30, 60}, colon \in BOOLEAN}

PickTime ==
    \E date \in Dates, time \in Times, zone \in Zones, tail \in {<<>>, <<" ">>} :
        input' = [what |-> "time", date |-> date, time |-> time, zone |-> zone, tail |-> tail]

PickScore ==
    \/ \E whole \in {<<>>, <<"9">>, <<"1", "0">>}, decimals \in {<<>>, <<"5">>, <<"0", "5">>},
          blanks \in {<<>>, <<"\t", " ">>}, separator \in {".", ","},
          tail \in {<<>>, <<"/", "5">>, <<"x", "2">>, <<".", "2">>, <<"-">>} :
          /\ decimals = <<>> => tail # <<".", "2">>
          /\ input' = [what |-> "number", blanks |-> blanks, whole |-> whole, separator |-> separator,
                       decimals |-> decimals, tail |-> tail]
    \/ \E n \in {0, 1, 3, 5, 10, 11} : \E few \in [{1, n} -> 0..2] :
          input' = [what |-> "votes",
                    votes |-> [i \in 1..n |-> IF i \in {1, n} THEN few[i] ELSE 1]]

\* A timestamp (parse_iso8601) is the instant its date, time and zone name, or none at all;
\* a label's number is read with either separator, and a histogram rates as its votes do.
NumbersAreRead ==
    /\ input.what = "time" => Measured!StampIsTheInstant(input.date, input.time, input.zone, input.tail)
    /\ input.what = "number" =>
          Measured!NumberIsRead(input.blanks, input.whole, input.separator, input.decimals, input.tail)
    /\ input.what = "votes" => Measured!RatingIsTheMean(input.votes)

-----------------------------------------------------------------------------
(* Queries, windows and getters *)

Selections(single) ==
    {Q!ItemSelection(o, single) : o \in UNION {[T -> BOOLEAN] : T \in SUBSET QueryTokens}}
Descriptors ==
    {Q!TextQuery("name", e) : e \in BOOLEAN} \cup {Q!Checkmark(e) : e \in BOOLEAN}
      \cup Selections(TRUE) \cup Selections(FALSE)
      \cup {Q!Interval("time", from, to, e) : from, to \in {Absent, 1, 2}, e \in BOOLEAN}
      \cup {Q!Interval("int", Absent, Absent, FALSE)}
Filters ==
    {Q!TextQuery(t, e) : t \in {"", "a"}, e \in BOOLEAN} \cup {Q!Checkmark(e) : e \in BOOLEAN}
      \cup Selections(FALSE)
      \cup {Q!Interval("time", from, to, e) : from, to \in {Absent, 0, 1, 2, 3}, e \in BOOLEAN}

PickQuery ==
    \/ \E descriptor \in Descriptors, filter \in Filters, key \in {"genre", "tag"} :
          Give([what |-> "filter", supported |-> [k \in {"genre"} |-> descriptor],
                filters |-> [k \in {key} |-> filter]])
    \/ \E ns \in {"mal", "anidb"}, keys \in SUBSET {"mal_id", "mal"},
          ids \in SUBSET QueryTokens, options \in {<<>>, [t \in {"t"} |-> FALSE]} :
          Give([what |-> "ids", ns |-> ns, ids |-> ids,
                supported |-> [k \in keys |-> Q!ItemSelection(options, FALSE)]])

PickWindow ==
    \/ \E from \in 0..7, stride \in 0..3, base \in 0..1 :
          Give([what |-> "window", paging |-> P!OffsetPaging(from, stride, stride), base |-> base])
    \/ \E limit \in P!Limits, cap, fallback \in 1..3 :
          Give([what |-> "limit", limit |-> limit, cap |-> cap, fallback |-> fallback])

PickGetter ==
    \E post, pool \in {Absent, 1, 2}, pools \in BOOLEAN :
        Give([what |-> "getter", url |-> [post |-> post, pool |-> pool], pools |-> pools])

-----------------------------------------------------------------------------

RoutingAtStart == entries = [id \in {} |-> <<>>] /\ volatile = [id \in Parsers |-> <<>>]
BitsAtStart == BitsetInit
SourceAtStart == walk = NoWalk /\ listing = <<>>
InputAtStart == input = NoInput

ValuesInit == RoutingInit /\ BitsetInit /\ SourceInit /\ input = NoInput

Pick ==
    \/ PickDocument \/ PickSearch \/ PickScript \/ PickAddress \/ PickTime \/ PickScore
    \/ PickQuery \/ PickWindow \/ PickGetter

ValuesNext ==
    \/ /\ BitsAtStart /\ SourceAtStart /\ InputAtStart
       /\ RoutingNext /\ UNCHANGED <<bits, listing, walk, input>>
    \/ /\ RoutingAtStart /\ SourceAtStart /\ InputAtStart
       /\ BitsetNext /\ UNCHANGED <<routingVars, listing, walk, input>>
    \/ /\ RoutingAtStart /\ BitsAtStart /\ InputAtStart
       /\ SourceNext /\ UNCHANGED <<routingVars, bits, input>>
    \/ /\ RoutingAtStart /\ BitsAtStart /\ SourceAtStart /\ InputAtStart
       /\ Pick /\ UNCHANGED <<routingVars, bits, listing, walk>>

\* A caller in the middle of a walk goes on.
ValuesSpec ==
    ValuesInit /\ [][ValuesNext]_valuesVars
      /\ WF_valuesVars(TurnPage /\ UNCHANGED <<routingVars, bits, input>>)

\* Not so: a walk that is over has given every post that is served and was there.
EveryPostIsGiven == EmptyMeansExhausted

\* Not so: the runs of attributed text lie inside it.
RunsStayInText == input.what = "html" => Markup!RunsLieInside(input.doc, input.view)

=============================================================================
