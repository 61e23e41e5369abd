-------------------------------- MODULE Dom --------------------------------
(***************************************************************************)
(* The views of an HTML document: walks over a subtree, searches, and the  *)
(* text of an element.  A view is a node or Null; the nodes, their links   *)
(* and their attributes are lexbor's.                                      *)
(***************************************************************************)
EXTENDS Integers, Subsequences, SequencesExt

Null == 0

\* A document numbers its nodes in document order; parent[n] is Null for the topmost one.
Nodes(doc) == DOMAIN doc.parent

Links(doc) ==
    LET children == [n \in Nodes(doc) \cup {Null} |-> {c \in Nodes(doc) : doc.parent[c] = n}]
        least(S) == IF S = {} THEN Null ELSE Min(S)
        beside(n) == children[doc.parent[n]]
    IN  [first_child |-> [n \in Nodes(doc) |-> least(children[n])],
         next |-> [n \in Nodes(doc) |-> least({c \in beside(n) : c > n})],
         prev |-> [n \in Nodes(doc) |-> Max({c \in beside(n) : c < n} \cup {Null})]]

IsElement(doc, n) == doc.node[n].type = "element"
IsText(doc, n) == doc.node[n].type = "text"

-----------------------------------------------------------------------------
(* Walks: depth first, below a root which is not visited *)

\* Variants: one that knows no root, and one that leaves a node without its siblings.
WalkNextPastRoot(doc, root, node) ==
    LET l == Links(doc)
        up[n \in Nodes(doc) \cup {Null}] ==
            IF n # Null /\ l.next[n] = Null THEN up[doc.parent[n]] ELSE n
        above == up[node]
    IN  IF l.first_child[node] # Null THEN l.first_child[node]
        ELSE IF above = Null THEN Null ELSE l.next[above]

\* DOMElementWalkIterator::next: down if possible, else on from the nearest node
\* with a sibling, unless that is the root or above it.
WalkNext(doc, root, node) ==
    LET l == Links(doc)
        up[n \in Nodes(doc) \cup {Null}] ==
            IF n # Null /\ l.next[n] = Null /\ n # root THEN up[doc.parent[n]] ELSE n
        above == up[node]
        reached == IF l.first_child[node] # Null THEN l.first_child[node]
                   ELSE IF above \notin {root, Null} THEN l.next[above] ELSE above
    IN  IF reached = root THEN Null ELSE reached

\* The first element from node on (walk_until_element).
WalkUntilElement(doc, root, node) ==
    LET skip[n \in Nodes(doc) \cup {Null}] ==
            IF n \in {Null, root} \/ IsElement(doc, n) THEN n ELSE skip[WalkNext(doc, root, n)]
    IN  skip[node]

\* DOMElementWalkIterator from begin to end; nothing for an invalid view.
ElementWalk(doc, view) ==
    LET from[n \in Nodes(doc) \cup {Null}] ==
            IF n = Null THEN <<>>
            ELSE <<n>> \o from[WalkUntilElement(doc, view, WalkNext(doc, view, n))]
    IN  IF view = Null THEN <<>>
        ELSE from[WalkUntilElement(doc, view, Links(doc).first_child[view])]

\* DOMNodeWalkIterator::next does the same in another order: the root ends the walk first.
NodeNext(doc, root, node) ==
    LET l == Links(doc)
        up[n \in Nodes(doc) \cup {Null}] ==
            IF n # Null /\ l.next[n] = Null /\ n # root THEN up[doc.parent[n]] ELSE n
        above == IF up[node] = root THEN Null ELSE up[node]
    IN  IF l.first_child[node] # Null THEN l.first_child[node]
        ELSE IF above # Null /\ l.next[above] # Null THEN l.next[above] ELSE above

NodeWalk(doc, view) ==
    LET from[n \in Nodes(doc) \cup {Null}] ==
            IF n = Null THEN <<>> ELSE <<n>> \o from[NodeNext(doc, view, n)]
    IN  IF view = Null THEN <<>> ELSE from[Links(doc).first_child[view]]

\* DOMElementIterator: the child elements forwards, and backwards from one of them.
UntilElement(doc, links, node) ==
    LET skip[n \in Nodes(doc) \cup {Null}] ==
            IF n = Null \/ IsElement(doc, n) THEN n ELSE skip[links[n]]
    IN  skip[node]

ChildElements(doc, view) ==
    LET next == Links(doc).next
        from[n \in Nodes(doc) \cup {Null}] ==
            IF n = Null THEN <<>> ELSE <<n>> \o from[UntilElement(doc, next, next[n])]
    IN  IF view = Null THEN <<>>
        ELSE from[UntilElement(doc, next, Links(doc).first_child[view])]

PreviousElement(doc, n) == LET prev == Links(doc).prev IN UntilElement(doc, prev, prev[n])

-----------------------------------------------------------------------------
(* Attributes and searches *)

\* find_attr: the first attribute of that name, as a sequence of at most one.
FindAttr(doc, view, name) ==
    LET attrs == IF view = Null THEN <<>> ELSE doc.node[view].attrs
        named == {i \in DOMAIN attrs : attrs[i].name = name}
    IN  IF named = {} THEN <<>> ELSE <<attrs[Min(named)]>>

\* class_name() and id(): the attribute's value, empty without one.
ValueOf(doc, n, name) ==
    LET attr == FindAttr(doc, n, name) IN IF attr = <<>> THEN <<>> ELSE attr[1].value

Blanks == {" ", "\n"}

\* contains_class: each run between blanks is compared as a whole.
ContainsClass(full, name) ==
    LET from[i \in 1..(Len(full) + 1)] ==
            LET blanks == {j \in i..Len(full) : full[j] \in Blanks}
                stop == Min(blanks \cup {Len(full) + 1})
            IN  /\ i <= Len(full)
                /\ \/ SubSeq(full, i, stop - 1) = name
                   \/ blanks # {} /\ from[stop + 1]
    IN  from[1]

\* get_attr_value_predicate: which comparison a search by attribute makes.
AttrMatches(doc, n, attr, value, ignoreBlanks) ==
    IF attr = "class" /\ ignoreBlanks THEN ContainsClass(ValueOf(doc, n, "class"), value)
    ELSE IF attr \in {"class", "id"} THEN ValueOf(doc, n, attr) = value
    ELSE \E i \in DOMAIN FindAttr(doc, n, attr) : FindAttr(doc, n, attr)[i].value = value

\* The loop of find_all and query_all: what it visits is kept where it passes the test.
Where(s, Test(_)) == Entries(s, {i \in DOMAIN s : Test(s[i])})

\* A step of a search: by tag, whose identifier lexbor looks up in lower case, or by attribute.
Matches(doc, n, by) ==
    IF by.what = "tag" THEN doc.node[n].tag = by.tag
    ELSE AttrMatches(doc, n, by.attr, by.value, by.ignore)

FindAll(doc, view, by) ==
    Where(ElementWalk(doc, view), LAMBDA n : Matches(doc, n, by))

\* Variant: one that takes the view itself for a hit.
FindFromSelf(doc, view, by) ==
    IF view # Null /\ Matches(doc, view, by) THEN view
    ELSE IF FindAll(doc, view, by) = <<>> THEN Null ELSE Head(FindAll(doc, view, by))

\* find(): a search of its own, which stops at the first hit; Null stands for nullopt.
Find(doc, view, by) ==
    LET walk == ElementWalk(doc, view)
        hit == SelectInSeq(walk, LAMBDA n : Matches(doc, n, by))
    IN  IF hit = 0 THEN Null ELSE walk[hit]

\* DOMElementFinder: a chain of finds, checked once at its end.
FinderFind(doc, view, steps) ==
    FoldLeft(LAMBDA v, by : IF v = Null THEN Null ELSE Find(doc, v, by), view, steps)

\* query_all() with MATCH_FIRST and query(), which stops at the first node: a selector
\* list is a set of alternatives, and an invalid view or selector finds nothing.
QueryAll(doc, view, selectors) ==
    Where(ElementWalk(doc, view), LAMBDA n : \E by \in selectors : Matches(doc, n, by))

Query(doc, view, selectors) ==
    LET all == QueryAll(doc, view, selectors) IN IF all = <<>> THEN Null ELSE Head(all)

-----------------------------------------------------------------------------
(* Text *)

\* The predicate of text(): no line ends, and one blank of several; it remembers
\* whether the last character was one.
Kept(blank, c) == c # "\n" /\ ~(c = " " /\ blank)

\* One pass over the nodes: measuring and writing are the same loop.
TextPass(doc, view, blank) ==
    LET char(s, c) ==
            IF Kept(s.blank, c) THEN [out |-> Append(s.out, c), blank |-> c = " "] ELSE s
        node(s, n) ==
            IF IsElement(doc, n) THEN
                 IF doc.node[n].tag = "br" THEN [s EXCEPT !.out = Append(@, "\n")] ELSE s
            ELSE IF IsText(doc, n) THEN FoldLeft(char, s, doc.node[n].text)
            ELSE s
    IN  FoldLeft(node, [out |-> <<>>, blank |-> blank], NodeWalk(doc, view))

\* Variant: the predicate is not renewed between the passes.
WritingPassGoesOn(doc, view) == TextPass(doc, view, TextPass(doc, view, TRUE).blank)

\* The second pass of text() starts from a new predicate.
WritingPass(doc, view) == TextPass(doc, view, TRUE)

\* text(): a buffer of the measured length, filled, without the blanks at its end.
\* A character that was measured and not written is a zero there.
Text(doc, view) ==
    LET size == Len(TextPass(doc, view, TRUE).out)
        written == WritingPass(doc, view).out
        buffer == [i \in 1..size |-> IF i <= Len(written) THEN written[i] ELSE "zero"]
        last == Max({i \in 1..size : buffer[i] # " "} \cup {0})
    IN  IF last = 0 THEN buffer ELSE SubSeq(buffer, 1, last)

\* content_text(): the texts below the element, as they are.
ContentText(doc, view) ==
    FlattenSeq([i \in DOMAIN NodeWalk(doc, view) |-> doc.node[NodeWalk(doc, view)[i]].text])

-----------------------------------------------------------------------------
(* What they promise *)

Ancestors(doc, n) ==
    LET above[m \in Nodes(doc) \cup {Null}] ==
            IF m = Null THEN {} ELSE {doc.parent[m]} \cup above[doc.parent[m]]
    IN  above[n] \ {Null}

\* The nodes of a set in document order.
InOrder(doc, S) == Entries([n \in Nodes(doc) |-> n], S)

Below(doc, view) == {n \in Nodes(doc) : view \in Ancestors(doc, n)}

ElementsBelow(doc, view) == {n \in Below(doc, view) : IsElement(doc, n)}

WalkIsWhole(doc, view) ==
    LET children == InOrder(doc, {n \in ElementsBelow(doc, view) : doc.parent[n] = view})
    IN  /\ NodeWalk(doc, view) = InOrder(doc, Below(doc, view))
        /\ ElementWalk(doc, view) = InOrder(doc, ElementsBelow(doc, view))
        /\ ChildElements(doc, view) = children
        /\ \A i \in DOMAIN children :
              PreviousElement(doc, children[i]) = IF i = 1 THEN Null ELSE children[i-1]

\* The classes of an element: the longest runs without blanks.
Classes(full) ==
    LET run(i, j) == \A k \in i..j : full[k] \notin Blanks
    IN  {SubSeq(full, ij[1], ij[2]) :
           ij \in {p \in (DOMAIN full) \X (DOMAIN full) :
                    /\ p[1] <= p[2] /\ run(p[1], p[2])
                    /\ p[1] = 1 \/ ~run(p[1] - 1, p[2])
                    /\ p[2] = Len(full) \/ ~run(p[1], p[2] + 1)}}

\* What a step of a search asks for.
Satisfies(doc, n, by) ==
    IF by.what = "tag" THEN doc.node[n].tag = by.tag
    ELSE LET attrs == doc.node[n].attrs
             values == Entries(attrs, {i \in DOMAIN attrs : attrs[i].name = by.attr})
             value == IF values = <<>> THEN <<>> ELSE Head(values).value
         IN  IF by.attr = "class" /\ by.ignore THEN by.value \in Classes(value)
             ELSE value = by.value /\ (values # <<>> \/ by.attr \in {"class", "id"})

\* Every way to search sees the same elements, those below the view, in document order:
\* find() and query() return the first one find_all() and query_all() list, a chain of
\* finds ends below its first hit or nowhere, and an invalid view has no hits.
FindersAgree(doc, view, by, also) ==
    LET hits(n, steps) ==
            InOrder(doc, {e \in ElementsBelow(doc, n) : \E s \in steps : Satisfies(doc, e, s)})
        first(n, steps) == IF hits(n, steps) = <<>> THEN Null ELSE Head(hits(n, steps))
    IN  IF view = Null
        THEN /\ FindAll(doc, view, by) = <<>> /\ Find(doc, view, by) = Null
             /\ FinderFind(doc, view, <<by, also>>) = Null /\ Query(doc, view, {by, also}) = Null
        ELSE /\ FindAll(doc, view, by) = hits(view, {by})
             /\ Find(doc, view, by) = first(view, {by})
             /\ QueryAll(doc, view, {by, also}) = hits(view, {by, also})
             /\ Query(doc, view, {by, also}) = first(view, {by, also})
             /\ FinderFind(doc, view, <<by, also>>) =
                  IF first(view, {by}) = Null THEN Null ELSE first(first(view, {by}), {also})

\* Without its blanks and breaks, the text of an element is that of the nodes below it.
Letters(text) == SelectSeq(text, LAMBDA c : c \notin Blanks)

TextIsClean(doc, view) ==
    LET text == Text(doc, view)
        breaks == Len(SelectSeq(text, LAMBDA c : c = "\n"))
    IN  /\ Letters(text) = Letters(ContentText(doc, view))
        /\ breaks = Len(FindAll(doc, view, [what |-> "tag", tag |-> "br"]))
        /\ \A i \in DOMAIN text : text[i] = " " => i \notin {1, Len(text)} /\ text[i-1] # " "

=============================================================================
