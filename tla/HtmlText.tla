------------------------------ MODULE HtmlText ------------------------------
(***************************************************************************)
(* from_html(): markup becomes plain text with runs, ranges of offsets     *)
(* into it, for links, styles and colours.                                 *)
(***************************************************************************)
EXTENDS Dom

\* An AttributedText; a run ends before the offset end.
AttributedTexts == [text : Seq(STRING), runs : Seq([start : Nat, end : Nat, what : STRING])]
Plain == [text |-> <<>>, runs |-> <<>>]

\* style_of: what a tag stands for.
StyleOf(tag) ==
    IF tag \in {"i", "em"} THEN {"italic"}
    ELSE IF tag \in {"b", "strong"} THEN {"bold"}
    ELSE IF tag \in {"s", "del", "strike"} THEN {"strikethrough"}
    ELSE {}

Hex == {"0", "7", "8", "9", "a", "F"}      \* of the hexadecimal digits, those the texts have

Trimmed(value) ==
    LET inside == {i \in DOMAIN value : value[i] \notin Blanks}
    IN  IF inside = {} THEN <<>> ELSE SubSeq(value, Min(inside), Max(inside))

\* What stands behind the # of a value, if it has one.
Hashed(value) ==
    LET tail(trimmed) == IF trimmed # <<>> /\ Head(trimmed) = "#" THEN Tail(trimmed) ELSE <<>>
    IN  tail(Trimmed(value))

\* color_value: red, green, blue and alpha, two digits each, <<>> if the value is no #rgb,
\* #rgba, #rrggbb or #rrggbbaa.
ColorValue(value) ==
    LET component(digits, k) ==
            IF Len(digits) <= 4 THEN <<digits[k], digits[k]>> ELSE <<digits[2*k - 1], digits[2*k]>>
        color(digits) ==
            IF Len(digits) \notin {3, 4, 6, 8} \/ ~(Range(digits) \subseteq Hex) THEN <<>>
            ELSE [k \in 1..4 |-> IF k = 4 /\ Len(digits) \in {3, 6} THEN <<"F", "F">> ELSE component(digits, k)]
    IN  color(Hashed(value))

\* The parts of a text between the separators, in their order.
Parts(text, separator) ==
    FoldLeft(LAMBDA parts, c : IF c = separator THEN Append(parts, <<>>)
                               ELSE [parts EXCEPT ![Len(parts)] = Append(@, c)], <<<<>>>>, text)

\* get_attr, with nothing for an attribute that is not there.
AttrOf(node, name) ==
    LET value(found) == IF found = <<>> THEN <<>> ELSE Head(found).value
    IN  value(SelectSeq(node.attrs, LAMBDA a : a.name = name))

\* Variant: styles are not looked at.
ColorOfAttribute(node) == ColorValue(AttrOf(node, "color"))

\* color_of: the attribute, or else the first declaration of a colour that is one.
ColorOf(node) ==
    LET declared(text, name) ==
            IF Trimmed(name) = <<"color">> THEN SubSeq(text, Len(name) + 2, Len(text)) ELSE <<>>
        try(color, text) == IF color # <<>> THEN color ELSE ColorValue(declared(text, Head(Parts(text, ":"))))
    IN  FoldLeft(try, ColorValue(AttrOf(node, "color")), Parts(AttrOf(node, "style"), ";"))

\* The runs of one element, in the order they are added.
RunsOf(node) ==
    LET link == IF node.tag = "a" /\ AttrOf(node, "href") # <<>> THEN <<"link">> ELSE <<>>
    IN  link \o SetToSeq(StyleOf(node.tag)) \o IF ColorOf(node) # <<>> THEN <<"color">> ELSE <<>>

\* Variant: block tags stack blank lines.
BreakLineAlways(text) == Append(text, "\n")

\* break_line: no empty line at the start or after a line end.
BreakLine(text) == IF text # <<>> /\ Last(text) # "\n" THEN Append(text, "\n") ELSE text

\* <br>: a newline each, up to one blank line.
LineBreak(text) ==
    LET n == Len(text)
    IN  IF n < 2 \/ text[n] # "\n" \/ text[n-1] # "\n" THEN Append(text, "\n") ELSE text

\* walk(): the children of a node in their order; a run is added once the walk below
\* its element has grown the text.
Walked(doc, view) ==
    LET inline(o, inner, whats) ==
            LET run(what) == [start |-> Len(o.text), end |-> Len(inner.text), what |-> what]
            IN  IF Len(inner.text) <= Len(o.text) THEN inner
                ELSE [inner EXCEPT !.runs = @ \o [i \in DOMAIN whats |-> run(whats[i])]]
        below[n \in Nat, out \in AttributedTexts] ==
            LET child(o, c) ==
                    IF IsText(doc, c) THEN [o EXCEPT !.text = @ \o doc.node[c].text]
                    ELSE IF ~IsElement(doc, c) THEN o
                    ELSE IF doc.node[c].tag = "br" THEN [o EXCEPT !.text = LineBreak(@)]
                    ELSE IF doc.node[c].tag \in {"p", "div", "li"}
                         THEN [below[c, [o EXCEPT !.text = BreakLine(@)]] EXCEPT !.text = BreakLine(@)]
                    ELSE inline(o, below[c, o], RunsOf(doc.node[c]))
            IN  FoldLeft(child, out, SelectSeq([c \in Nodes(doc) |-> c], LAMBDA c : doc.parent[c] = n))
    IN  below[view, Plain]

\* from_html() of an element: the walk, and then no blanks at the end of the text; thrown:
\* something threw on the way.
FromHtml(doc, view, thrown) ==
    LET last(text) == Max({i \in DOMAIN text : text[i] \notin Blanks} \cup {0})
        tidied(out) == [out EXCEPT !.text = SubSeq(@, 1, last(@))]
    IN  IF view = Null \/ thrown THEN Plain ELSE tidied(Walked(doc, view))

\* from_html() of a fragment, whose document has this body if it is parsed: what is refused
\* or throws on the way is its own text, with nothing tidied and no runs.
FromFragment(html, outcome, doc, body) ==
    IF outcome \in {"refused", "thrown"} THEN [text |-> html, runs |-> <<>>]
    ELSE FromHtml(doc, body, FALSE)

-----------------------------------------------------------------------------
(* What it promises *)

\* No letter is lost, of a fragment not even if it cannot be parsed.
NoLetterIsLost(html, outcome, doc, view) ==
    LET kept(out) == IF outcome = "parsed" THEN Letters(out.text) = Letters(ContentText(doc, view))
                     ELSE out = [Plain EXCEPT !.text = html]
    IN  kept(FromFragment(html, outcome, doc, view))

\* Lines break at most twice in a row, and runs enclose exactly the letters of one element,
\* inside one another or apart.
RunsFollowElements(doc, view) ==
    LET apart(r, s) == r.end <= s.start
        inside(r, s) == s.start <= r.start /\ r.end <= s.end
        follow(raw) ==
            /\ \A i \in 3..Len(raw.text) : {j \in (i-2)..i : raw.text[j] = "\n"} # (i-2)..i
            /\ \A i \in DOMAIN raw.runs :
                  /\ raw.runs[i].start < raw.runs[i].end
                  /\ \A j \in 1..(i-1) : apart(raw.runs[j], raw.runs[i]) \/ inside(raw.runs[j], raw.runs[i])
                  /\ \E n \in Nodes(doc) :
                        /\ IsElement(doc, n) /\ raw.runs[i].what \in Range(RunsOf(doc.node[n]))
                        /\ Letters(SubSeq(raw.text, raw.runs[i].start + 1, raw.runs[i].end))
                             = Letters(ContentText(doc, n))
    IN  follow(Walked(doc, view))

\* A colour as it may be written, and the text of one.
IsColor(value) == value.hash /\ Len(value.digits) \in {3, 4, 6, 8} /\ Range(value.digits) \subseteq Hex
ColorText(value) == <<" ">> \o (IF value.hash THEN <<"#">> ELSE <<>>) \o value.digits \o value.after

\* The colour of an element is that of its attribute, if it is one, or else that of the first
\* declaration of its style that is one; each in two digits, opaque if it does not say.
ColorIsRead(attributes, declarations) ==
    LET style == FlattenSeq([i \in DOMAIN declarations |->
                               declarations[i].name \o <<":">> \o ColorText(declarations[i].value) \o <<";">>])
        node == [attrs |-> [i \in DOMAIN attributes |-> [name |-> "color", value |-> ColorText(attributes[i])]]
                             \o <<[name |-> "style", value |-> style]>>]
        colored == {i \in DOMAIN declarations : declarations[i].name = <<"color">> /\ IsColor(declarations[i].value)}
        expected == IF attributes # <<>> /\ IsColor(attributes[1]) THEN <<attributes[1].digits>>
                    ELSE IF colored = {} THEN <<>> ELSE <<declarations[Min(colored)].value.digits>>
        full(digits) == FlattenSeq([i \in DOMAIN digits |-> IF Len(digits) <= 4 THEN <<digits[i], digits[i]>>
                                                            ELSE <<digits[i]>>])
        opaque(digits) == IF Len(digits) = 6 THEN digits \o <<"F", "F">> ELSE digits
    IN  FlattenSeq(ColorOf(node)) = IF expected = <<>> THEN <<>> ELSE opaque(full(expected[1]))

\* "byte-offset runs into text": none ends behind the text that is returned.
RunsLieInside(doc, view) ==
    LET within(out) == \A i \in DOMAIN out.runs : out.runs[i].end <= Len(out.text)
    IN  within(FromHtml(doc, view, FALSE))

=============================================================================
