------------------------------ MODULE JSParser ------------------------------
(***************************************************************************)
(* Finding a literal in a script and making JSON of it.  A text is a       *)
(* sequence of characters, of which the ones in the sets below matter to   *)
(* the scanners; any other stands for itself.                              *)
(***************************************************************************)
EXTENDS Integers, SequencesExt

Double == "dq"       \* a double quote
Escape == "bs"       \* a backslash
Template == "bt"     \* a backquote
Quotes == {"'", Double, Template}
Spaces == {" ", "\n"}
IdentChars == {"v", "x", "1"}
Open == {"{", "[", "("}
Closer == [c \in Open |-> CASE c = "{" -> "}" [] c = "[" -> "]" [] c = "(" -> ")"]

\* Positions are those of TLA+, from 1; None is npos.
None == 0

At(text, i) == IF i \in DOMAIN text THEN text[i] ELSE "end"

\* The first position from i on where P holds, or Len + 1.
FirstFrom(text, i, P(_)) ==
    Min({j \in i..Len(text) : P(j)} \cup {Max({i, Len(text) + 1})})

-----------------------------------------------------------------------------
(* What the scanners skip *)

\* Variant: an escaped quote ends the string.
StringEndNoEscape(text, i) ==
    LET j == FirstFrom(text, i + 1, LAMBDA k : text[k] = text[i]) IN IF j > Len(text) THEN None ELSE j

\* The closing quote of the string or template that opens at i.
StringEnd(text, i) ==
    LET from[j \in Nat] ==
            IF j > Len(text) THEN None
            ELSE IF text[j] = Escape THEN from[j + 2]
            ELSE IF text[j] = text[i] THEN j ELSE from[j + 1]
    IN  from[i + 1]

\* The last position of the comment that opens at i: a line comment ends before its
\* line does, with the text at the latest.
CommentEnd(text, i) ==
    LET line == FirstFrom(text, i + 2, LAMBDA k : text[k] = "\n")
        block == FirstFrom(text, i + 2, LAMBDA k : text[k] = "*" /\ At(text, k + 1) = "/")
    IN  IF At(text, i + 1) = "/" THEN Min({line, Len(text) + 1})
        ELSE IF block > Len(text) THEN None ELSE block + 1

CommentOpens(text, i) == At(text, i) = "/" /\ At(text, i + 1) \in {"/", "*"}

\* Where the token at i ends, a string, a comment or the one character: None if it
\* does not, as behind the text.
TokenEnd(text, i) ==
    IF i > Len(text) THEN None
    ELSE IF text[i] \in Quotes THEN StringEnd(text, i)
    ELSE IF CommentOpens(text, i) THEN CommentEnd(text, i)
    ELSE i

\* skip_call_trivia: blanks and comments; None in a comment that does not end.
SkipTrivia(text, i) ==
    LET from[j \in Nat] ==
            IF At(text, j) \in Spaces THEN from[j + 1]
            ELSE IF ~CommentOpens(text, j) THEN j
            ELSE LET after(end) == IF end = None THEN None ELSE from[end + 1]
                 IN  after(CommentEnd(text, j))
    IN  from[i]

-----------------------------------------------------------------------------
(* Scanners *)

\* Variant: a closing bracket closes whatever is open.
ScanBalancedAnyCloser(text, start) ==
    LET from[i \in Nat, n \in Nat] ==
            LET token(end) ==
                    IF end = None THEN 0
                    ELSE IF text[i] \in {"{", "["} THEN from[i + 1, n + 1]
                    ELSE IF text[i] \in {"}", "]"} THEN
                         IF n = 1 THEN (i - start) + 1 ELSE IF n = 0 THEN 0 ELSE from[i + 1, n - 1]
                    ELSE from[end + 1, n]
            IN  token(TokenEnd(text, i))
    IN  from[start, 0]

\* scan_balanced: the length of the literal that opens at start, 0 if its brackets,
\* strings and comments do not close in turn.  Parentheses are not looked at.
ScanBalanced(text, start) ==
    LET from[i \in Nat, closers \in Seq({"}", "]"})] ==
            LET token(end) ==
                    IF end = None THEN 0
                    ELSE IF text[i] \in {"{", "["} THEN from[i + 1, Append(closers, Closer[text[i]])]
                    ELSE IF text[i] \in {"}", "]"} THEN
                         IF closers = <<>> \/ Last(closers) # text[i] THEN 0
                         ELSE IF Len(closers) = 1 THEN (i - start) + 1
                         ELSE from[i + 1, Front(closers)]
                    ELSE from[end + 1, closers]
            IN  token(TokenEnd(text, i))
    IN  from[start, <<>>]

\* Where name occurs as a whole identifier, in the order of the text.
Occurrences(text, name) ==
    LET n == Len(name)
        whole(i) == /\ SubSeq(text, i, i + n - 1) = name
                    /\ At(text, i - 1) \notin IdentChars
                    /\ At(text, i + n) \notin IdentChars
    IN  SetToSortSeq({i \in 1..(Len(text) - n + 1) : whole(i)}, <)

\* Variant: a comparison counts as an assignment.
ValueStartAnyEquals(text, after) ==
    LET skip(i) == FirstFrom(text, i, LAMBDA k : text[k] \notin Spaces)
        literal(sign, value) ==
            IF At(text, sign) \in {"=", ":"} /\ At(text, value) \in {"{", "[", "="} THEN value ELSE None
        at(sign) == literal(sign, skip(sign + 1))
    IN  at(skip(after))

\* The literal after an assignment or a key's colon, if one follows; == and => are neither.
ValueStart(text, after) ==
    LET skip(i) == FirstFrom(text, i, LAMBDA k : text[k] \notin Spaces)
        literal(sign, value) ==
            IF /\ At(text, sign) \in {"=", ":"}
               /\ At(text, sign) = "=" => At(text, sign + 1) \notin {"=", ">"}
               /\ At(text, value) \in {"{", "["}
            THEN value ELSE None
        at(sign) == literal(sign, skip(sign + 1))
    IN  at(skip(after))

\* The slice of a literal: where it starts and how long it is; NoSlice is an empty view.
NoSlice == [start |-> 0, length |-> 0]

\* scan_json_var: the first occurrence of the name, quoted or not, with a balanced literal.
ScanJsonVar(text, name) ==
    LET after(i) == IF At(text, i - 1) \in {"'", Double} /\ At(text, i + Len(name)) = At(text, i - 1)
                    THEN i + Len(name) + 1 ELSE i + Len(name)
        slice(v) == [start |-> v, length |-> IF v = None THEN 0 ELSE ScanBalanced(text, v)]
        first[places \in Seq(Nat)] ==
            LET try(s) == IF s.length > 0 THEN s ELSE first[Tail(places)]
            IN  IF places = <<>> THEN NoSlice ELSE try(slice(ValueStart(text, after(Head(places)))))
    IN  first[Occurrences(text, name)]

\* scan_call_argument: the comma or parenthesis that ends the argument which starts at start.
ScanCallArgument(text, start) ==
    LET from[i \in Nat, closers \in Seq({"}", "]", ")"})] ==
            LET token(end) ==
                    IF end = None THEN None
                    ELSE IF text[i] \in Open THEN from[i + 1, Append(closers, Closer[text[i]])]
                    ELSE IF text[i] \in {"}", "]", ")"} THEN
                         IF closers = <<>> THEN IF text[i] = ")" THEN i ELSE None
                         ELSE IF Last(closers) # text[i] THEN None ELSE from[i + 1, Front(closers)]
                    ELSE IF text[i] = "," /\ closers = <<>> THEN i
                    ELSE from[end + 1, closers]
            IN  token(TokenEnd(text, i))
    IN  from[start, <<>>]

\* scan_json_call_argument: argument number index (from 0) of the first call that has a
\* literal there; a literal that does not balance ends the search.
ScanCall(text, callee, index) ==
    LET argument[k \in Nat, i \in Nat] ==   \* None, or where the argument starts
            LET next(stop) == IF At(text, stop) # "," THEN None ELSE argument[k + 1, stop + 1]
                this(start) ==
                    IF At(text, start) \in {"end", ")"} THEN None
                    ELSE IF k < index THEN next(ScanCallArgument(text, start))
                    ELSE IF text[start] \in {"{", "["} THEN start ELSE None
            IN  this(SkipTrivia(text, i))
        inside(paren) == IF At(text, paren) = "(" THEN argument[0, paren + 1] ELSE None
        first[places \in Seq(Nat)] ==
            LET try(start) == IF start # None THEN start ELSE first[Tail(places)]
            IN  IF places = <<>> THEN None ELSE try(inside(SkipTrivia(text, Head(places) + Len(callee))))
        slice(v) == [start |-> v, length |-> IF v = None THEN 0 ELSE ScanBalanced(text, v)]
        whole(s) == IF s.length = 0 THEN NoSlice ELSE s
    IN  whole(slice(first[Occurrences(text, callee)]))

\* Variant: double quotes inside single ones stay as they are.
NormalizeKeepsDouble(text) == [i \in DOMAIN text |-> IF text[i] = "'" THEN Double ELSE text[i]]

\* normalize_js_to_json: single-quoted strings become double-quoted; double-quoted
\* strings and comments are copied, and so is everything else, templates included.
Normalize(text) ==
    LET inside(i, stop) ==     \* the characters of a single-quoted string
            LET from[j \in Nat] ==
                    IF j >= stop THEN <<>>
                    ELSE IF text[j] = Escape /\ j < Len(text) THEN
                         (IF text[j + 1] = "'" THEN <<"'">> ELSE <<Escape, text[j + 1]>>) \o from[j + 2]
                    ELSE (IF text[j] = Double THEN <<Escape, Double>> ELSE <<text[j]>>) \o from[j + 1]
            IN  from[i]
        from[i \in Nat] ==
            IF i > Len(text) THEN <<>>
            ELSE LET end == IF text[i] = Template THEN i ELSE TokenEnd(text, i)
                     stop == IF end = None THEN Len(text) + 1 ELSE end
                 IN  (IF text[i] # "'" THEN SubSeq(text, i, Min({stop, Len(text)}))
                      ELSE <<Double>> \o inside(i + 1, stop)
                                      \o IF end = None THEN <<>> ELSE <<Double>>) \o from[stop + 1]
    IN  from[1]

Slice(text, s) == SubSeq(text, s.start, s.start + s.length - 1)

\* parse_json_var and parse_json_call_argument, of the slice they find: the JSON that goes to
\* boost::json, or nothing if there is no slice or boost::json refuses it.
ParseJson(text, s, refused) ==
    IF s.length = 0 \/ refused THEN <<>> ELSE <<Normalize(Slice(text, s))>>

-----------------------------------------------------------------------------
(* What they promise: a script is written from pieces, marks and strings *)

Mark(text) == [what |-> "mark", text |-> text]
String(quote, text, all) == [what |-> "string", quote |-> quote, text |-> text, all |-> all]

\* A string escapes its own quote and backslashes; all: the other quote as well.
Written(piece) ==
    LET escaped(c) == c \in {piece.quote, Escape} \/ (piece.all /\ c = Double)
        char(c) == IF escaped(c) THEN <<Escape, c>> ELSE <<c>>
    IN  IF piece.what = "mark" THEN piece.text
        ELSE <<piece.quote>> \o FlattenSeq([i \in DOMAIN piece.text |-> char(piece.text[i])])
                             \o <<piece.quote>>

Script(pieces) == FlattenSeq([i \in DOMAIN pieces |-> Written(pieces[i])])

\* The same pieces as JSON has them.
AsJson(pieces) ==
    [i \in DOMAIN pieces |-> IF pieces[i].what = "mark" THEN pieces[i]
                             ELSE String(Double, pieces[i].text, FALSE)]

\* The literal assigned to the name is found as it was written, past anything in front
\* of it that is no assignment of a literal to this name; and its JSON has the strings
\* of the script.
LiteralIsFound(before, literal, after) ==
    LET script == Script(literal)
        text == before \o <<"v", " ", "=", "\n">> \o script \o after
        found == ScanJsonVar(text, <<"v">>)
    IN  /\ Slice(text, found) = script
        /\ ParseJson(text, found, FALSE) = <<Script(AsJson(literal))>>

IsLiteral(pieces) == pieces # <<>> /\ pieces[1] \in {Mark(<<"{">>), Mark(<<"[">>)}

\* The same of an argument of a call, whatever the arguments before it are; nothing is
\* found where the argument is no literal or missing.
ArgumentIsFound(before, args, after) ==
    LET comma(i) == IF i = 1 THEN <<>> ELSE <<",", " ">>
        text == before \o <<"v", " ", "(">>
                \o FlattenSeq([i \in DOMAIN args |-> comma(i) \o Script(args[i])]) \o <<")">> \o after
    IN  \A k \in 0..Len(args) :
            LET s == ScanCall(text, <<"v">>, k)
            IN  IF k < Len(args) /\ IsLiteral(args[k + 1])
                THEN /\ Slice(text, s) = Script(args[k + 1])
                     /\ ParseJson(text, s, FALSE) = <<Script(AsJson(args[k + 1]))>>
                ELSE s = NoSlice /\ ParseJson(text, s, FALSE) = <<>>

=============================================================================
