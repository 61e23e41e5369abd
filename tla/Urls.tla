-------------------------------- MODULE Urls --------------------------------
(***************************************************************************)
(* Percent-encoding, the scanners that take an id or a slug out of a path, *)
(* and the parts of a parsed URL.  A text is a sequence of bytes.          *)
(***************************************************************************)
EXTENDS Integers, SequencesExt

Percent == 37
Digits == 48..57
Upper == 65..90
LowerCase == 97..122
Unreserved == Digits \cup Upper \cup LowerCase \cup {45, 46, 95, 126}
Reserved == {33, 35, 36, Percent, 38, 39, 40, 41, 42, 43, 44, 47, 58, 59, 61, 63, 64, 91, 93}

Hex(n) == IF n < 10 THEN 48 + n ELSE 65 + n - 10
Escaped(c) == <<Percent, Hex(c \div 16), Hex(c % 16)>>

EncodeUnless(value, kept) ==
    FlattenSeq([i \in DOMAIN value |-> IF value[i] \in kept THEN <<value[i]>> ELSE Escaped(value[i])])

\* url_encode: one component.
UrlEncode(value) == EncodeUnless(value, Unreserved)

\* url_encode_uri: a whole URI keeps its delimiters and its escapes.
UrlEncodeUri(value) == EncodeUnless(value, Unreserved \cup Reserved)

\* The value of a hexadecimal digit in either case, -1 of another byte.
HexDigit(c) ==
    IF c \in Digits THEN c - 48
    ELSE IF c \in 65..70 THEN c - 55
    ELSE IF c \in 97..102 THEN c - 87 ELSE -1

\* Variant: a percent sign is taken for an escape whatever follows.
UrlDecodeAny(value) ==
    LET from[i \in Nat] ==
            IF i > Len(value) THEN <<>>
            ELSE IF value[i] = Percent /\ i + 2 <= Len(value)
                 THEN <<(HexDigit(value[i+1]) * 16 + HexDigit(value[i+2])) % 256>> \o from[i + 3]
                 ELSE <<value[i]>> \o from[i + 1]
    IN  from[1]

\* url_decode: an escape that is cut short or has no digits stays as it is.
UrlDecode(value) ==
    LET escape(i) == /\ value[i] = Percent
                     /\ i + 2 <= Len(value)
                     /\ HexDigit(value[i+1]) >= 0 /\ HexDigit(value[i+2]) >= 0
        from[i \in Nat] ==
            IF i > Len(value) THEN <<>>
            ELSE IF escape(i) THEN <<HexDigit(value[i+1]) * 16 + HexDigit(value[i+2])>> \o from[i + 3]
            ELSE <<value[i]>> \o from[i + 1]
    IN  from[1]

-----------------------------------------------------------------------------
(* Scanners; nothing is the empty sequence, something a sequence of one *)

AllDigits(text) == text # <<>> /\ \A i \in DOMAIN text : text[i] \in Digits

Finds(text, marker) == {i \in 1..(Len(text) - Len(marker) + 1) : SubSeq(text, i, i + Len(marker) - 1) = marker}

\* The bytes from i on, up to the first that is not in S.
RunOf(text, i, S) ==
    LET stop == Min({j \in i..Len(text) : text[j] \notin S} \cup {Len(text) + 1})
    IN  SubSeq(text, i, stop - 1)

\* segment_after: only the first marker counts.
SegmentAfter(text, marker, delims) ==
    LET segment == RunOf(text, Min(Finds(text, marker)) + Len(marker), (0..255) \ delims)
    IN  IF Finds(text, marker) = {} \/ segment = <<>> THEN <<>> ELSE <<segment>>

ValueOfDigits(digits) == FoldLeft(LAMBDA n, c : n * 10 + (c - 48), 0, digits)

\* Variant: the marker counts wherever it stands.
NumericAfterAnywhere(text, marker, boundary) ==
    LET hits == {i \in Finds(text, marker) : RunOf(text, i + Len(marker), Digits) # <<>>}
    IN  IF hits = {} THEN <<>> ELSE <<ValueOfDigits(RunOf(text, Min(hits) + Len(marker), Digits))>>

\* numeric_after: markers are tried one after the other, each where the one before ended.
\* The sum is an int64; more digits than it holds are left out of the inputs.
NumericAfter(text, marker, boundary) ==
    LET counts(i) == ~boundary \/ i = 1 \/ text[i-1] \in {38, 63}
        from[start \in Nat] ==
            LET later == {i \in Finds(text, marker) : i >= start}
                digits == RunOf(text, Min(later) + Len(marker), Digits)
            IN  IF later = {} THEN <<>>
                ELSE IF counts(Min(later)) /\ digits # <<>> THEN <<ValueOfDigits(digits)>>
                ELSE from[Min(later) + Len(marker)]
    IN  from[1]

-----------------------------------------------------------------------------
(* ParsedUrl.  lexbor yields the components; host, query and fragment as a *)
(* sequence of at most one *)

Opt(mark, part) == IF part = <<>> THEN <<>> ELSE mark \o part[1]

\* lexbor's serialization.
Href(u) ==
    LET password == IF u.password = <<>> THEN <<>> ELSE <<58>> \o u.password
        credentials == IF u.user = <<>> /\ u.password = <<>> THEN <<>> ELSE u.user \o password \o <<64>>
        port == Opt(<<58>>, u.port)
    IN  u.scheme \o <<58>>
        \o (IF u.host = <<>> THEN <<>> ELSE <<47, 47>> \o credentials \o u.host[1] \o port)
        \o u.path \o Opt(<<63>>, u.query) \o Opt(<<35>>, u.fragment)

\* Variant: a password without its colon.
HostOffsetNoColon(u) ==
    Len(u.scheme) + 3
      + IF u.user = <<>> /\ u.password = <<>> THEN 0 ELSE Len(u.user) + Len(u.password) + 1

\* Where the host starts: behind "://" and the credentials.
HostOffset(u) ==
    Len(u.scheme) + 3
      + (IF u.user = <<>> /\ u.password = <<>> THEN 0
         ELSE Len(u.user) + Len(u.password) + 1 + IF u.password = <<>> THEN 0 ELSE 1)

\* ParsedUrl::parse: the parts are offsets and lengths, from the end of the URL for the path.
Parts(u) ==
    LET length(part) == IF part = <<>> THEN 0 ELSE Len(part[1])
        mark(part) == IF part = <<>> THEN 0 ELSE 1
        path == Len(Href(u)) - Len(u.path) - length(u.query) - length(u.fragment)
                  - mark(u.query) - mark(u.fragment)
        query == path + Len(u.path) + mark(u.query)
        at(offset, n) == [offset |-> offset, length |-> n]
    IN  [scheme |-> at(0, Len(u.scheme)),
         host |-> IF u.host = <<>> THEN at(0, 0) ELSE at(HostOffset(u), Len(u.host[1])),
         path |-> at(path, Len(u.path)),
         query |-> at(query, length(u.query)),
         fragment |-> at(query + length(u.query) + mark(u.fragment), length(u.fragment))]

\* scheme(), host(), path(), query() and fragment(): views into href.
View(u, part) == SubSeq(Href(u), Parts(u)[part].offset + 1, Parts(u)[part].offset + Parts(u)[part].length)

-----------------------------------------------------------------------------
(* What they promise *)

\* Decoding undoes encoding, and encoding a URI neither changes what it decodes to nor
\* changes anything when it is done again.
EncodingRoundTrips(value) ==
    /\ UrlDecode(UrlEncode(value)) = value
    /\ UrlDecode(UrlEncodeUri(value)) = UrlDecode(value)
    /\ UrlEncodeUri(UrlEncodeUri(value)) = UrlEncodeUri(value)
    /\ \A i \in DOMAIN UrlEncode(value) : UrlEncode(value)[i] \in Unreserved \cup {Percent}

\* A query that sets keys to numbers: reading one returns the first value set for
\* that very key.
KeyIsRead(query, key) ==
    LET number(i) == <<48 + query[i].value>>
        pair(i) == (IF i = 1 THEN <<>> ELSE <<38>>) \o query[i].key \o <<61>> \o number(i)
        text == FlattenSeq([i \in DOMAIN query |-> pair(i)])
        set == {i \in DOMAIN query : query[i].key = key}
    IN  NumericAfter(text, key \o <<61>>, TRUE) = IF set = {} THEN <<>> ELSE <<query[Min(set)].value>>

\* What follows a marker is read up to a delimiter, or nothing where nothing follows; a
\* reference of digits alone reads as the number it is.
ReferenceIsRead(before, marker, ref, after, delims) ==
    LET text == before \o marker \o ref \o after
        segment == SegmentAfter(text, marker, delims)
    IN  /\ segment = IF ref = <<>> THEN <<>> ELSE <<ref>>
        /\ segment # <<>> /\ AllDigits(segment[1]) =>
              NumericAfter(text, marker, FALSE) = <<ValueOfDigits(ref)>>

\* The views are the components.
PartsAreExact(u) ==
    /\ View(u, "scheme") = u.scheme
    /\ View(u, "path") = u.path
    /\ \A part \in {"host", "query", "fragment"} :
          View(u, part) = IF u[part] = <<>> THEN <<>> ELSE u[part][1]

=============================================================================
