----------------------------- MODULE Algorithms -----------------------------
(***************************************************************************)
(* The algorithms that compute on one value, under the names they have     *)
(* where they are given their inputs and where they are proved, and what   *)
(* they are given.  (Pagination and Search have their names in             *)
(* ImageSource, whose getters call them.)                                  *)
(***************************************************************************)
EXTENDS Integers, Sequences

CONSTANT TickDigits      \* the digits of a second the clock holds

Documents == INSTANCE Dom
Addresses == INSTANCE Urls
Measured == INSTANCE Measures

(* Documents *)

\* The parents of n nodes that are numbered in document order: what lies between a node and
\* its parent is below that parent.
Orders(n) ==
    {p \in [1..n -> 0..n] :
       \A i \in 1..n : p[i] < i /\ \A j \in 1..n : p[i] < j /\ j < i => p[j] >= p[i]}

\* A document of n nodes with these parents.
HasTree(doc, n, p) == n \in Nat /\ p \in Orders(n) /\ doc.parent = p

\* A document whose elements have attributes with these names, and these characters in their values.
HasAttributes(doc, n, Names, Char) ==
    \A m \in 1..n : doc.node[m].attrs \in Seq([name : Names, value : Seq(Char)])

\* A document with attributes, in document order.
HasElements(doc, n, p, Names, Char) == HasTree(doc, n, p) /\ HasAttributes(doc, n, Names, Char)

\* A step of a search: a tag, or an attribute and its value, which has a character if a class
\* is looked for among several.
IsStep(by, Char) ==
    by.what # "tag" => /\ by.value \in Seq(Char)
                       /\ by.attr = "class" /\ by.ignore => by.value # <<>>

(* Addresses *)

Texts == Seq(0..255)

\* The components of a URL, as the parser (lexbor) yields them; an optional one is a sequence
\* of at most one.
Optionals == {s \in Seq(Texts) : Len(s) <= 1}
Components ==
    [scheme : Texts, user : Texts, password : Texts, host : Optionals,
     port : Optionals, path : Texts, query : Optionals, fragment : Optionals]

\* A query of numbers whose keys have none of the bytes that separate them, and such a key.
KeyBytes == (0..255) \ {38, 61, 63}
IsQuery(query) == query \in Seq([key : Seq(KeyBytes), value : 0..9])
IsKey(key) == key \in Seq(KeyBytes)

\* A reference behind the first marker of a text: it has no delimiter, and one follows it.
IsReference(before, marker, ref, after, delims) ==
    /\ {before, marker, ref, after} \subseteq Texts
    /\ marker # <<>>
    /\ delims \cap Addresses!Digits = {}
    /\ \A i \in DOMAIN ref : ref[i] \notin delims
    /\ after # <<>> => after[1] \in delims
    /\ \A i \in Addresses!Finds(before \o marker \o ref \o after, marker) : i > Len(before)

=============================================================================
