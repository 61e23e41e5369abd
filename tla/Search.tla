------------------------------- MODULE Search -------------------------------
(***************************************************************************)
(* The search vocabulary and the checks of a query against what a source   *)
(* declares.  A map is a function on its keys, Absent stands for an empty  *)
(* optional, and a list of errors is the set of its elements: a key names  *)
(* an error's place in it.                                                 *)
(***************************************************************************)
EXTENDS Integers, FiniteSets

CONSTANTS Absent, IdentityAxes   \* identity_axes: by namespace, the key

(* Values of a filter, in a query and in a support table *)

TextQuery(text, exclusive) == [type |-> "text", text |-> text, exclusive |-> exclusive]

\* One template for counts, times and durations.
Interval(type, from, to, exclusive) ==
    [type |-> type, from |-> from, to |-> to, exclusive |-> exclusive]
IntervalTypes == {"int", "time", "relative"}

\* options: by token, whether the selection is (or may be) inverted.
ItemSelection(options, single) == [type |-> "selection", options |-> options, single |-> single]

Checkmark(exclusive) == [type |-> "mark", exclusive |-> exclusive]

(* Errors *)

SearchQueryError(reason, key) == [reason |-> reason, key |-> key]

-----------------------------------------------------------------------------
(* The checks of one value *)

ExclusionDenied(descriptor, value) ==
    IF value.type = "selection"
    THEN \E token \in DOMAIN value.options \cap DOMAIN descriptor.options :
             value.options[token] /\ ~descriptor.options[token]
    ELSE value.exclusive /\ ~descriptor.exclusive

MultipleSelectionDenied(descriptor, value) ==
    descriptor.single /\ Cardinality(DOMAIN value.options) > 1

Before(a, b) == a # Absent /\ b # Absent /\ a < b

\* Variant: the requested ends are only compared with the declared ones.
IntervalInvalidUnordered(descriptor, value) ==
    \/ Before(value.from, descriptor.from)
    \/ Before(descriptor.to, value.to)

\* An end is compared with the end of its own side.
IntervalInvalid(descriptor, value) ==
    \/ Before(value.to, value.from)
    \/ Before(value.from, descriptor.from)
    \/ Before(descriptor.to, value.to)

\* Variant: no token is in an open vocabulary.
SelectionInvalidClosed(descriptor, value) ==
    \E token \in DOMAIN value.options : token \notin DOMAIN descriptor.options

\* An empty declaration is an open vocabulary.
SelectionInvalid(descriptor, value) ==
    /\ DOMAIN descriptor.options # {}
    /\ \E token \in DOMAIN value.options : token \notin DOMAIN descriptor.options

ValueInvalid(descriptor, value) ==
    \/ value.type = "text" /\ value.text = ""
    \/ value.type \in IntervalTypes /\ IntervalInvalid(descriptor, value)
    \/ value.type = "selection" /\ SelectionInvalid(descriptor, value)

ValueReasons(descriptor, value) ==
    IF descriptor.type # value.type THEN {"TypeMismatch"}
    ELSE {reason \in {"ExclusionNotSupported", "InvalidValue", "MultipleSelectionNotSupported"} :
            CASE reason = "ExclusionNotSupported" -> ExclusionDenied(descriptor, value)
              [] reason = "InvalidValue" -> ValueInvalid(descriptor, value)
              [] OTHER -> value.type = "selection" /\ MultipleSelectionDenied(descriptor, value)}

-----------------------------------------------------------------------------
(* The checks of a query *)

\* filters, supported: by key, a value.
ValidateSearchQuery(supported, filters) ==
    UNION {IF key \in DOMAIN supported
           THEN {SearchQueryError(reason, key) : reason \in ValueReasons(supported[key], filters[key])}
           ELSE {SearchQueryError("UnknownKey", key)} : key \in DOMAIN filters}

\* sorts: by key, the directions declared; sort: Absent or [key, ascending].
ValidateSort(sorts, sort) ==
    IF sort = Absent THEN {}
    ELSE IF sort.key \notin DOMAIN sorts THEN {SearchQueryError("UnknownSortKey", sort.key)}
    ELSE IF (IF sort.ascending THEN sorts[sort.key].ascending ELSE sorts[sort.key].descending) THEN {}
    ELSE {SearchQueryError("SortDirectionNotSupported", sort.key)}

SortDescriptor(ascending, descending) == [ascending |-> ascending, descending |-> descending]

\* support: [supported_filters, supported_sorts].
ValidateQuery(support, filters, sort) ==
    ValidateSearchQuery(support.supported_filters, filters)
      \cup ValidateSort(support.supported_sorts, sort)

-----------------------------------------------------------------------------
(* Identity keys *)

SearchKeyFor(ns) == IF ns \in DOMAIN IdentityAxes THEN IdentityAxes[ns] ELSE ""

\* The support table is not consulted.
IsIdentityKey(key) == \E ns \in DOMAIN IdentityAxes : IdentityAxes[ns] = key

-----------------------------------------------------------------------------
(* What the checks promise *)

\* Reference: the values a panel can build from a declaration, out of the caller's texts,
\* tokens and points.
Inversions(descriptor) == {FALSE, descriptor.exclusive}

OfferedTexts(descriptor, texts) ==
    [type : {"text"}, text : texts \ {""}, exclusive : Inversions(descriptor)]

OfferedMarks(descriptor) == [type : {"mark"}, exclusive : Inversions(descriptor)]

\* A closed axis offers its options, an inverted one where it says so, an open one any token.
OfferedSelections(descriptor, tokens) ==
    LET axis == IF DOMAIN descriptor.options = {} THEN tokens ELSE DOMAIN descriptor.options
        most == IF descriptor.single THEN 1 ELSE Cardinality(axis)
        Marked(t) == t \in DOMAIN descriptor.options => descriptor.options[t]
    IN  {s \in [type : {"selection"}, options : UNION {[T -> BOOLEAN] : T \in SUBSET axis}, single : {FALSE}] :
           /\ Cardinality(DOMAIN s.options) <= most
           /\ \A t \in DOMAIN s.options : s.options[t] => Marked(t)}

\* Ordered ends, each inside the declared one of its side.  (An end beyond the declared one of
\* the other side passes: see the README.)
OfferedIntervals(descriptor, points) ==
    LET ends == points \cup {Absent}
        Ordered(a, b) == a = Absent \/ b = Absent \/ a <= b
    IN  {i \in [type : {descriptor.type}, from : ends, to : ends, exclusive : Inversions(descriptor)] :
           Ordered(i.from, i.to) /\ Ordered(descriptor.from, i.from) /\ Ordered(i.to, descriptor.to)}

Offered(descriptor, texts, tokens, points) ==
    CASE descriptor.type = "text" -> OfferedTexts(descriptor, texts)
      [] descriptor.type = "mark" -> OfferedMarks(descriptor)
      [] descriptor.type = "selection" -> OfferedSelections(descriptor, tokens)
      [] OTHER -> OfferedIntervals(descriptor, points)

\* A filter is accepted exactly if it can be built from what is declared for its key.
AcceptsWhatIsOffered(supported, filters, texts, tokens, points) ==
    (ValidateSearchQuery(supported, filters) = {}) <=>
        \A key \in DOMAIN filters :
            /\ key \in DOMAIN supported
            /\ filters[key] \in Offered(supported[key], texts, tokens, points)

\* An id that was routed to a key is one: a source that declares the key as an open axis
\* takes any number of ids in one query, one that does not declare it refuses them loudly.
IdsReachTheirSource(supported, ns, ids) ==
    LET key == SearchKeyFor(ns)
        errors == ValidateSearchQuery(supported,
                      [k \in {key} |-> ItemSelection([id \in ids |-> FALSE], FALSE)])
    IN  key # "" =>
          /\ IsIdentityKey(key)
          /\ key \notin DOMAIN supported => errors = {SearchQueryError("UnknownKey", key)}
          /\ key \in DOMAIN supported /\ supported[key] = ItemSelection(<<>>, FALSE) => errors = {}

=============================================================================
