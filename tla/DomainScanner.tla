--------------------------- MODULE DomainScanner ---------------------------
(***************************************************************************)
(* DomainScanner: a tree of domain labels that maps a host to the parsers  *)
(* declared for it or for a domain it is under.  A domain is the sequence  *)
(* of its labels from the top-level one down, as split_domains() yields    *)
(* it; a node is the path of labels that leads to it, <<>> being the root. *)
(* A tree is a function from its nodes to their parsers, first added first.*)
(* The stores build a tree once and only search it afterwards, with        *)
(* search_all(); the exact search and the removal have no caller.          *)
(***************************************************************************)
EXTENDS Naturals, SequencesExt

CONSTANTS
    Parsers,        \* values the tree holds
    NoParser        \* std::nullopt, none of them

IsTree(tree) ==
    /\ <<>> \in DOMAIN tree
    /\ \A node \in DOMAIN tree :
        /\ node # <<>> => Front(node) \in DOMAIN tree
        /\ tree[node] \in Seq(Parsers)

EmptyTree == [node \in {<<>>} |-> <<>>]

\* find_or_create_node(), then emplace_back.
Added(tree, domain, parser) ==
    [node \in DOMAIN tree \cup Prefixes(domain) |->
        LET old == IF node \in DOMAIN tree THEN tree[node] ELSE <<>>
        IN  IF node = domain THEN Append(old, parser) ELSE old]

\* find_parser_by_pred(): the first parser of the node the caller accepts; NoParser if
\* it accepts none.
FirstAccepted(tree, node, accepts) ==
    LET i == SelectInSeq(tree[node], LAMBDA p : p \in accepts)
    IN  IF i = 0 THEN NoParser ELSE tree[node][i]

\* find_deepest_node()
Deepest(tree, host) ==
    CHOOSE node \in Prefixes(host) \cap DOMAIN tree :
        \A other \in Prefixes(host) \cap DOMAIN tree : Len(other) <= Len(node)

\* A variant that stops at the deepest node.
SearchAllDeepestOnly(tree, host, accepts) == FirstAccepted(tree, Deepest(tree, host), accepts)

\* search_all(): from the deepest node of the host up through its parents, the root
\* included.
SearchAll(tree, host, accepts) ==
    LET walk[n \in 0..Len(host)] ==
            LET found == FirstAccepted(tree, SubSeq(host, 1, n), accepts)
            IN  IF found # NoParser \/ n = 0 THEN found ELSE walk[n - 1]
    IN  walk[Len(Deepest(tree, host))]

-----------------------------------------------------------------------------

\* What search_all() promises of a tree: a host is answered by the parser declared for
\* the longest domain it is under among those the caller accepts, the one declared first
\* among equals.
FindsLongestMatch(tree, declared, host, accepts) ==
    LET matching == {i \in DOMAIN declared :
                        declared[i].parser \in accepts /\ IsPrefix(declared[i].domain, host)}
        length(i) == Len(declared[i].domain)
        found == SearchAll(tree, host, accepts)
    IN  IF matching = {} THEN found = NoParser
        ELSE \E i \in matching :
                /\ found = declared[i].parser
                /\ \A j \in matching :
                     length(j) < length(i) \/ (length(j) = length(i) /\ i <= j)

=============================================================================
