------------------------------ MODULE Routing ------------------------------
(***************************************************************************)
(* How a URL finds its parser: what a store's snapshot declares to its     *)
(* DomainScanner, from each parser's own domains and from the catalog,     *)
(* whose mirrors and canonical origins are routable hosts as well.         *)
(* VideoExtractorStore routes extractors in the same way.                  *)
(***************************************************************************)
EXTENDS Naturals, SequencesExt

CONSTANTS
    Count,          \* parser identifiers, in their order
    LowerLabels,    \* labels as a parsed host has them
    MixedLabels,    \* ... and as they can be written in a URL
    Lower,          \* what parsing makes of each of those
    MaxDepth,       \* bound: labels of a host
    MaxListed,      \* bound: domains or URLs a list has
    StaticDomains,  \* what a parser can declare
    CatalogDomains, \* what a catalog can list under "domains"
    CatalogUrls     \* ... and under "mirrors" and "canonical_base_url", by their hosts

Parsers == 1..Count
Labels == LowerLabels \cup MixedLabels
Lists(S) == BoundedSeq(S, MaxListed)

ASSUME RoutingAssumption ==
    /\ Count \in Nat /\ MaxDepth \in Nat /\ MaxListed \in Nat
    /\ Lower \in [Labels -> LowerLabels]
    /\ \A l \in LowerLabels : Lower[l] = l
    /\ StaticDomains \cup CatalogDomains \cup CatalogUrls \subseteq BoundedSeq(Labels, MaxDepth)

VARIABLES
    entries,        \* registered identifiers, each with the domains its parser declares
    volatile,       \* per identifier: the domains of the catalog
    scanner,        \* the snapshot's tree
    listed          \* history: per identifier, the URLs the catalog in force lists

routingVars == <<entries, volatile, scanner, listed>>

\* What make_snapshot() declares, in the order of the identifiers: a parser's own
\* domains first, then the catalog's.
DeclaredBy(id, domains) == [i \in DOMAIN domains |-> [domain |-> domains[i], parser |-> id]]
Declarations(e, v) ==
    FlattenSeq([id \in Parsers |->
        IF id \in DOMAIN e THEN DeclaredBy(id, e[id]) \o DeclaredBy(id, v[id]) ELSE <<>>])

Tree == INSTANCE DomainScanner WITH NoParser <- 0

\* The declarations are added one by one.
TreeOf(declared) ==
    LET tree[n \in 0..Len(declared)] ==
          IF n = 0 THEN Tree!EmptyTree
          ELSE Tree!Added(tree[n - 1], declared[n].domain, declared[n].parser)
    IN  tree[Len(declared)]

\* A variant that takes the catalog's identifiers before the parsers'.
MakeSnapshotCatalogFirst(e, v) ==
    LET none == [id \in Parsers |-> <<>>]
        catalog == Declarations([id \in DOMAIN e |-> <<>>], v)
    IN  TreeOf(catalog \o Declarations(e, none))

\* make_snapshot(): a new tree every time.
MakeSnapshot(e, v) == TreeOf(Declarations(e, v))

RoutingTypeOK ==
    /\ entries \in UNION {[ids -> Lists(StaticDomains)] : ids \in SUBSET Parsers}
    /\ volatile \in [Parsers -> BoundedSeq(CatalogDomains \cup CatalogUrls, 2 * MaxListed + 1)]
    /\ listed \in [Parsers -> SUBSET CatalogUrls]
    /\ Tree!IsTree(scanner)
    /\ DOMAIN scanner \subseteq BoundedSeq(Labels, MaxDepth)

RoutingInit ==
    /\ entries = [id \in {} |-> <<>>]
    /\ volatile = [id \in Parsers |-> <<>>]
    /\ listed = [id \in Parsers |-> {}]
    /\ scanner = MakeSnapshot(entries, volatile)

-----------------------------------------------------------------------------

AddParser(id, domains) ==
    /\ id \notin DOMAIN entries
    /\ entries' = [i \in DOMAIN entries \cup {id} |-> IF i = id THEN domains ELSE entries[i]]
    /\ scanner' = MakeSnapshot(entries', volatile)
    /\ UNCHANGED <<volatile, listed>>

RemoveParser(id) ==
    /\ id \in DOMAIN entries
    /\ entries' = [i \in DOMAIN entries \ {id} |-> entries[i]]
    /\ scanner' = MakeSnapshot(entries', volatile)
    /\ UNCHANGED <<volatile, listed>>

\* Variant: a union that forgets the canonical origin.
UnionHostsMirrorsOnly(domains, mirrors, canonical) ==
    [id \in Parsers |-> domains[id] \o SelectSeq(mirrors[id], LAMBDA h : ~Contains(domains[id], h))]

\* What a list becomes with the hosts of URLs: one that is listed is not listed twice.
WithHosts(domains, urls) ==
    LET hosts[n \in 0..Len(urls)] ==
          IF n = 0 THEN domains
          ELSE IF Contains(hosts[n - 1], urls[n]) THEN hosts[n - 1]
          ELSE Append(hosts[n - 1], urls[n])
    IN  hosts[Len(urls)]

\* union_mirror_hosts() and union_canonical_hosts(): host_of() takes the host out of
\* the URL as it is written there.
UnionHosts(domains, mirrors, canonical) ==
    [id \in Parsers |-> WithHosts(WithHosts(domains[id], mirrors[id]), canonical[id])]

\* CatalogManager::apply as far as routing goes.
ApplyCatalog(domains, mirrors, canonical) ==
    /\ volatile' = UnionHosts(domains, mirrors, canonical)
    /\ scanner' = MakeSnapshot(entries, volatile')
    /\ listed' = [id \in Parsers |-> ToSet(mirrors[id]) \cup ToSet(canonical[id])]
    /\ UNCHANGED entries

\* CatalogManager::reset
ResetCatalog ==
    /\ volatile' = [id \in Parsers |-> <<>>]
    /\ scanner' = MakeSnapshot(entries, volatile')
    /\ listed' = [id \in Parsers |-> {}]
    /\ UNCHANGED entries

RoutingNext ==
    \/ \E id \in Parsers, domains \in Lists(StaticDomains) : AddParser(id, domains)
    \/ \E id \in Parsers : RemoveParser(id)
    \/ \E domains \in [Parsers -> Lists(CatalogDomains)],
         mirrors \in [Parsers -> Lists(CatalogUrls)],
         canonical \in [Parsers -> BoundedSeq(CatalogUrls, 1)] :
             ApplyCatalog(domains, mirrors, canonical)
    \/ ResetCatalog

RoutingSpec == RoutingInit /\ [][RoutingNext]_routingVars

-----------------------------------------------------------------------------
(* Properties *)

\* The host of a URL once it was parsed.
Parsed(host) == [i \in DOMAIN host |-> Lower[host[i]]]

\* find_for_url(): the parsers that accept the URL are those in accepts.
FindForUrl(host, accepts) == Tree!SearchAll(scanner, Parsed(host), accepts)

\* A URL goes to the parser with the longest domain its host is under, its own domains
\* and the catalog's alike, the first identifier among equals; a parser that rejects
\* the URL leaves it to the next one.  No node that was only passed through, and no
\* domain declared at the root for want of a host, hides another declaration.
RoutesByLongestDomain ==
    \A host \in BoundedSeq(LowerLabels, MaxDepth + 1), accepts \in SUBSET Parsers :
        Tree!FindsLongestMatch(scanner, Declarations(entries, volatile), host, accepts)

\* "A mirror host is also a routable host" (CatalogManager.cpp:30): a URL from a mirror
\* or a canonical origin in the catalog reaches a parser that accepts it; and so does
\* one from a domain the parser declares itself, whatever catalog is applied or reset:
\* "Each parser's static domains (from emplace_domains) are always kept".
ListedUrlsRoute ==
    \A id \in DOMAIN entries :
        /\ \A host \in listed[id] : FindForUrl(host, {id}) = id
        /\ \A host \in ToSet(entries[id]) : Parsed(host) = host => FindForUrl(host, {id}) = id

=============================================================================
