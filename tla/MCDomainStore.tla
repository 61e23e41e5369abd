---- MODULE MCDomainStore ----
\* TLC instance of DomainStore.
EXTENDS DomainStore, TLC

\* Addresses, editors and registered values are interchangeable.
Symmetry ==
    Permutations(Addr) \cup Permutations(Editors) \cup Permutations(Values)

====
