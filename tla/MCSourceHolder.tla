---- MODULE MCSourceHolder ----
\* TLC instance of SourceHolder.
EXTENDS SourceHolder, TLC

Symmetry == Permutations(Readers) \cup Permutations(Setters) \cup Permutations(Ids)

====
