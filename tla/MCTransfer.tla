---- MODULE MCTransfer ----
\* TLC instance of Transfer.
EXTENDS Transfer, TLC

\* For the runs without liveness.
Symmetry == Permutations(Requests)

====
