---------------------------- MODULE Subsequences ----------------------------
(***************************************************************************)
(* What is left of a sequence when elements are removed from it: the       *)
(* loops and std::erase_if calls of the code, written as a recursive       *)
(* function so that they can be reasoned about.                            *)
(***************************************************************************)
EXTENDS Naturals, Sequences

\* The elements of s at the indexes of I, in their order.
Entries(s, I) ==
    LET taken[n \in 0..Len(s)] ==
          IF n = 0 THEN <<>>
          ELSE IF n \in I THEN Append(taken[n - 1], s[n]) ELSE taken[n - 1]
    IN  taken[Len(s)]

=============================================================================
