------------------------------- MODULE FlagSet -------------------------------
(***************************************************************************)
(* What flags promise: named sets of positions below BitCount.             *)
(***************************************************************************)
EXTENDS Integers

CONSTANTS BitCount, Names

Positions == 0..(BitCount - 1)

VARIABLE flags          \* by name: the positions that are set

Init == flags = [n \in Names |-> {}]

Become(n, S) == flags' = [flags EXCEPT ![n] = S]

\* The ways to change one: a position, all of them, or with another one.
Next ==
    \E n, m \in Names :
        \/ \E pos \in Positions : Become(n, flags[n] \cup {pos}) \/ Become(n, flags[n] \ {pos})
        \/ Become(n, {}) \/ Become(n, Positions)
        \/ Become(n, flags[n] \cup flags[m])
        \/ Become(n, flags[n] \cap flags[m])
        \/ Become(n, (flags[n] \ flags[m]) \cup (flags[m] \ flags[n]))
        \/ Become(n, Positions \ flags[m])

Spec == Init /\ [][Next]_flags

=============================================================================
