--------------------------- MODULE ResourceHandle ---------------------------
(***************************************************************************)
(* What a transport may rely on of the ResourceHandle it was given, in     *)
(* terms of the blocks of one response: on_response() once, update() per   *)
(* block, final() once after the last.  A handle may keep blocks back      *)
(* between two calls; it gives them on in order and owes none at the end.  *)
(***************************************************************************)
EXTENDS Naturals, Sequences

CONSTANT MaxBlocks      \* bound: blocks of the response

VARIABLES
    state,      \* the call the transport is in, or what it may call next
    taken,      \* blocks it has passed in
    given       \* blocks written to its output, by their place in the response

vars == <<state, taken, given>>

Busy == {"updating", "finalizing"}
Over == {"ended", "failed"}

TypeOK ==
    /\ state \in {"opened", "ready"} \cup Busy \cup Over
    /\ taken \in 0..MaxBlocks
    /\ given \in Seq(1..MaxBlocks)

Init ==
    /\ state = "opened"
    /\ taken = 0
    /\ given = <<>>

OnResponse ==
    /\ state = "opened"
    /\ state' = "ready"
    /\ UNCHANGED <<taken, given>>

Update ==
    /\ state = "ready"
    /\ taken < MaxBlocks
    /\ state' = "updating"
    /\ taken' = taken + 1
    /\ UNCHANGED given

\* The next block owed, never one twice or out of turn.
Write ==
    /\ state \in Busy
    /\ Len(given) < taken
    /\ given' = Append(given, Len(given) + 1)
    /\ UNCHANGED <<state, taken>>

UpdateReturns ==
    /\ state = "updating"
    /\ state' = "ready"
    /\ UNCHANGED <<taken, given>>

Final ==
    /\ state = "ready"
    /\ state' = "finalizing"
    /\ UNCHANGED <<taken, given>>

FinalReturns ==
    /\ state = "finalizing"
    /\ Len(given) = taken
    /\ state' = "ended"
    /\ UNCHANGED <<taken, given>>

\* A call that answers an error, or a transport that gives the resource up.
Fail ==
    /\ state \notin Over
    /\ state' = "failed"
    /\ UNCHANGED <<taken, given>>

Next == OnResponse \/ Update \/ Write \/ UpdateReturns \/ Final \/ FinalReturns \/ Fail

Spec == Init /\ [][Next]_vars

=============================================================================
