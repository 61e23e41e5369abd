------------------------------ MODULE Registry ------------------------------
(***************************************************************************)
(* What a DomainStore promises its writers, with no snapshots, pointers or *)
(* mutex in it: an edit begins as a copy of the registry, and a commit     *)
(* succeeds only while nothing else has been published since the copy was  *)
(* taken (DomainStore.hpp:22-29).  DomainStore implements this module, and *)
(* CatalogManager is built on two instances of it.                         *)
(***************************************************************************)

CONSTANTS
    Editors,        \* threads that edit the registry
    Content,        \* everything a registry can hold
    EmptyContent    \* a registry nothing was registered in

VARIABLES
    registry,       \* what a lookup that starts now searches
    view,           \* per editor: has it a draft, and is its origin still live?
    draft           \* per editor: the content its commit would publish

vars == <<registry, view, draft>>

Views == {"none", "current", "outdated"}

TypeOK ==
    /\ registry \in Content
    /\ view \in [Editors -> Views]
    /\ draft \in [Editors -> Content]

Init ==
    /\ registry = EmptyContent
    /\ view = [e \in Editors |-> "none"]
    /\ draft = [e \in Editors |-> EmptyContent]

Begin(e) ==
    /\ view[e] = "none"
    /\ view' = [view EXCEPT ![e] = "current"]
    /\ draft' = [draft EXCEPT ![e] = registry]
    /\ UNCHANGED registry

Change(e) ==
    /\ view[e] # "none"
    /\ \E c \in Content : draft' = [draft EXCEPT ![e] = c]
    /\ UNCHANGED <<registry, view>>

\* Publishing makes every other draft taken from the old registry outdated.
Outdate(e) ==
    [x \in Editors |-> IF x = e THEN "none"
                       ELSE IF view[x] = "current" THEN "outdated" ELSE view[x]]

Commit(e) ==
    /\ view[e] = "current"
    /\ registry' = draft[e]
    /\ view' = Outdate(e)
    /\ draft' = [draft EXCEPT ![e] = EmptyContent]

\* The edit is dropped, or its commit threw: nothing is published.
Close(e) ==
    /\ view[e] # "none"
    /\ view' = [view EXCEPT ![e] = "none"]
    /\ draft' = [draft EXCEPT ![e] = EmptyContent]
    /\ UNCHANGED registry

Next == \E e \in Editors : Begin(e) \/ Change(e) \/ Commit(e) \/ Close(e)

Spec == Init /\ [][Next]_vars

=============================================================================
