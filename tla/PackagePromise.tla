--------------------------- MODULE PackagePromise ---------------------------
(***************************************************************************)
(* What a data export promises its requester, without jobs, workers, file  *)
(* names or locks: one package is offered at most once, its copy is on     *)
(* disk as long as it is offered, each grant starts at most one download,  *)
(* and only while the package is offered.  DataExport implements it.       *)
(***************************************************************************)
EXTENDS Naturals

CONSTANT Grants

VARIABLES
    stage,   \* "none", "offered", "withdrawn"
    copy,    \* the archive of the current generation is on disk
    streams  \* streams[g]: downloads that grant g has started

vars == <<stage, copy, streams>>

Init ==
    /\ stage = "none"
    /\ copy = FALSE
    /\ streams = [g \in Grants |-> 0]

\* A copy is made, or removed, while nobody relies on it.
Store ==
    /\ stage # "offered"
    /\ copy' \in BOOLEAN
    /\ UNCHANGED <<stage, streams>>

Offer ==
    /\ stage = "none"
    /\ copy
    /\ stage' = "offered"
    /\ UNCHANGED <<copy, streams>>

Withdraw ==
    /\ stage = "offered"
    /\ stage' = "withdrawn"
    /\ UNCHANGED <<copy, streams>>

Download(g) ==
    /\ stage = "offered"
    /\ streams[g] = 0
    /\ streams' = [streams EXCEPT ![g] = 1]
    /\ UNCHANGED <<stage, copy>>

Next == Store \/ Offer \/ Withdraw \/ \E g \in Grants : Download(g)

Spec == Init /\ [][Next]_vars
=============================================================================
