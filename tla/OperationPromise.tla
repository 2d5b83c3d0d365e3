-------------------------- MODULE OperationPromise --------------------------
(***************************************************************************)
(* What the controlled-operation executor promises its operators, with     *)
(* leases, journals, processes and crashes left out: a request has effects *)
(* on the installation only while it is open, one request at a time, and   *)
(* the verdict it ends with tells the truth about them.                    *)
(***************************************************************************)
EXTENDS Naturals

CONSTANTS Requests, Total     \* Total[r]: effect phases of r

VARIABLES verdict, applied    \* applied[r]: effect phases that happened

vars == <<verdict, applied>>

Init ==
    /\ verdict = [r \in Requests |-> "open"]
    /\ applied = [r \in Requests |-> 0]

\* Nothing of q is half done or in doubt.
Clear(q) ==
    \/ verdict[q] = "done"
    \/ verdict[q] \in {"open", "stopped"} /\ applied[q] = 0

Apply(r) ==
    /\ verdict[r] = "open"
    /\ applied[r] < Total[r]
    /\ \A q \in Requests \ {r} : Clear(q)
    /\ applied' = [applied EXCEPT ![r] = @ + 1]
    /\ UNCHANGED verdict

Decide(r, v) ==
    /\ verdict[r] = "open"
    /\ verdict' = [verdict EXCEPT ![r] = v]
    /\ UNCHANGED applied

Succeed(r) == applied[r] = Total[r] /\ Decide(r, "done")

\* Cancelled, expired, or failed without effect.
Stop(r) == applied[r] = 0 /\ Decide(r, "stopped")

\* Only a human can tell.
GiveUp(r) == Decide(r, "uncertain")

\* A failure without effect may be tried again.
Reopen(r) ==
    /\ verdict[r] = "stopped"
    /\ verdict' = [verdict EXCEPT ![r] = "open"]
    /\ UNCHANGED applied

Next == \E r \in Requests : Apply(r) \/ Succeed(r) \/ Stop(r) \/ GiveUp(r) \/ Reopen(r)

Spec == Init /\ [][Next]_vars
=============================================================================
