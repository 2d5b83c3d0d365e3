----------------------------- MODULE JobPromise -----------------------------
(***************************************************************************)
(* What the data-job queue promises its requesters, without workers,       *)
(* leases, attempts or time: a job's effect happens at most once, only     *)
(* while the job is open, and never after its requester asked for its      *)
(* cancellation.  DataJobQueue is shown to implement it.                   *)
(***************************************************************************)
EXTENDS Naturals

CONSTANT Jobs

VARIABLES
    standing,  \* standing[j]: where the job stands, for its requester
    applied    \* applied[j]: how often its effect happened

vars == <<standing, applied>>

\* Submission.
Submit == {<<"none", "open">>}

\* The requester's controls.
Controls == {<<"open", "paused">>, <<"paused", "open">>,
             <<"open", "cancelling">>, <<"dead", "open">>}

\* Attempts used up, permanent failure or revoked scope.
GiveUp == {<<"open", "dead">>}

\* Cancelled or expired.  A cancellation that was asked for ends nowhere else.
Close == {"open", "paused", "cancelling", "dead"} \X {"closed"}

\* Success, with the effect.
Complete == {<<"open", "done">>}

Moves == Submit \cup Controls \cup GiveUp \cup Close \cup Complete

Init ==
    /\ standing = [j \in Jobs |-> "none"]
    /\ applied = [j \in Jobs |-> 0]

\* One step may move several jobs: a recovery transaction takes a batch.
Step(j) ==
    LET move == <<standing[j], standing'[j]>> IN
    /\ standing'[j] # standing[j] => move \in Moves
    /\ applied'[j] = IF move \in Complete THEN applied[j] + 1 ELSE applied[j]

Next == \A j \in Jobs : Step(j)

Spec == Init /\ [][Next]_vars
=============================================================================
