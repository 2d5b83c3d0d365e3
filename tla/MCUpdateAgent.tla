---------------------------- MODULE MCUpdateAgent ----------------------------
EXTENDS UpdateAgent, TLC

CONSTANTS r1, r2

\* r1 is an update; r2 repeats it, or takes it back, or is about the policy.
MCShapes == [r \in Requests |->
    IF r = r1 THEN {[action |-> "apply", key |-> 1]}
    ELSE {[action |-> "apply", key |-> 1], [action |-> "rollback", key |-> 2],
          [action |-> "set_auto_apply", key |-> 2], [action |-> "check", key |-> 2]}]
=============================================================================
