-------------------------- MODULE MCOperationAgent --------------------------
EXTENDS OperationAgent, TLC

CONSTANTS r1, r2

\* r1 stands for an operation of two effects and their validation, as the fixture
\* driver runs it; r2 for the least an operation with an effect consists of
\* (MAINTENANCE_HOLD without its validation).
MixedPlan == [r \in Requests |->
               IF r = r1 THEN <<"effect", "effect", "verify">> ELSE <<"effect">>]

\* An operation without effect (CHECK_RELEASE without its validation).
PlainPlan == [r \in Requests |-> <<"plain">>]
=============================================================================
