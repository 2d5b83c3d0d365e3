--------------------------- MODULE MCDataJobQueue ---------------------------
(* Constants of the model-checked instances of DataJobQueue.               *)
EXTENDS DataJobQueue, TLC
CONSTANTS j1, j2, w1, w2
\* Every job expires when the clock of the model stops.
MCExpiresAt == [j \in Jobs |-> MaxTime]
MCMaxAttempts == [j \in Jobs |-> 2]
WorkersSymmetry == Permutations(Workers)
=============================================================================
