---------------------------- MODULE MCDataExport ----------------------------
(* Constants of the model-checked instances of DataExport.                 *)
EXTENDS DataExport, TLC
CONSTANTS w1, w2, d1, d2, r1, r2
WorkersSymmetry == Permutations(Workers)
RequestsSymmetry == Permutations(Downloads) \cup Permutations(Grants)
=============================================================================
