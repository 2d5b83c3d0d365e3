---------------------------- MODULE MCDataDelete ----------------------------
(* Constants of the model-checked instances of DataDelete.                 *)
EXTENDS DataDelete, TLC
CONSTANTS w1, w2, x1, i1, o1

\* A resource of one object: restored from the trash or deleted for good.
Resource == (i1 :> {o1})
=============================================================================
