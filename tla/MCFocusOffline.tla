-------------------------- MODULE MCFocusOffline --------------------------
(* Constants of the model-checked instances of FocusOffline.               *)
EXTENDS FocusOffline, TLC
CONSTANTS p1, l1, l2, c1, c2, c3

\* A session is started, paused and closed.
Timeline == (c1 :> "start" @@ c2 :> "pause" @@ c3 :> "prepare")
===========================================================================
