--------------------------- MODULE DeletionPromise ---------------------------
(***************************************************************************)
(* What deletion promises the requester, without workers, leases or        *)
(* crashes (docs/modules/data-deletion.md): a request can be undone with   *)
(* nothing lost until it is doomed; from then on files may go, and it is   *)
(* done when everything it names is gone, which the ledger records.        *)
(***************************************************************************)
EXTENDS Sequences

CONSTANTS Intents, Objects, Target

VARIABLES
    stage,   \* stage[i]: none, held, undone, doomed, done
    data,    \* data[o]: whole; bare, without its file; gone
    ledger   \* the requests that are done, in order

vars == <<stage, data, ledger>>

Open == {"held", "doomed"}

Init ==
    /\ stage = [i \in Intents |-> "none"]
    /\ data = [o \in Objects |-> "whole"]
    /\ ledger = <<>>

\* Only whole objects are taken, and no object twice.
Hold(i) ==
    /\ stage[i] = "none"
    /\ \A o \in Target[i] : data[o] = "whole"
    /\ \A j \in Intents : stage[j] \in Open => Target[i] \cap Target[j] = {}
    /\ stage' = [stage EXCEPT ![i] = "held"]
    /\ UNCHANGED <<data, ledger>>

Leave(i, s) ==
    /\ stage[i] = "held"
    /\ stage' = [stage EXCEPT ![i] = s]
    /\ UNCHANGED <<data, ledger>>

Shed(i, o) ==
    /\ stage[i] = "doomed"
    /\ o \in Target[i]
    /\ data[o] = "whole"
    /\ data' = [data EXCEPT ![o] = "bare"]
    /\ UNCHANGED <<stage, ledger>>

Finish(i) ==
    /\ stage[i] = "doomed"
    /\ \A o \in Target[i] : data[o] = "bare"
    /\ stage' = [stage EXCEPT ![i] = "done"]
    /\ data' = [o \in Objects |-> IF o \in Target[i] THEN "gone" ELSE data[o]]
    /\ ledger' = Append(ledger, i)

Next ==
    \E i \in Intents :
        \/ Hold(i) \/ Leave(i, "undone") \/ Leave(i, "doomed") \/ Finish(i)
        \/ \E o \in Objects : Shed(i, o)

Spec == Init /\ [][Next]_vars
=============================================================================
