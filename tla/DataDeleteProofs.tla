-------------------------- MODULE DataDeleteProofs --------------------------
(***************************************************************************)
(* Proofs about DataDelete, for any requests, targets, objects, workers,   *)
(* writers and bounds.  The inductive invariant says what a row of the     *)
(* database means for the objects (IntentsInv, FencesInv, FilesInv), and   *)
(* what a worker or a writer may still rely on (WorkersInv, WritersInv).   *)
(***************************************************************************)
EXTENDS DataDelete, TLAPS

-----------------------------------------------------------------------------
(* The inductive invariant                                                 *)

\* An active request has all its objects behind its fences; a request that was
\* undone was never irreversible; a request that succeeded left no record.
IntentInv(i) ==
    /\ intent[i].state \in {"ABSENT", "CANCELLED", "RESTORED"} => ~intent[i].irreversible
    /\ Active(i) => \A o \in Target[i] : fence[o] = i /\ row[o] # 0
    /\ intent[i].state = "SUCCEEDED" => \A o \in Target[i] : row[o] = 0
    /\ intent[i].state = "ABSENT" => ~intent[i].due
    /\ intent[i].state \in {"RUNNING", "RETRY_WAIT", "FAILED"} => intent[i].due

IntentsInv == \A i \in Intents : IntentInv(i)

FenceInv(o) == fence[o] # None => o \in Target[fence[o]] /\ Active(fence[o])

FencesInv == \A o \in Objects : FenceInv(o)

\* A record without its file belongs to an irreversible request.
FileInv(o) == ~file[o] /\ row[o] # 0 => fence[o] # None /\ intent[fence[o]].irreversible

FilesInv == \A o \in Objects : FileInv(o)

\* What a worker learned from the database stays true, with or without its lease.
WorkerInv(w) ==
    LET i == worker[w].intent  o == worker[w].object IN
    /\ worker[w].phase # "poll" => i \in Intents
    /\ worker[w].phase \in {"scan", "files", "remove", "unlink", "record"} =>
        intent[i].irreversible
    /\ worker[w].phase \in {"remove", "unlink", "record"} =>
        o \in Target[i] /\ receipt[i][o] \in {"INTENT", "REMOVED"}
    /\ worker[w].phase = "record" => ~file[o]
    /\ worker[w].todo \subseteq (IF worker[w].phase = "poll" THEN {} ELSE Target[i])

WorkersInv == \A w \in Workers : WorkerInv(w)

\* A writer has an uncommitted change only of a record that no request may
\* delete before the change is committed.
WriterInv(x) ==
    LET o == writer[x].object IN
    /\ writer[x].phase = "wrote" => /\ o \in Objects
                                    /\ row[o] # 0
                                    /\ x \in Serial => o \notin writer[x].seen
                                    /\ x \notin Serial => fence[o] = None
    /\ writer[x].phase # "idle" =>
        \A i \in Intents : Active(i) /\ intent[i].due => Target[i] \subseteq writer[x].seen

WritersInv == \A x \in Writers : WriterInv(x)

IInv ==
    /\ TypeOK
    /\ IntentsInv
    /\ FencesInv
    /\ FilesInv
    /\ WorkersInv
    /\ WritersInv
    /\ FilesMatchReceipts

-----------------------------------------------------------------------------
(* Recovery of lost runs changes only the state, and only among the states   *)
(* in which a request is carried out.                                        *)

LEMMA RecoveredRows ==
  ASSUME TypeOK
  PROVE  \A k \in Intents :
            /\ Recovered[k] \in Intent
            /\ Recovered[k].due = intent[k].due
            /\ Recovered[k].version = intent[k].version
            /\ Recovered[k].attempt = intent[k].attempt
            /\ Recovered[k].irreversible = intent[k].irreversible
            /\ Recovered[k].auth = intent[k].auth
            /\ \/ Recovered[k].state = intent[k].state
               \/ /\ intent[k].state = "RUNNING"
                  /\ Recovered[k].state \in {"FAILED", "RETRY_WAIT"}
BY ZenonT(30) DEF TypeOK, Intent, States, Recovered

LEMMA IdleType == Idle \in WorkerState
BY DEF Idle, WorkerState, Executing

-----------------------------------------------------------------------------
(* Every step keeps it                                                     *)

\* The freeze puts whole records behind fences while no writer has a change pending.
LEMMA CreateKeeps ==
  ASSUME IInv, NEW i \in Intents, Create(i)
  PROVE  IInv'
<1>a. TypeOK /\ IntentsInv /\ FencesInv /\ FilesInv
      /\ WorkersInv /\ WritersInv /\ FilesMatchReceipts
  BY DEF IInv
<1>1. UNCHANGED <<receipt, row, file, ledger, epoch, worker, writer, retries, faults>>
  BY DEF Create, Freezable, FenceLockFree
<1>2. intent[i].state = "ABSENT"
  BY <1>a, ConstantsAssumption DEF TypeOK, Create, Freezable, FenceLockFree
<1>3. \A o \in Target[i] : row[o] # 0 /\ fence[o] = None
  BY <1>a, ConstantsAssumption DEF TypeOK, Create, Freezable, FenceLockFree
<1>4. \A x \in Writers : writer[x].phase # "wrote"
  BY <1>a, ConstantsAssumption DEF TypeOK, Create, Freezable, FenceLockFree
<1>5. intent' \in [Intents -> Intent]
  <2> DEFINE r == [intent[i] EXCEPT !.state = "HELD", !.auth = epoch]
  <2>0. intent[i] \in Intent
    BY <1>a, ConstantsAssumption, <1>2, <1>3, <1>4 DEF TypeOK
  <2>3. epoch \in 0..MaxEpoch
    BY <2>0, <1>a, ConstantsAssumption, <1>2, <1>3, <1>4 DEF TypeOK
  <2>1. r \in Intent
    BY <2>3, <2>0, <1>a, ConstantsAssumption, <1>2, <1>3, <1>4 DEF Intent, States
  <2>2. intent' = [intent EXCEPT ![i] = r]
    BY DEF Create, Freezable, FenceLockFree
  <2> HIDE DEF r
  <2> QED BY <2>1, <2>2, <1>a, <1>2, <1>3, <1>4 DEF TypeOK
<1>6. /\ intent'[i].state = "HELD"
      /\ intent'[i].due = intent[i].due
      /\ intent'[i].irreversible = intent[i].irreversible
      /\ \A k \in Intents : k # i => intent'[k] = intent[k]
  BY <1>a, <1>2, <1>3, <1>4 DEF TypeOK, Create, Freezable, FenceLockFree, Intent, States
<1>7. frozen' \in [Intents -> [Objects -> Nat]]
  BY <1>a, <1>2, <1>3, <1>4, ConstantsAssumption DEF TypeOK, Create, Freezable,
     FenceLockFree
<1>8. /\ \A o \in Objects : o \in Target[i] => frozen'[i][o] = row[o]
      /\ \A k \in Intents : k # i => frozen'[k] = frozen[k]
  BY <1>a, <1>2, <1>3, <1>4 DEF TypeOK, Create, Freezable, FenceLockFree
<1>9. fence' \in [Objects -> Intents \cup {None}]
  BY <1>a, <1>2, <1>3, <1>4, ConstantsAssumption DEF TypeOK, Create, Freezable,
     FenceLockFree
<1>10. \A o \in Objects : fence'[o] = IF o \in Target[i] THEN i ELSE fence[o]
  BY <1>a, <1>2, <1>3, <1>4 DEF TypeOK, Create, Freezable, FenceLockFree
<1>11. TypeOK'
  BY <1>a, <1>1, <1>5, <1>7, <1>9, <1>2, <1>3, <1>4 DEF TypeOK
<1>12. IntentsInv'
  <2> SUFFICES ASSUME NEW k \in Intents PROVE IntentInv(k)'
    BY DEF IntentsInv
  <2>1. IntentInv(k)
    BY <1>a DEF IntentsInv
  <2>2. Target[k] \subseteq Objects
    BY <1>a, ConstantsAssumption DEF TypeOK, WorkerState, WriterState
  <2>3. CASE k = i
    BY <2>3, <2>1, <2>2, <1>a, <1>1, ConstantsAssumption, <1>2, <1>3, <1>4, <1>6, <1>10
       DEF IntentInv, Active, FencesInv, FenceInv
  <2>4. CASE k # i
    BY <2>4, <2>1, <2>2, <1>a, <1>1, ConstantsAssumption, <1>2, <1>3, <1>4, <1>6, <1>10
       DEF IntentInv, Active, FencesInv, FenceInv
  <2> QED BY <2>3, <2>4
<1>13. FencesInv'
  <2> SUFFICES ASSUME NEW p \in Objects PROVE FenceInv(p)'
    BY DEF FencesInv
  <2>1. FenceInv(p)
    BY <1>a DEF FencesInv
  <2>2. fence[p] \in Intents \cup {None} /\ \A j \in Intents : Target[j] \subseteq Objects
    BY <1>a, ConstantsAssumption DEF TypeOK, WorkerState, WriterState
  <2> QED BY <2>1, <2>2, <1>a, <1>1, ConstantsAssumption, <1>2, <1>3, <1>4, <1>6, <1>10
             DEF FenceInv, Active
<1>14. FilesInv'
  <2> SUFFICES ASSUME NEW p \in Objects PROVE FileInv(p)'
    BY DEF FilesInv
  <2>1. FileInv(p)
    BY <1>a DEF FilesInv
  <2>2. /\ fence[p] \in Intents \cup {None} /\ row[p] \in Nat /\ file[p] \in BOOLEAN
        /\ \A j \in Intents : Target[j] \subseteq Objects
    BY <1>a, ConstantsAssumption DEF TypeOK, WorkerState, WriterState
  <2> QED BY <2>1, <2>2, <1>a, <1>1, ConstantsAssumption, <1>2, <1>3, <1>4, <1>6, <1>10
             DEF FileInv, FencesInv, FenceInv, Active
<1>15. WorkersInv'
  <2> SUFFICES ASSUME NEW v \in Workers PROVE WorkerInv(v)'
    BY DEF WorkersInv
  <2>1. WorkerInv(v)
    BY <1>a DEF WorkersInv
  <2>2. worker[v].intent \in Intents \cup {None} /\ worker[v].object \in Objects \cup {None}
    BY <1>a, ConstantsAssumption DEF TypeOK, WorkerState, WriterState
  <2> QED BY <2>1, <2>2, <1>a, <1>1, ConstantsAssumption, <1>2, <1>3, <1>4, <1>6
             DEF WorkerInv
<1>16. WritersInv'
  <2> SUFFICES ASSUME NEW y \in Writers PROVE WriterInv(y)'
    BY DEF WritersInv
  <2>1. WriterInv(y)
    BY <1>a DEF WritersInv
  <2>2. /\ writer[y].object \in Objects \cup {None}
        /\ \A j \in Intents : Target[j] \subseteq Objects
    BY <1>a, ConstantsAssumption DEF TypeOK, WorkerState, WriterState
  <2> QED BY <2>1, <2>2, <1>a, <1>1, ConstantsAssumption, <1>2, <1>3, <1>4, <1>6, <1>10
             DEF WriterInv, Active, IntentsInv, IntentInv
<1>17. FilesMatchReceipts'
  BY <1>a, <1>1, ConstantsAssumption, <1>2, <1>3, <1>4, <1>6 DEF FilesMatchReceipts
<1> QED BY <1>11, <1>12, <1>13, <1>14, <1>15, <1>16, <1>17 DEF IInv

\* An undone request was reversible, and its fences go with it.
LEMMA UndoKeeps ==
  ASSUME IInv, NEW i \in Intents, Undo(i)
  PROVE  IInv'
<1>a. TypeOK /\ IntentsInv /\ FencesInv /\ FilesInv
      /\ WorkersInv /\ WritersInv /\ FilesMatchReceipts
  BY DEF IInv
<1>1. UNCHANGED <<frozen, receipt, row, file, ledger, epoch, worker, writer,
                  retries, faults>>
  BY DEF Undo, Undoable, FenceLockFree, Over
<1>2. ~intent[i].irreversible
  BY <1>a, ConstantsAssumption DEF TypeOK, Undo, Undoable, FenceLockFree, Over
<1>3. intent' \in [Intents -> Intent]
  <2> DEFINE r == [intent[i] EXCEPT
                      !.state = IF i \in Trash THEN "RESTORED" ELSE "CANCELLED", !.live = FALSE]
  <2>0. intent[i] \in Intent
    BY <1>a, ConstantsAssumption, <1>2 DEF TypeOK
  <2>1. r \in Intent
    BY <2>0, <1>a, ConstantsAssumption, <1>2 DEF Intent, States
  <2>2. intent' = [intent EXCEPT ![i] = r]
    BY DEF Undo, Undoable, FenceLockFree, Over
  <2> HIDE DEF r
  <2> QED BY <2>1, <2>2, <1>a, <1>2 DEF TypeOK
<1>4. /\ intent'[i].state \in {"CANCELLED", "RESTORED"}
      /\ intent'[i].due = intent[i].due
      /\ intent'[i].irreversible = intent[i].irreversible
      /\ \A k \in Intents : k # i => intent'[k] = intent[k]
  BY <1>a, <1>2 DEF TypeOK, Undo, Undoable, FenceLockFree, Over, Intent, States
<1>5. fence' \in [Objects -> Intents \cup {None}]
  BY <1>a, <1>2, ConstantsAssumption DEF TypeOK, Undo, Undoable, FenceLockFree, Over
<1>6. \A o \in Objects : fence'[o] = IF fence[o] = i THEN None ELSE fence[o]
  BY <1>a, <1>2 DEF TypeOK, Undo, Undoable, FenceLockFree, Over
<1>7. TypeOK'
  BY <1>a, <1>1, <1>3, <1>5, <1>2 DEF TypeOK
<1>8. IntentsInv'
  <2> SUFFICES ASSUME NEW k \in Intents PROVE IntentInv(k)'
    BY DEF IntentsInv
  <2>1. IntentInv(k)
    BY <1>a DEF IntentsInv
  <2>2. Target[k] \subseteq Objects
    BY <1>a, ConstantsAssumption DEF TypeOK, WorkerState, WriterState
  <2>3. CASE k = i
    BY <2>3, <2>1, <2>2, <1>a, <1>1, ConstantsAssumption, <1>2, <1>4, <1>6 DEF IntentInv,
       Active
  <2>4. CASE k # i
    BY <2>4, <2>1, <2>2, <1>a, <1>1, ConstantsAssumption, <1>2, <1>4, <1>6 DEF IntentInv,
       Active
  <2> QED BY <2>3, <2>4
<1>9. FencesInv'
  <2> SUFFICES ASSUME NEW p \in Objects PROVE FenceInv(p)'
    BY DEF FencesInv
  <2>1. FenceInv(p)
    BY <1>a DEF FencesInv
  <2>2. fence[p] \in Intents \cup {None} /\ \A j \in Intents : Target[j] \subseteq Objects
    BY <1>a, ConstantsAssumption DEF TypeOK, WorkerState, WriterState
  <2> QED BY <2>1, <2>2, <1>a, <1>1, ConstantsAssumption, <1>2, <1>4, <1>6 DEF FenceInv,
             Active
<1>10. FilesInv'
  <2> SUFFICES ASSUME NEW p \in Objects PROVE FileInv(p)'
    BY DEF FilesInv
  <2>1. FileInv(p)
    BY <1>a DEF FilesInv
  <2>2. /\ fence[p] \in Intents \cup {None} /\ row[p] \in Nat /\ file[p] \in BOOLEAN
        /\ \A j \in Intents : Target[j] \subseteq Objects
    BY <1>a, ConstantsAssumption DEF TypeOK, WorkerState, WriterState
  <2> QED BY <2>1, <2>2, <1>a, <1>1, ConstantsAssumption, <1>2, <1>4, <1>6 DEF FileInv,
             FencesInv, FenceInv, Active
<1>11. WorkersInv'
  <2> SUFFICES ASSUME NEW v \in Workers PROVE WorkerInv(v)'
    BY DEF WorkersInv
  <2>1. WorkerInv(v)
    BY <1>a DEF WorkersInv
  <2>2. worker[v].intent \in Intents \cup {None} /\ worker[v].object \in Objects \cup {None}
    BY <1>a, ConstantsAssumption DEF TypeOK, WorkerState, WriterState
  <2> QED BY <2>1, <2>2, <1>a, <1>1, ConstantsAssumption, <1>2, <1>4 DEF WorkerInv
<1>12. WritersInv'
  <2> SUFFICES ASSUME NEW y \in Writers PROVE WriterInv(y)'
    BY DEF WritersInv
  <2>1. WriterInv(y)
    BY <1>a DEF WritersInv
  <2>2. /\ writer[y].object \in Objects \cup {None}
        /\ \A j \in Intents : Target[j] \subseteq Objects
    BY <1>a, ConstantsAssumption DEF TypeOK, WorkerState, WriterState
  <2> QED BY <2>1, <2>2, <1>a, <1>1, ConstantsAssumption, <1>2, <1>4, <1>6 DEF WriterInv,
             Active
<1>13. FilesMatchReceipts'
  BY <1>a, <1>1, ConstantsAssumption, <1>2, <1>4 DEF FilesMatchReceipts
<1> QED BY <1>7, <1>8, <1>9, <1>10, <1>11, <1>12, <1>13 DEF IInv

\* A retry starts a failed request again, with what was decided of it.
LEMMA RetryKeeps ==
  ASSUME IInv, NEW i \in Intents, Retry(i)
  PROVE  IInv'
<1>a. TypeOK /\ IntentsInv /\ FencesInv /\ FilesInv
      /\ WorkersInv /\ WritersInv /\ FilesMatchReceipts
  BY DEF IInv
<1>1. UNCHANGED <<frozen, receipt, fence, row, file, ledger, epoch, worker, writer, faults>>
  BY DEF Retry
<1>2. intent[i].state = "FAILED"
  BY <1>a, ConstantsAssumption DEF TypeOK, Retry
<1>3. intent' \in [Intents -> Intent]
  <2> DEFINE r == [intent[i] EXCEPT !.state = "RETRY_WAIT", !.attempt = 0, !.auth = epoch,
                                  !.live = FALSE]
  <2>0. intent[i] \in Intent
    BY <1>a, ConstantsAssumption, <1>2 DEF TypeOK
  <2>3. epoch \in 0..MaxEpoch /\ 0 \in 0..MaxAttempts
    BY <2>0, <1>a, ConstantsAssumption, <1>2 DEF TypeOK
  <2>1. r \in Intent
    BY <2>3, <2>0, <1>a, ConstantsAssumption, <1>2 DEF Intent, States
  <2>2. intent' = [intent EXCEPT ![i] = r]
    BY DEF Retry
  <2> HIDE DEF r
  <2> QED BY <2>1, <2>2, <1>a, <1>2 DEF TypeOK
<1>4. /\ intent'[i].state = "RETRY_WAIT"
      /\ intent'[i].due = intent[i].due
      /\ intent'[i].irreversible = intent[i].irreversible
      /\ \A k \in Intents : k # i => intent'[k] = intent[k]
  BY <1>a, <1>2 DEF TypeOK, Retry, Intent, States
<1>5. retries' \in [Intents -> Nat]
  BY <1>a, <1>2, ConstantsAssumption DEF TypeOK, Retry
<1>6. TypeOK'
  BY <1>a, <1>1, <1>3, <1>5, <1>2 DEF TypeOK
<1>7. IntentsInv'
  <2> SUFFICES ASSUME NEW k \in Intents PROVE IntentInv(k)'
    BY DEF IntentsInv
  <2>1. IntentInv(k)
    BY <1>a DEF IntentsInv
  <2>2. Target[k] \subseteq Objects
    BY <1>a, ConstantsAssumption DEF TypeOK, WorkerState, WriterState
  <2>3. CASE k = i
    BY <2>3, <2>1, <2>2, <1>a, <1>1, ConstantsAssumption, <1>2, <1>4 DEF IntentInv, Active
  <2>4. CASE k # i
    BY <2>4, <2>1, <2>2, <1>a, <1>1, ConstantsAssumption, <1>2, <1>4 DEF IntentInv, Active
  <2> QED BY <2>3, <2>4
<1>8. FencesInv'
  <2> SUFFICES ASSUME NEW p \in Objects PROVE FenceInv(p)'
    BY DEF FencesInv
  <2>1. FenceInv(p)
    BY <1>a DEF FencesInv
  <2>2. fence[p] \in Intents \cup {None} /\ \A j \in Intents : Target[j] \subseteq Objects
    BY <1>a, ConstantsAssumption DEF TypeOK, WorkerState, WriterState
  <2> QED BY <2>1, <2>2, <1>a, <1>1, ConstantsAssumption, <1>2, <1>4 DEF FenceInv, Active
<1>9. FilesInv'
  <2> SUFFICES ASSUME NEW p \in Objects PROVE FileInv(p)'
    BY DEF FilesInv
  <2>1. FileInv(p)
    BY <1>a DEF FilesInv
  <2>2. /\ fence[p] \in Intents \cup {None} /\ row[p] \in Nat /\ file[p] \in BOOLEAN
        /\ \A j \in Intents : Target[j] \subseteq Objects
    BY <1>a, ConstantsAssumption DEF TypeOK, WorkerState, WriterState
  <2> QED BY <2>1, <2>2, <1>a, <1>1, ConstantsAssumption, <1>2, <1>4 DEF FileInv
<1>10. WorkersInv'
  <2> SUFFICES ASSUME NEW v \in Workers PROVE WorkerInv(v)'
    BY DEF WorkersInv
  <2>1. WorkerInv(v)
    BY <1>a DEF WorkersInv
  <2>2. worker[v].intent \in Intents \cup {None} /\ worker[v].object \in Objects \cup {None}
    BY <1>a, ConstantsAssumption DEF TypeOK, WorkerState, WriterState
  <2> QED BY <2>1, <2>2, <1>a, <1>1, ConstantsAssumption, <1>2, <1>4 DEF WorkerInv
<1>11. WritersInv'
  <2> SUFFICES ASSUME NEW y \in Writers PROVE WriterInv(y)'
    BY DEF WritersInv
  <2>1. WriterInv(y)
    BY <1>a DEF WritersInv
  <2>2. /\ writer[y].object \in Objects \cup {None}
        /\ \A j \in Intents : Target[j] \subseteq Objects
    BY <1>a, ConstantsAssumption DEF TypeOK, WorkerState, WriterState
  <2> QED BY <2>1, <2>2, <1>a, <1>1, ConstantsAssumption, <1>2, <1>4 DEF WriterInv, Active
<1>12. FilesMatchReceipts'
  BY <1>a, <1>1, ConstantsAssumption, <1>2, <1>4 DEF FilesMatchReceipts
<1> QED BY <1>6, <1>7, <1>8, <1>9, <1>10, <1>11, <1>12 DEF IInv

\* Authorization is no part of what the rows say of the objects.
LEMMA AuthorizationChangesKeeps ==
  ASSUME IInv, AuthorizationChanges
  PROVE  IInv'
<1>a. TypeOK /\ IntentsInv /\ FencesInv /\ FilesInv
      /\ WorkersInv /\ WritersInv /\ FilesMatchReceipts
  BY DEF IInv
<1>1. UNCHANGED <<intent, frozen, receipt, fence, row, file, ledger, worker,
                  writer, retries, faults>>
  BY DEF AuthorizationChanges
<1>2. epoch' \in 0..MaxEpoch
  BY <1>a, ConstantsAssumption DEF TypeOK, AuthorizationChanges
<1>3. TypeOK'
  BY <1>a, <1>1, <1>2 DEF TypeOK
<1>4. IntentsInv'
  BY <1>a, <1>1 DEF IntentsInv, IntentInv, Active
<1>5. FencesInv'
  BY <1>a, <1>1 DEF FencesInv, FenceInv, Active
<1>6. FilesInv'
  BY <1>a, <1>1 DEF FilesInv, FileInv
<1>7. WorkersInv'
  BY <1>a, <1>1 DEF WorkersInv, WorkerInv
<1>8. WritersInv'
  BY <1>a, <1>1 DEF WritersInv, WriterInv, Active
<1>9. FilesMatchReceipts'
  BY <1>a, <1>1 DEF FilesMatchReceipts
<1> QED BY <1>3, <1>4, <1>5, <1>6, <1>7, <1>8, <1>9 DEF IInv

\* By then the transactions that began before the freeze are over.
LEMMA BecomesDueKeeps ==
  ASSUME IInv, NEW i \in Intents, BecomesDue(i)
  PROVE  IInv'
<1>a. TypeOK /\ IntentsInv /\ FencesInv /\ FilesInv
      /\ WorkersInv /\ WritersInv /\ FilesMatchReceipts
  BY DEF IInv
<1>1. UNCHANGED <<frozen, receipt, fence, row, file, ledger, epoch, worker,
                  writer, retries, faults>>
  BY DEF BecomesDue
<1>2. \A x \in Writers : writer[x].phase # "idle" => Target[i] \subseteq writer[x].seen
  BY <1>a, ConstantsAssumption DEF TypeOK, BecomesDue
<1>3. intent[i].state = "HELD"
  BY <1>a, ConstantsAssumption DEF TypeOK, BecomesDue
<1>4. intent' \in [Intents -> Intent]
  <2> DEFINE r == [intent[i] EXCEPT !.due = TRUE]
  <2>0. intent[i] \in Intent
    BY <1>a, ConstantsAssumption, <1>2, <1>3 DEF TypeOK
  <2>1. r \in Intent
    BY <2>0, <1>a, ConstantsAssumption, <1>2, <1>3 DEF Intent, States
  <2>2. intent' = [intent EXCEPT ![i] = r]
    BY DEF BecomesDue
  <2> HIDE DEF r
  <2> QED BY <2>1, <2>2, <1>a, <1>2, <1>3 DEF TypeOK
<1>5. /\ intent'[i].state = intent[i].state
      /\ intent'[i].due = TRUE
      /\ intent'[i].irreversible = intent[i].irreversible
      /\ \A k \in Intents : k # i => intent'[k] = intent[k]
  BY <1>a, <1>2, <1>3 DEF TypeOK, BecomesDue, Intent, States
<1>6. TypeOK'
  BY <1>a, <1>1, <1>4, <1>2, <1>3 DEF TypeOK
<1>7. IntentsInv'
  <2> SUFFICES ASSUME NEW k \in Intents PROVE IntentInv(k)'
    BY DEF IntentsInv
  <2>1. IntentInv(k)
    BY <1>a DEF IntentsInv
  <2>2. Target[k] \subseteq Objects
    BY <1>a, ConstantsAssumption DEF TypeOK, WorkerState, WriterState
  <2>3. CASE k = i
    BY <2>3, <2>1, <2>2, <1>a, <1>1, ConstantsAssumption, <1>2, <1>3, <1>5 DEF IntentInv,
       Active
  <2>4. CASE k # i
    BY <2>4, <2>1, <2>2, <1>a, <1>1, ConstantsAssumption, <1>2, <1>3, <1>5 DEF IntentInv,
       Active
  <2> QED BY <2>3, <2>4
<1>8. FencesInv'
  <2> SUFFICES ASSUME NEW p \in Objects PROVE FenceInv(p)'
    BY DEF FencesInv
  <2>1. FenceInv(p)
    BY <1>a DEF FencesInv
  <2>2. fence[p] \in Intents \cup {None} /\ \A j \in Intents : Target[j] \subseteq Objects
    BY <1>a, ConstantsAssumption DEF TypeOK, WorkerState, WriterState
  <2> QED BY <2>1, <2>2, <1>a, <1>1, ConstantsAssumption, <1>2, <1>3, <1>5 DEF FenceInv,
             Active
<1>9. FilesInv'
  <2> SUFFICES ASSUME NEW p \in Objects PROVE FileInv(p)'
    BY DEF FilesInv
  <2>1. FileInv(p)
    BY <1>a DEF FilesInv
  <2>2. /\ fence[p] \in Intents \cup {None} /\ row[p] \in Nat /\ file[p] \in BOOLEAN
        /\ \A j \in Intents : Target[j] \subseteq Objects
    BY <1>a, ConstantsAssumption DEF TypeOK, WorkerState, WriterState
  <2> QED BY <2>1, <2>2, <1>a, <1>1, ConstantsAssumption, <1>2, <1>3, <1>5 DEF FileInv
<1>10. WorkersInv'
  <2> SUFFICES ASSUME NEW v \in Workers PROVE WorkerInv(v)'
    BY DEF WorkersInv
  <2>1. WorkerInv(v)
    BY <1>a DEF WorkersInv
  <2>2. worker[v].intent \in Intents \cup {None} /\ worker[v].object \in Objects \cup {None}
    BY <1>a, ConstantsAssumption DEF TypeOK, WorkerState, WriterState
  <2> QED BY <2>1, <2>2, <1>a, <1>1, ConstantsAssumption, <1>2, <1>3, <1>5 DEF WorkerInv
<1>11. WritersInv'
  <2> SUFFICES ASSUME NEW y \in Writers PROVE WriterInv(y)'
    BY DEF WritersInv
  <2>1. WriterInv(y)
    BY <1>a DEF WritersInv
  <2>2. /\ writer[y].object \in Objects \cup {None}
        /\ \A j \in Intents : Target[j] \subseteq Objects
    BY <1>a, ConstantsAssumption DEF TypeOK, WorkerState, WriterState
  <2> QED BY <2>1, <2>2, <1>a, <1>1, ConstantsAssumption, <1>2, <1>3, <1>5 DEF WriterInv,
             Active
<1>12. FilesMatchReceipts'
  BY <1>a, <1>1, ConstantsAssumption, <1>2, <1>3, <1>5 DEF FilesMatchReceipts
<1> QED BY <1>6, <1>7, <1>8, <1>9, <1>10, <1>11, <1>12 DEF IInv

\* A lease that runs out changes nothing that is known of the request.
LEMMA LeaseRunsOutKeeps ==
  ASSUME IInv, NEW i \in Intents, LeaseRunsOut(i)
  PROVE  IInv'
<1>a. TypeOK /\ IntentsInv /\ FencesInv /\ FilesInv
      /\ WorkersInv /\ WritersInv /\ FilesMatchReceipts
  BY DEF IInv
<1>1. UNCHANGED <<frozen, receipt, fence, row, file, ledger, epoch, worker,
                  writer, retries, faults>>
  BY DEF LeaseRunsOut
<1>2. intent' \in [Intents -> Intent]
  <2> DEFINE r == [intent[i] EXCEPT !.live = FALSE]
  <2>0. intent[i] \in Intent
    BY <1>a, ConstantsAssumption DEF TypeOK
  <2>1. r \in Intent
    BY <2>0, <1>a, ConstantsAssumption DEF Intent, States
  <2>2. intent' = [intent EXCEPT ![i] = r]
    BY DEF LeaseRunsOut
  <2> HIDE DEF r
  <2> QED BY <2>1, <2>2, <1>a, <1>1 DEF TypeOK
<1>3. /\ intent'[i].state = intent[i].state
      /\ intent'[i].due = intent[i].due
      /\ intent'[i].irreversible = intent[i].irreversible
      /\ \A k \in Intents : k # i => intent'[k] = intent[k]
  BY <1>a DEF TypeOK, LeaseRunsOut, Intent, States
<1>4. TypeOK'
  BY <1>a, <1>1, <1>2 DEF TypeOK
<1>5. IntentsInv'
  <2> SUFFICES ASSUME NEW k \in Intents PROVE IntentInv(k)'
    BY DEF IntentsInv
  <2>1. IntentInv(k)
    BY <1>a DEF IntentsInv
  <2>2. Target[k] \subseteq Objects
    BY <1>a, ConstantsAssumption DEF TypeOK, WorkerState, WriterState
  <2>3. CASE k = i
    BY <2>3, <2>1, <2>2, <1>a, <1>1, ConstantsAssumption, <1>3 DEF IntentInv, Active
  <2>4. CASE k # i
    BY <2>4, <2>1, <2>2, <1>a, <1>1, ConstantsAssumption, <1>3 DEF IntentInv, Active
  <2> QED BY <2>3, <2>4
<1>6. FencesInv'
  <2> SUFFICES ASSUME NEW p \in Objects PROVE FenceInv(p)'
    BY DEF FencesInv
  <2>1. FenceInv(p)
    BY <1>a DEF FencesInv
  <2>2. fence[p] \in Intents \cup {None} /\ \A j \in Intents : Target[j] \subseteq Objects
    BY <1>a, ConstantsAssumption DEF TypeOK, WorkerState, WriterState
  <2> QED BY <2>1, <2>2, <1>a, <1>1, ConstantsAssumption, <1>3 DEF FenceInv, Active
<1>7. FilesInv'
  <2> SUFFICES ASSUME NEW p \in Objects PROVE FileInv(p)'
    BY DEF FilesInv
  <2>1. FileInv(p)
    BY <1>a DEF FilesInv
  <2>2. /\ fence[p] \in Intents \cup {None} /\ row[p] \in Nat /\ file[p] \in BOOLEAN
        /\ \A j \in Intents : Target[j] \subseteq Objects
    BY <1>a, ConstantsAssumption DEF TypeOK, WorkerState, WriterState
  <2> QED BY <2>1, <2>2, <1>a, <1>1, ConstantsAssumption, <1>3 DEF FileInv
<1>8. WorkersInv'
  <2> SUFFICES ASSUME NEW v \in Workers PROVE WorkerInv(v)'
    BY DEF WorkersInv
  <2>1. WorkerInv(v)
    BY <1>a DEF WorkersInv
  <2>2. worker[v].intent \in Intents \cup {None} /\ worker[v].object \in Objects \cup {None}
    BY <1>a, ConstantsAssumption DEF TypeOK, WorkerState, WriterState
  <2> QED BY <2>1, <2>2, <1>a, <1>1, ConstantsAssumption, <1>3 DEF WorkerInv
<1>9. WritersInv'
  <2> SUFFICES ASSUME NEW y \in Writers PROVE WriterInv(y)'
    BY DEF WritersInv
  <2>1. WriterInv(y)
    BY <1>a DEF WritersInv
  <2>2. /\ writer[y].object \in Objects \cup {None}
        /\ \A j \in Intents : Target[j] \subseteq Objects
    BY <1>a, ConstantsAssumption DEF TypeOK, WorkerState, WriterState
  <2> QED BY <2>1, <2>2, <1>a, <1>1, ConstantsAssumption, <1>3 DEF WriterInv, Active
<1>10. FilesMatchReceipts'
  BY <1>a, <1>1, ConstantsAssumption, <1>3 DEF FilesMatchReceipts
<1> QED BY <1>4, <1>5, <1>6, <1>7, <1>8, <1>9, <1>10 DEF IInv

\* The snapshot of a new transaction has the fences of every request that is due.
LEMMA WriterBeginsKeeps ==
  ASSUME IInv, NEW x \in Writers, WriterBegins(x)
  PROVE  IInv'
<1>a. TypeOK /\ IntentsInv /\ FencesInv /\ FilesInv
      /\ WorkersInv /\ WritersInv /\ FilesMatchReceipts
  BY DEF IInv
<1>1. UNCHANGED <<intent, frozen, receipt, fence, row, file, ledger, epoch,
                  worker, retries, faults>>
  BY DEF WriterBegins
<1>2. writer' \in [Writers -> WriterState]
  BY <1>a, ConstantsAssumption DEF TypeOK, WriterBegins, WriterState
<1>3. /\ writer'[x].phase = "open"
      /\ writer'[x].seen = {o \in Objects : fence[o] # None}
      /\ writer'[x].object = None
      /\ \A y \in Writers : y # x => writer'[y] = writer[y]
  BY <1>a DEF TypeOK, WriterBegins, WriterState
<1>4. TypeOK'
  BY <1>a, <1>1, <1>2 DEF TypeOK
<1>5. IntentsInv'
  BY <1>a, <1>1 DEF IntentsInv, IntentInv, Active
<1>6. FencesInv'
  BY <1>a, <1>1 DEF FencesInv, FenceInv, Active
<1>7. FilesInv'
  BY <1>a, <1>1 DEF FilesInv, FileInv
<1>8. WorkersInv'
  BY <1>a, <1>1 DEF WorkersInv, WorkerInv
<1>9. WritersInv'
  <2> SUFFICES ASSUME NEW y \in Writers PROVE WriterInv(y)'
    BY DEF WritersInv
  <2>1. WriterInv(y)
    BY <1>a DEF WritersInv
  <2>2. /\ writer[y].object \in Objects \cup {None}
        /\ \A j \in Intents : Target[j] \subseteq Objects
    BY <1>a, ConstantsAssumption DEF TypeOK, WorkerState, WriterState
  <2>3. CASE y = x
    BY <2>3, <2>1, <2>2, <1>a, <1>1, ConstantsAssumption, <1>3 DEF WriterInv, Active,
       IntentsInv, IntentInv
  <2>4. CASE y # x
    BY <2>4, <2>1, <2>2, <1>a, <1>1, ConstantsAssumption, <1>3 DEF WriterInv, Active,
       IntentsInv, IntentInv
  <2> QED BY <2>3, <2>4
<1>10. FilesMatchReceipts'
  BY <1>a, <1>1 DEF FilesMatchReceipts
<1> QED BY <1>4, <1>5, <1>6, <1>7, <1>8, <1>9, <1>10 DEF IInv

\* The trigger lets a change pass only for a record that it sees without a fence.
LEMMA WriterWritesKeeps ==
  ASSUME IInv, NEW x \in Writers, NEW o \in Objects, WriterWrites(x, o)
  PROVE  IInv'
<1>a. TypeOK /\ IntentsInv /\ FencesInv /\ FilesInv
      /\ WorkersInv /\ WritersInv /\ FilesMatchReceipts
  BY DEF IInv
<1>1. UNCHANGED <<intent, frozen, receipt, fence, row, file, ledger, epoch,
                  worker, retries, faults>>
  BY DEF WriterWrites, FenceSeen
<1>2. row[o] # 0
  BY <1>a, ConstantsAssumption DEF TypeOK, WriterWrites, FenceSeen, WritersInv, WriterInv,
     WriterState
<1>3. IF x \in Serial THEN o \notin writer[x].seen ELSE fence[o] = None
  BY <1>a, ConstantsAssumption DEF TypeOK, WriterWrites, FenceSeen, WritersInv, WriterInv,
     WriterState
<1>4. writer[x].phase = "open"
  BY <1>a, ConstantsAssumption DEF TypeOK, WriterWrites, FenceSeen, WritersInv, WriterInv,
     WriterState
<1>5. \A y \in Writers : writer[y].object # o
  BY <1>a, ConstantsAssumption DEF TypeOK, WriterWrites, FenceSeen, WritersInv, WriterInv,
     WriterState
<1>6. writer' \in [Writers -> WriterState]
  BY <1>a, <1>2, <1>3, <1>4, <1>5, ConstantsAssumption DEF TypeOK, WriterWrites, FenceSeen,
     WriterState
<1>7. /\ writer'[x].phase = "wrote"
      /\ writer'[x].seen = writer[x].seen
      /\ writer'[x].object = o
      /\ \A y \in Writers : y # x => writer'[y] = writer[y]
  BY <1>a, <1>2, <1>3, <1>4, <1>5 DEF TypeOK, WriterWrites, FenceSeen, WriterState
<1>8. TypeOK'
  BY <1>a, <1>1, <1>6, <1>2, <1>3, <1>4, <1>5 DEF TypeOK
<1>9. IntentsInv'
  BY <1>a, <1>1 DEF IntentsInv, IntentInv, Active
<1>10. FencesInv'
  BY <1>a, <1>1 DEF FencesInv, FenceInv, Active
<1>11. FilesInv'
  BY <1>a, <1>1 DEF FilesInv, FileInv
<1>12. WorkersInv'
  BY <1>a, <1>1 DEF WorkersInv, WorkerInv
<1>13. WritersInv'
  <2> SUFFICES ASSUME NEW y \in Writers PROVE WriterInv(y)'
    BY DEF WritersInv
  <2>1. WriterInv(y)
    BY <1>a DEF WritersInv
  <2>2. /\ writer[y].object \in Objects \cup {None}
        /\ \A j \in Intents : Target[j] \subseteq Objects
    BY <1>a, ConstantsAssumption DEF TypeOK, WorkerState, WriterState
  <2>3. CASE y = x
    BY <2>3, <2>1, <2>2, <1>a, <1>1, ConstantsAssumption, <1>2, <1>3, <1>4, <1>5, <1>7
       DEF WriterInv, Active
  <2>4. CASE y # x
    BY <2>4, <2>1, <2>2, <1>a, <1>1, ConstantsAssumption, <1>2, <1>3, <1>4, <1>5, <1>7
       DEF WriterInv, Active
  <2> QED BY <2>3, <2>4
<1>14. FilesMatchReceipts'
  BY <1>a, <1>1 DEF FilesMatchReceipts
<1> QED BY <1>8, <1>9, <1>10, <1>11, <1>12, <1>13, <1>14 DEF IInv

\* A committed change is of a record that is there.
LEMMA WriterCommitsKeeps ==
  ASSUME IInv, NEW x \in Writers, WriterCommits(x)
  PROVE  IInv'
<1>a. TypeOK /\ IntentsInv /\ FencesInv /\ FilesInv
      /\ WorkersInv /\ WritersInv /\ FilesMatchReceipts
  BY DEF IInv
<1>1. UNCHANGED <<intent, frozen, receipt, fence, file, ledger, epoch, worker,
                  retries, faults>>
  BY DEF WriterCommits, NoWriter
<1>2. writer[x].phase = "wrote"
  BY <1>a, ConstantsAssumption DEF TypeOK, WriterCommits, NoWriter, WritersInv, WriterInv,
     WriterState
<1>3. writer[x].object \in Objects
  BY <1>a, ConstantsAssumption DEF TypeOK, WriterCommits, NoWriter, WritersInv, WriterInv,
     WriterState
<1>4. row[writer[x].object] \in Nat \ {0}
  BY <1>a, ConstantsAssumption DEF TypeOK, WriterCommits, NoWriter, WritersInv, WriterInv,
     WriterState
<1>5. row' \in [Objects -> Nat]
  BY <1>a, <1>2, <1>3, <1>4, ConstantsAssumption DEF TypeOK, WriterCommits, NoWriter
<1>6. /\ row'[writer[x].object] = row[writer[x].object] + 1
      /\ \A o \in Objects : o # writer[x].object => row'[o] = row[o]
  BY <1>a, <1>2, <1>3, <1>4 DEF TypeOK, WriterCommits, NoWriter
<1>7. writer' \in [Writers -> WriterState]
  BY <1>a, <1>2, <1>3, <1>4, ConstantsAssumption DEF TypeOK, WriterCommits, NoWriter,
     WriterState
<1>8. /\ writer'[x].phase = "idle"
      /\ writer'[x].seen = {}
      /\ writer'[x].object = None
      /\ \A y \in Writers : y # x => writer'[y] = writer[y]
  BY <1>a, <1>2, <1>3, <1>4 DEF TypeOK, WriterCommits, NoWriter, WriterState
<1>9. TypeOK'
  BY <1>a, <1>1, <1>5, <1>7, <1>2, <1>3, <1>4 DEF TypeOK
<1>10. IntentsInv'
  <2> SUFFICES ASSUME NEW k \in Intents PROVE IntentInv(k)'
    BY DEF IntentsInv
  <2>1. IntentInv(k)
    BY <1>a DEF IntentsInv
  <2>2. Target[k] \subseteq Objects
    BY <1>a, ConstantsAssumption DEF TypeOK, WorkerState, WriterState
  <2> QED BY <2>1, <2>2, <1>a, <1>1, ConstantsAssumption, <1>2, <1>3, <1>4, <1>6
             DEF IntentInv, Active, WritersInv, WriterInv
<1>11. FencesInv'
  BY <1>a, <1>1 DEF FencesInv, FenceInv, Active
<1>12. FilesInv'
  <2> SUFFICES ASSUME NEW p \in Objects PROVE FileInv(p)'
    BY DEF FilesInv
  <2>1. FileInv(p)
    BY <1>a DEF FilesInv
  <2>2. /\ fence[p] \in Intents \cup {None} /\ row[p] \in Nat /\ file[p] \in BOOLEAN
        /\ \A j \in Intents : Target[j] \subseteq Objects
    BY <1>a, ConstantsAssumption DEF TypeOK, WorkerState, WriterState
  <2> QED BY <2>1, <2>2, <1>a, <1>1, ConstantsAssumption, <1>2, <1>3, <1>4, <1>6 DEF FileInv
<1>13. WorkersInv'
  BY <1>a, <1>1 DEF WorkersInv, WorkerInv
<1>14. WritersInv'
  <2> SUFFICES ASSUME NEW y \in Writers PROVE WriterInv(y)'
    BY DEF WritersInv
  <2>1. WriterInv(y)
    BY <1>a DEF WritersInv
  <2>2. /\ writer[y].object \in Objects \cup {None}
        /\ \A j \in Intents : Target[j] \subseteq Objects
    BY <1>a, ConstantsAssumption DEF TypeOK, WorkerState, WriterState
  <2>3. CASE y = x
    BY <2>3, <2>1, <2>2, <1>a, <1>1, ConstantsAssumption, <1>2, <1>3, <1>4, <1>6, <1>8
       DEF WriterInv, Active
  <2>4. CASE y # x
    BY <2>4, <2>1, <2>2, <1>a, <1>1, ConstantsAssumption, <1>2, <1>3, <1>4, <1>6, <1>8
       DEF WriterInv, Active
  <2> QED BY <2>3, <2>4
<1>15. FilesMatchReceipts'
  BY <1>a, <1>1 DEF FilesMatchReceipts
<1> QED BY <1>9, <1>10, <1>11, <1>12, <1>13, <1>14, <1>15 DEF IInv

\* A transaction that ends relies on nothing any more.
LEMMA WriterRollsBackKeeps ==
  ASSUME IInv, NEW x \in Writers, WriterRollsBack(x)
  PROVE  IInv'
<1>a. TypeOK /\ IntentsInv /\ FencesInv /\ FilesInv
      /\ WorkersInv /\ WritersInv /\ FilesMatchReceipts
  BY DEF IInv
<1>1. UNCHANGED <<intent, frozen, receipt, fence, row, file, ledger, epoch,
                  worker, retries, faults>>
  BY DEF WriterRollsBack, NoWriter
<1>2. writer' \in [Writers -> WriterState]
  BY <1>a, ConstantsAssumption DEF TypeOK, WriterRollsBack, NoWriter, WriterState
<1>3. /\ writer'[x].phase = "idle"
      /\ writer'[x].seen = {}
      /\ writer'[x].object = None
      /\ \A y \in Writers : y # x => writer'[y] = writer[y]
  BY <1>a DEF TypeOK, WriterRollsBack, NoWriter, WriterState
<1>4. TypeOK'
  BY <1>a, <1>1, <1>2 DEF TypeOK
<1>5. IntentsInv'
  BY <1>a, <1>1 DEF IntentsInv, IntentInv, Active
<1>6. FencesInv'
  BY <1>a, <1>1 DEF FencesInv, FenceInv, Active
<1>7. FilesInv'
  BY <1>a, <1>1 DEF FilesInv, FileInv
<1>8. WorkersInv'
  BY <1>a, <1>1 DEF WorkersInv, WorkerInv
<1>9. WritersInv'
  <2> SUFFICES ASSUME NEW y \in Writers PROVE WriterInv(y)'
    BY DEF WritersInv
  <2>1. WriterInv(y)
    BY <1>a DEF WritersInv
  <2>2. /\ writer[y].object \in Objects \cup {None}
        /\ \A j \in Intents : Target[j] \subseteq Objects
    BY <1>a, ConstantsAssumption DEF TypeOK, WorkerState, WriterState
  <2>3. CASE y = x
    BY <2>3, <2>1, <2>2, <1>a, <1>1, ConstantsAssumption, <1>3 DEF WriterInv, Active
  <2>4. CASE y # x
    BY <2>4, <2>1, <2>2, <1>a, <1>1, ConstantsAssumption, <1>3 DEF WriterInv, Active
  <2> QED BY <2>3, <2>4
<1>10. FilesMatchReceipts'
  BY <1>a, <1>1 DEF FilesMatchReceipts
<1> QED BY <1>4, <1>5, <1>6, <1>7, <1>8, <1>9, <1>10 DEF IInv

\* The claim takes lost runs back and starts a request that is due.
LEMMA ClaimKeeps ==
  ASSUME IInv, NEW w \in Workers, NEW i \in Intents, Claim(w, i)
  PROVE  IInv'
<1>a. TypeOK /\ IntentsInv /\ FencesInv /\ FilesInv
      /\ WorkersInv /\ WritersInv /\ FilesMatchReceipts
  BY DEF IInv
<1>1. UNCHANGED <<frozen, receipt, fence, row, file, ledger, epoch, writer,
                  retries, faults>>
  BY DEF Claim, Claimable, Idle
<1>2. intent[i].due
  BY <1>a, ConstantsAssumption, RecoveredRows DEF TypeOK, Claim, Claimable, Idle,
     WorkersInv, WorkerInv, WorkerState, Active
<1>3. Active(i)
  BY <1>a, ConstantsAssumption, RecoveredRows DEF TypeOK, Claim, Claimable, Idle,
     WorkersInv, WorkerInv, WorkerState, Active
<1>4. intent' \in [Intents -> Intent]
  <2> DEFINE r == [Recovered[i] EXCEPT !.state = "RUNNING", !.live = TRUE,
                                     !.version = @ + 1, !.attempt = @ + 1]
  <2>0. Recovered[i] \in Intent
    BY <1>a, ConstantsAssumption, <1>2, <1>3, RecoveredRows DEF TypeOK
  <2>3. /\ Recovered[i].attempt + 1 \in 0..MaxAttempts
       /\ Recovered[i].version + 1 \in Nat
    BY <2>0, <1>a, ConstantsAssumption, <1>2, <1>3, RecoveredRows DEF Claim, Claimable,
       Intent
  <2>1. r \in Intent
    BY <2>3, <2>0, <1>a, ConstantsAssumption, <1>2, <1>3, RecoveredRows DEF Intent, States,
       Idle
  <2>2. intent' = [Recovered EXCEPT ![i] = r]
    BY DEF Claim, Claimable, Idle
  <2> HIDE DEF r
  <2> QED BY <2>1, <2>2, <1>a, <1>2, <1>3, RecoveredRows DEF TypeOK, Recovered
<1>5. /\ intent'[i].state = "RUNNING"
      /\ intent'[i].due = intent[i].due
      /\ intent'[i].irreversible = intent[i].irreversible
      /\ \A k \in Intents : k # i => intent'[k] = Recovered[k]
  <2>1. Recovered \in [Intents -> Intent]
    BY <1>a, RecoveredRows DEF Recovered
  <2> QED BY <1>a, <2>1, RecoveredRows DEF Claim, Intent
<1>6. worker' \in [Workers -> WorkerState]
  <2> DEFINE r == [Idle EXCEPT !.phase = "prepare", !.intent = i,
                             !.version = Recovered[i].version + 1]
  <2>0. Recovered[i] \in Intent
    BY <1>a, ConstantsAssumption, <1>2, <1>3, RecoveredRows DEF TypeOK
  <2>3. Recovered[i].version + 1 \in Nat
    BY <2>0, <1>a, ConstantsAssumption, <1>2, <1>3, RecoveredRows DEF Intent
  <2>1. r \in WorkerState
    BY <2>3, <2>0, <1>a, ConstantsAssumption, <1>2, <1>3, RecoveredRows DEF WorkerState,
       Executing, Idle
  <2>2. worker' = [worker EXCEPT ![w] = r]
    BY DEF Claim, Claimable, Idle
  <2> HIDE DEF r
  <2> QED BY <2>1, <2>2, <1>a, <1>2, <1>3, RecoveredRows DEF TypeOK
<1>7. /\ worker'[w].phase = "prepare"
      /\ worker'[w].intent = i
      /\ worker'[w].todo = {}
      /\ worker'[w].object = None
      /\ worker'[w].locked = FALSE
      /\ \A v \in Workers : v # w => worker'[v] = worker[v]
  BY <1>a, <1>2, <1>3 DEF TypeOK, Claim, Claimable, Idle, WorkerState, Executing
<1>8. TypeOK'
  BY <1>a, <1>1, <1>4, <1>6, <1>7, <1>2, <1>3 DEF TypeOK
<1>9. IntentsInv'
  <2> SUFFICES ASSUME NEW k \in Intents PROVE IntentInv(k)'
    BY DEF IntentsInv
  <2>1. IntentInv(k)
    BY <1>a DEF IntentsInv
  <2>2. Target[k] \subseteq Objects
    BY <1>a, ConstantsAssumption DEF TypeOK, WorkerState, WriterState
  <2>3. CASE k = i
    BY <2>3, <2>1, <2>2, <1>a, <1>1, ConstantsAssumption, <1>2, <1>3, <1>5, RecoveredRows
       DEF IntentInv, Active
  <2>4. CASE k # i
    BY <2>4, <2>1, <2>2, <1>a, <1>1, ConstantsAssumption, <1>2, <1>3, <1>5, RecoveredRows
       DEF IntentInv, Active
  <2> QED BY <2>3, <2>4
<1>10. FencesInv'
  <2> SUFFICES ASSUME NEW p \in Objects PROVE FenceInv(p)'
    BY DEF FencesInv
  <2>1. FenceInv(p)
    BY <1>a DEF FencesInv
  <2>2. fence[p] \in Intents \cup {None} /\ \A j \in Intents : Target[j] \subseteq Objects
    BY <1>a, ConstantsAssumption DEF TypeOK, WorkerState, WriterState
  <2> QED BY <2>1, <2>2, <1>a, <1>1, ConstantsAssumption, <1>2, <1>3, <1>5, RecoveredRows
             DEF FenceInv, Active
<1>11. FilesInv'
  <2> SUFFICES ASSUME NEW p \in Objects PROVE FileInv(p)'
    BY DEF FilesInv
  <2>1. FileInv(p)
    BY <1>a DEF FilesInv
  <2>2. /\ fence[p] \in Intents \cup {None} /\ row[p] \in Nat /\ file[p] \in BOOLEAN
        /\ \A j \in Intents : Target[j] \subseteq Objects
    BY <1>a, ConstantsAssumption DEF TypeOK, WorkerState, WriterState
  <2> QED BY <2>1, <2>2, <1>a, <1>1, ConstantsAssumption, <1>2, <1>3, <1>5, RecoveredRows
             DEF FileInv
<1>12. WorkersInv'
  <2> SUFFICES ASSUME NEW v \in Workers PROVE WorkerInv(v)'
    BY DEF WorkersInv
  <2>1. WorkerInv(v)
    BY <1>a DEF WorkersInv
  <2>2. worker[v].intent \in Intents \cup {None} /\ worker[v].object \in Objects \cup {None}
    BY <1>a, ConstantsAssumption DEF TypeOK, WorkerState, WriterState
  <2>3. CASE v = w
    BY <2>3, <2>1, <2>2, <1>a, <1>1, ConstantsAssumption, <1>2, <1>3, <1>5, <1>7,
       RecoveredRows DEF WorkerInv
  <2>4. CASE v # w
    BY <2>4, <2>1, <2>2, <1>a, <1>1, ConstantsAssumption, <1>2, <1>3, <1>5, <1>7,
       RecoveredRows DEF WorkerInv
  <2> QED BY <2>3, <2>4
<1>13. WritersInv'
  <2> SUFFICES ASSUME NEW y \in Writers PROVE WriterInv(y)'
    BY DEF WritersInv
  <2>1. WriterInv(y)
    BY <1>a DEF WritersInv
  <2>2. /\ writer[y].object \in Objects \cup {None}
        /\ \A j \in Intents : Target[j] \subseteq Objects
    BY <1>a, ConstantsAssumption DEF TypeOK, WorkerState, WriterState
  <2> QED BY <2>1, <2>2, <1>a, <1>1, ConstantsAssumption, <1>2, <1>3, <1>5, RecoveredRows
             DEF WriterInv, Active
<1>14. FilesMatchReceipts'
  BY <1>a, <1>1, ConstantsAssumption, <1>2, <1>3, <1>5, RecoveredRows DEF FilesMatchReceipts
<1> QED BY <1>8, <1>9, <1>10, <1>11, <1>12, <1>13, <1>14 DEF IInv

\* Taking lost runs back leaves them active and due.
LEMMA RecoverOnlyKeeps ==
  ASSUME IInv, NEW w \in Workers, RecoverOnly(w)
  PROVE  IInv'
<1>a. TypeOK /\ IntentsInv /\ FencesInv /\ FilesInv
      /\ WorkersInv /\ WritersInv /\ FilesMatchReceipts
  BY DEF IInv
<1>1. UNCHANGED <<frozen, receipt, fence, row, file, ledger, epoch, worker,
                  writer, retries, faults>>
  BY DEF RecoverOnly
<1>2. intent' \in [Intents -> Intent]
  <2>1. intent' = Recovered
    BY DEF RecoverOnly
  <2> QED BY <2>1, <1>a, RecoveredRows DEF Recovered
<1>3. \A k \in Intents : intent'[k] = Recovered[k]
  BY <1>a, RecoveredRows DEF TypeOK, RecoverOnly, Intent, States
<1>4. TypeOK'
  BY <1>a, <1>1, <1>2 DEF TypeOK
<1>5. IntentsInv'
  <2> SUFFICES ASSUME NEW k \in Intents PROVE IntentInv(k)'
    BY DEF IntentsInv
  <2>1. IntentInv(k)
    BY <1>a DEF IntentsInv
  <2>2. Target[k] \subseteq Objects
    BY <1>a, ConstantsAssumption DEF TypeOK, WorkerState, WriterState
  <2> QED BY <2>1, <2>2, <1>a, <1>1, ConstantsAssumption, <1>3, RecoveredRows DEF IntentInv,
             Active
<1>6. FencesInv'
  <2> SUFFICES ASSUME NEW p \in Objects PROVE FenceInv(p)'
    BY DEF FencesInv
  <2>1. FenceInv(p)
    BY <1>a DEF FencesInv
  <2>2. fence[p] \in Intents \cup {None} /\ \A j \in Intents : Target[j] \subseteq Objects
    BY <1>a, ConstantsAssumption DEF TypeOK, WorkerState, WriterState
  <2> QED BY <2>1, <2>2, <1>a, <1>1, ConstantsAssumption, <1>3, RecoveredRows DEF FenceInv,
             Active
<1>7. FilesInv'
  <2> SUFFICES ASSUME NEW p \in Objects PROVE FileInv(p)'
    BY DEF FilesInv
  <2>1. FileInv(p)
    BY <1>a DEF FilesInv
  <2>2. /\ fence[p] \in Intents \cup {None} /\ row[p] \in Nat /\ file[p] \in BOOLEAN
        /\ \A j \in Intents : Target[j] \subseteq Objects
    BY <1>a, ConstantsAssumption DEF TypeOK, WorkerState, WriterState
  <2> QED BY <2>1, <2>2, <1>a, <1>1, ConstantsAssumption, <1>3, RecoveredRows DEF FileInv
<1>8. WorkersInv'
  <2> SUFFICES ASSUME NEW v \in Workers PROVE WorkerInv(v)'
    BY DEF WorkersInv
  <2>1. WorkerInv(v)
    BY <1>a DEF WorkersInv
  <2>2. worker[v].intent \in Intents \cup {None} /\ worker[v].object \in Objects \cup {None}
    BY <1>a, ConstantsAssumption DEF TypeOK, WorkerState, WriterState
  <2>3. CASE v = w
    BY <2>3, <2>1, <2>2, <1>a, <1>1, ConstantsAssumption, <1>3, RecoveredRows DEF WorkerInv
  <2>4. CASE v # w
    BY <2>4, <2>1, <2>2, <1>a, <1>1, ConstantsAssumption, <1>3, RecoveredRows DEF WorkerInv
  <2> QED BY <2>3, <2>4
<1>9. WritersInv'
  <2> SUFFICES ASSUME NEW y \in Writers PROVE WriterInv(y)'
    BY DEF WritersInv
  <2>1. WriterInv(y)
    BY <1>a DEF WritersInv
  <2>2. /\ writer[y].object \in Objects \cup {None}
        /\ \A j \in Intents : Target[j] \subseteq Objects
    BY <1>a, ConstantsAssumption DEF TypeOK, WorkerState, WriterState
  <2> QED BY <2>1, <2>2, <1>a, <1>1, ConstantsAssumption, <1>3, RecoveredRows DEF WriterInv,
             Active
<1>10. FilesMatchReceipts'
  BY <1>a, <1>1, ConstantsAssumption, <1>3, RecoveredRows DEF FilesMatchReceipts
<1> QED BY <1>4, <1>5, <1>6, <1>7, <1>8, <1>9, <1>10 DEF IInv

\* The mark of irreversibility is set once, with the files registered.
LEMMA PrepareKeeps ==
  ASSUME IInv, NEW w \in Workers, Prepare(w)
  PROVE  IInv'
<1>a. TypeOK /\ IntentsInv /\ FencesInv /\ FilesInv
      /\ WorkersInv /\ WritersInv /\ FilesMatchReceipts
  BY DEF IInv
<1>1. UNCHANGED <<frozen, fence, row, file, ledger, epoch, writer, retries, faults>>
  BY DEF Prepare, LocksLease, HoldsLease, Goto, PlanHolds, SameItems
<1>2. worker[w].intent \in Intents
  BY <1>a, ConstantsAssumption DEF TypeOK, Prepare, LocksLease, HoldsLease, Goto, PlanHolds,
     SameItems, WorkersInv, WorkerInv, WorkerState
<1>3. intent[worker[w].intent].state = "RUNNING"
  BY <1>a, ConstantsAssumption DEF TypeOK, Prepare, LocksLease, HoldsLease, Goto, PlanHolds,
     SameItems, WorkersInv, WorkerInv, WorkerState
<1>4. \A o \in Target[worker[w].intent] : fence[o] = worker[w].intent
  BY <1>a, ConstantsAssumption DEF TypeOK, Prepare, LocksLease, HoldsLease, Goto, PlanHolds,
     SameItems, WorkersInv, WorkerInv, WorkerState
<1>5. worker[w].phase = "prepare"
  BY <1>a, ConstantsAssumption DEF TypeOK, Prepare, LocksLease, HoldsLease, Goto, PlanHolds,
     SameItems, WorkersInv, WorkerInv, WorkerState
<1>6. ~intent[worker[w].intent].irreversible => \A o \in Target[worker[w].intent] : file[o]
  BY <1>a, ConstantsAssumption DEF TypeOK, Prepare, LocksLease, HoldsLease, Goto, PlanHolds,
     SameItems, WorkersInv, WorkerInv, WorkerState
<1>7. intent' \in [Intents -> Intent]
  <2> DEFINE r == [intent[worker[w].intent] EXCEPT !.irreversible = TRUE, !.live = TRUE]
  <2>0. intent[worker[w].intent] \in Intent
    BY <1>a, ConstantsAssumption, <1>2, <1>3, <1>4, <1>5, <1>6 DEF TypeOK
  <2>1. r \in Intent
    BY <2>0, <1>a, ConstantsAssumption, <1>2, <1>3, <1>4, <1>5, <1>6 DEF Intent, States
  <2>2. intent' = [intent EXCEPT ![worker[w].intent] = r]
    BY DEF Prepare, LocksLease, HoldsLease, Goto, PlanHolds, SameItems
  <2> HIDE DEF r
  <2> QED BY <2>1, <2>2, <1>a, <1>2, <1>3, <1>4, <1>5, <1>6 DEF TypeOK
<1>8. /\ intent'[worker[w].intent].state = intent[worker[w].intent].state
      /\ intent'[worker[w].intent].due = intent[worker[w].intent].due
      /\ intent'[worker[w].intent].irreversible = TRUE
      /\ \A k \in Intents : k # worker[w].intent => intent'[k] = intent[k]
  BY <1>a, <1>2, <1>3, <1>4, <1>5, <1>6 DEF TypeOK, Prepare, LocksLease, HoldsLease, Goto,
     PlanHolds, SameItems, Intent, States
<1>9. receipt' \in [Intents -> [Objects -> {"none", "PENDING", "INTENT", "REMOVED"}]]
  BY <1>a, <1>2, <1>3, <1>4, <1>5, <1>6, ConstantsAssumption DEF TypeOK, Prepare,
     LocksLease, HoldsLease, Goto, PlanHolds, SameItems
<1>10. /\ \A k \in Intents : k # worker[w].intent => receipt'[k] = receipt[k]
       /\ intent[worker[w].intent].irreversible => receipt' = receipt
       /\ ~intent[worker[w].intent].irreversible => \A o \in Objects : receipt'[worker[w].intent][o] = IF o \in Target[worker[w].intent] THEN "PENDING" ELSE "none"
  BY <1>a, <1>2, <1>3, <1>4, <1>5, <1>6 DEF TypeOK, Prepare, LocksLease, HoldsLease, Goto,
     PlanHolds, SameItems
<1>11. worker' \in [Workers -> WorkerState]
  <2> DEFINE r == [worker[w] EXCEPT !.phase = "scan"]
  <2>0. worker[w] \in WorkerState
    BY <1>a, ConstantsAssumption, <1>2, <1>3, <1>4, <1>5, <1>6 DEF TypeOK
  <2>1. r \in WorkerState
    BY <2>0, <1>a, ConstantsAssumption, <1>2, <1>3, <1>4, <1>5, <1>6 DEF WorkerState,
       Executing
  <2>2. worker' = [worker EXCEPT ![w] = r]
    BY DEF Prepare, LocksLease, HoldsLease, Goto, PlanHolds, SameItems
  <2> HIDE DEF r
  <2> QED BY <2>1, <2>2, <1>a, <1>2, <1>3, <1>4, <1>5, <1>6 DEF TypeOK
<1>12. /\ worker'[w].phase = "scan"
       /\ worker'[w].intent = worker[w].intent
       /\ worker'[w].todo = worker[w].todo
       /\ worker'[w].object = worker[w].object
       /\ worker'[w].locked = worker[w].locked
       /\ \A v \in Workers : v # w => worker'[v] = worker[v]
  BY <1>a, <1>2, <1>3, <1>4, <1>5, <1>6 DEF TypeOK, Prepare, LocksLease, HoldsLease, Goto,
     PlanHolds, SameItems, WorkerState, Executing
<1>13. TypeOK'
  BY <1>a, <1>1, <1>7, <1>9, <1>11, <1>12, <1>2, <1>3, <1>4, <1>5, <1>6 DEF TypeOK
<1>14. IntentsInv'
  <2> SUFFICES ASSUME NEW k \in Intents PROVE IntentInv(k)'
    BY DEF IntentsInv
  <2>1. IntentInv(k)
    BY <1>a DEF IntentsInv
  <2>2. Target[k] \subseteq Objects
    BY <1>a, ConstantsAssumption DEF TypeOK, WorkerState, WriterState
  <2>3. CASE k = worker[w].intent
    BY <2>3, <2>1, <2>2, <1>a, <1>1, ConstantsAssumption, <1>2, <1>3, <1>4, <1>5, <1>6, <1>8
       DEF IntentInv, Active
  <2>4. CASE k # worker[w].intent
    BY <2>4, <2>1, <2>2, <1>a, <1>1, ConstantsAssumption, <1>2, <1>3, <1>4, <1>5, <1>6, <1>8
       DEF IntentInv, Active
  <2> QED BY <2>3, <2>4
<1>15. FencesInv'
  <2> SUFFICES ASSUME NEW p \in Objects PROVE FenceInv(p)'
    BY DEF FencesInv
  <2>1. FenceInv(p)
    BY <1>a DEF FencesInv
  <2>2. fence[p] \in Intents \cup {None} /\ \A j \in Intents : Target[j] \subseteq Objects
    BY <1>a, ConstantsAssumption DEF TypeOK, WorkerState, WriterState
  <2> QED BY <2>1, <2>2, <1>a, <1>1, ConstantsAssumption, <1>2, <1>3, <1>4, <1>5, <1>6, <1>8
             DEF FenceInv, Active
<1>16. FilesInv'
  <2> SUFFICES ASSUME NEW p \in Objects PROVE FileInv(p)'
    BY DEF FilesInv
  <2>1. FileInv(p)
    BY <1>a DEF FilesInv
  <2>2. /\ fence[p] \in Intents \cup {None} /\ row[p] \in Nat /\ file[p] \in BOOLEAN
        /\ \A j \in Intents : Target[j] \subseteq Objects
    BY <1>a, ConstantsAssumption DEF TypeOK, WorkerState, WriterState
  <2> QED BY <2>1, <2>2, <1>a, <1>1, ConstantsAssumption, <1>2, <1>3, <1>4, <1>5, <1>6, <1>8
             DEF FileInv
<1>17. WorkersInv'
  <2> SUFFICES ASSUME NEW v \in Workers PROVE WorkerInv(v)'
    BY DEF WorkersInv
  <2>1. WorkerInv(v)
    BY <1>a DEF WorkersInv
  <2>2. worker[v].intent \in Intents \cup {None} /\ worker[v].object \in Objects \cup {None}
    BY <1>a, ConstantsAssumption DEF TypeOK, WorkerState, WriterState
  <2>3. CASE v = w
    BY <2>3, <2>1, <2>2, <1>a, <1>1, ConstantsAssumption, <1>2, <1>3, <1>4, <1>5, <1>6,
       <1>8, <1>10, <1>12 DEF WorkerInv
  <2>4. CASE v # w /\ intent[worker[w].intent].irreversible
    BY <2>4, <2>1, <2>2, <1>a, <1>1, ConstantsAssumption, <1>2, <1>3, <1>4, <1>5, <1>6,
       <1>8, <1>10, <1>12 DEF WorkerInv
  <2>5. CASE v # w /\ ~intent[worker[w].intent].irreversible
    <3>1. worker[v].intent = worker[w].intent => worker[v].phase \notin {"scan", "files", "remove", "unlink", "record"}
      BY <2>5, <2>1 DEF WorkerInv
    <3>2. worker'[v] = worker[v]
      BY <2>5, <1>12
    <3> QED BY <3>1, <3>2, <2>5, <2>1, <2>2, <1>a, <1>1, ConstantsAssumption, <1>2, <1>3,
               <1>4, <1>5, <1>6, <1>8, <1>10, <1>12 DEF WorkerInv
  <2> QED BY <2>3, <2>4, <2>5
<1>18. WritersInv'
  <2> SUFFICES ASSUME NEW y \in Writers PROVE WriterInv(y)'
    BY DEF WritersInv
  <2>1. WriterInv(y)
    BY <1>a DEF WritersInv
  <2>2. /\ writer[y].object \in Objects \cup {None}
        /\ \A j \in Intents : Target[j] \subseteq Objects
    BY <1>a, ConstantsAssumption DEF TypeOK, WorkerState, WriterState
  <2> QED BY <2>1, <2>2, <1>a, <1>1, ConstantsAssumption, <1>2, <1>3, <1>4, <1>5, <1>6, <1>8
             DEF WriterInv, Active
<1>19. FilesMatchReceipts'
  <2>1. CASE intent[worker[w].intent].irreversible
    BY <2>1, <1>a, <1>1, ConstantsAssumption, <1>2, <1>3, <1>4, <1>5, <1>6, <1>8, <1>10
       DEF FilesMatchReceipts
  <2>2. CASE ~intent[worker[w].intent].irreversible
    <3> SUFFICES ASSUME NEW p \in Objects
                 PROVE  /\ ~file[p] => \E k \in Intents : /\ intent'[k].irreversible
                                                          /\ receipt'[k][p] \in {"INTENT", "REMOVED"}
                        /\ file[p] => \A k \in Intents : receipt'[k][p] # "REMOVED"
      BY <1>1 DEF FilesMatchReceipts
    <3>1. ASSUME ~file[p]
          PROVE  \E k \in Intents : /\ intent'[k].irreversible
                                     /\ receipt'[k][p] \in {"INTENT", "REMOVED"}
      BY <3>1, <2>2, <1>a, <1>1, ConstantsAssumption, <1>2, <1>3, <1>4, <1>5, <1>6, <1>8,
         <1>10 DEF FilesMatchReceipts
    <3>2. ASSUME file[p], NEW k \in Intents PROVE receipt'[k][p] # "REMOVED"
      <4>1. CASE k = worker[w].intent
        BY <4>1, <2>2, <1>10
      <4>2. CASE k # worker[w].intent
        BY <4>2, <3>2, <1>a, <1>10 DEF FilesMatchReceipts
      <4> QED BY <4>1, <4>2
    <3> QED BY <3>1, <3>2
  <2> QED BY <2>1, <2>2
<1> QED BY <1>13, <1>14, <1>15, <1>16, <1>17, <1>18, <1>19 DEF IInv

\* The files still to remove are files of the plan.
LEMMA ScanKeeps ==
  ASSUME IInv, NEW w \in Workers, Scan(w)
  PROVE  IInv'
<1>a. TypeOK /\ IntentsInv /\ FencesInv /\ FilesInv
      /\ WorkersInv /\ WritersInv /\ FilesMatchReceipts
  BY DEF IInv
<1>1. UNCHANGED <<intent, frozen, receipt, fence, row, file, ledger, epoch,
                  writer, retries, faults>>
  BY DEF Scan
<1>2. worker[w].phase = "scan"
  BY <1>a, ConstantsAssumption DEF TypeOK, Scan, WorkersInv, WorkerInv, WorkerState
<1>3. worker[w].intent \in Intents
  BY <1>a, ConstantsAssumption DEF TypeOK, Scan, WorkersInv, WorkerInv, WorkerState
<1>4. worker' \in [Workers -> WorkerState]
  <2> DEFINE r == [worker[w] EXCEPT !.phase = "files",
                     !.todo = {o \in Target[worker[w].intent] :
                                    receipt[worker[w].intent][o] # "REMOVED"}]
  <2>0. worker[w] \in WorkerState
    BY <1>a, ConstantsAssumption, <1>2, <1>3 DEF TypeOK
  <2>3. {o \in Target[worker[w].intent] :
          receipt[worker[w].intent][o] # "REMOVED"} \in SUBSET Objects
    BY <2>0, <1>a, ConstantsAssumption, <1>2, <1>3 DEF TypeOK
  <2>1. r \in WorkerState
    BY <2>3, <2>0, <1>a, ConstantsAssumption, <1>2, <1>3 DEF WorkerState, Executing
  <2>2. worker' = [worker EXCEPT ![w] = r]
    BY DEF Scan
  <2> HIDE DEF r
  <2> QED BY <2>1, <2>2, <1>a, <1>2, <1>3 DEF TypeOK
<1>5. /\ worker'[w].phase = "files"
      /\ worker'[w].intent = worker[w].intent
      /\ worker'[w].todo = {o \in Target[worker[w].intent] : receipt[worker[w].intent][o] # "REMOVED"}
      /\ worker'[w].object = worker[w].object
      /\ worker'[w].locked = worker[w].locked
      /\ \A v \in Workers : v # w => worker'[v] = worker[v]
  BY <1>a, <1>2, <1>3 DEF TypeOK, Scan, WorkerState, Executing
<1>6. TypeOK'
  BY <1>a, <1>1, <1>4, <1>5, <1>2, <1>3 DEF TypeOK
<1>7. IntentsInv'
  BY <1>a, <1>1 DEF IntentsInv, IntentInv, Active
<1>8. FencesInv'
  BY <1>a, <1>1 DEF FencesInv, FenceInv, Active
<1>9. FilesInv'
  BY <1>a, <1>1 DEF FilesInv, FileInv
<1>10. WorkersInv'
  <2> SUFFICES ASSUME NEW v \in Workers PROVE WorkerInv(v)'
    BY DEF WorkersInv
  <2>1. WorkerInv(v)
    BY <1>a DEF WorkersInv
  <2>2. worker[v].intent \in Intents \cup {None} /\ worker[v].object \in Objects \cup {None}
    BY <1>a, ConstantsAssumption DEF TypeOK, WorkerState, WriterState
  <2>3. CASE v = w
    BY <2>3, <2>1, <2>2, <1>a, <1>1, ConstantsAssumption, <1>2, <1>3, <1>5 DEF WorkerInv
  <2>4. CASE v # w
    BY <2>4, <2>1, <2>2, <1>a, <1>1, ConstantsAssumption, <1>2, <1>3, <1>5 DEF WorkerInv
  <2> QED BY <2>3, <2>4
<1>11. WritersInv'
  BY <1>a, <1>1 DEF WritersInv, WriterInv, Active
<1>12. FilesMatchReceipts'
  BY <1>a, <1>1 DEF FilesMatchReceipts
<1> QED BY <1>6, <1>7, <1>8, <1>9, <1>10, <1>11, <1>12 DEF IInv

\* The removal is announced before the file is touched.
LEMMA FileIntentKeeps ==
  ASSUME IInv, NEW w \in Workers, NEW o \in Objects, FileIntent(w, o)
  PROVE  IInv'
<1>a. TypeOK /\ IntentsInv /\ FencesInv /\ FilesInv
      /\ WorkersInv /\ WritersInv /\ FilesMatchReceipts
  BY DEF IInv
<1>1. UNCHANGED <<frozen, fence, row, file, ledger, epoch, writer, retries, faults>>
  BY DEF FileIntent, LocksLease, HoldsLease
<1>2. worker[w].intent \in Intents
  BY <1>a, ConstantsAssumption DEF TypeOK, FileIntent, LocksLease, HoldsLease, WorkersInv,
     WorkerInv, WorkerState
<1>3. o \in worker[w].todo
  BY <1>a, ConstantsAssumption DEF TypeOK, FileIntent, LocksLease, HoldsLease, WorkersInv,
     WorkerInv, WorkerState
<1>4. worker[w].phase = "files"
  BY <1>a, ConstantsAssumption DEF TypeOK, FileIntent, LocksLease, HoldsLease, WorkersInv,
     WorkerInv, WorkerState
<1>5. intent' \in [Intents -> Intent]
  <2> DEFINE r == [intent[worker[w].intent] EXCEPT !.live = TRUE]
  <2>0. intent[worker[w].intent] \in Intent
    BY <1>a, ConstantsAssumption, <1>2, <1>3, <1>4 DEF TypeOK
  <2>1. r \in Intent
    BY <2>0, <1>a, ConstantsAssumption, <1>2, <1>3, <1>4 DEF Intent, States
  <2>2. intent' = [intent EXCEPT ![worker[w].intent] = r]
    BY DEF FileIntent, LocksLease, HoldsLease
  <2> HIDE DEF r
  <2> QED BY <2>1, <2>2, <1>a, <1>2, <1>3, <1>4 DEF TypeOK
<1>6. /\ intent'[worker[w].intent].state = intent[worker[w].intent].state
      /\ intent'[worker[w].intent].due = intent[worker[w].intent].due
      /\ intent'[worker[w].intent].irreversible = intent[worker[w].intent].irreversible
      /\ \A k \in Intents : k # worker[w].intent => intent'[k] = intent[k]
  BY <1>a, <1>2, <1>3, <1>4 DEF TypeOK, FileIntent, LocksLease, HoldsLease, Intent, States
<1>7. receipt' \in [Intents -> [Objects -> {"none", "PENDING", "INTENT", "REMOVED"}]]
  BY <1>a, <1>2, <1>3, <1>4, ConstantsAssumption DEF TypeOK, FileIntent, LocksLease,
     HoldsLease
<1>8. /\ receipt'[worker[w].intent][o] = "INTENT"
      /\ \A p \in Objects : p # o => receipt'[worker[w].intent][p] = receipt[worker[w].intent][p]
      /\ \A k \in Intents : k # worker[w].intent => receipt'[k] = receipt[k]
  BY <1>a, <1>2, <1>3, <1>4 DEF TypeOK, FileIntent, LocksLease, HoldsLease
<1>9. worker' \in [Workers -> WorkerState]
  <2> DEFINE r == [worker[w] EXCEPT !.phase = "remove", !.object = o]
  <2>0. worker[w] \in WorkerState
    BY <1>a, ConstantsAssumption, <1>2, <1>3, <1>4 DEF TypeOK
  <2>1. r \in WorkerState
    BY <2>0, <1>a, ConstantsAssumption, <1>2, <1>3, <1>4 DEF WorkerState, Executing
  <2>2. worker' = [worker EXCEPT ![w] = r]
    BY DEF FileIntent, LocksLease, HoldsLease
  <2> HIDE DEF r
  <2> QED BY <2>1, <2>2, <1>a, <1>2, <1>3, <1>4 DEF TypeOK
<1>10. /\ worker'[w].phase = "remove"
       /\ worker'[w].intent = worker[w].intent
       /\ worker'[w].todo = worker[w].todo
       /\ worker'[w].object = o
       /\ worker'[w].locked = worker[w].locked
       /\ \A v \in Workers : v # w => worker'[v] = worker[v]
  BY <1>a, <1>2, <1>3, <1>4 DEF TypeOK, FileIntent, LocksLease, HoldsLease, WorkerState,
     Executing
<1>11. TypeOK'
  BY <1>a, <1>1, <1>5, <1>7, <1>9, <1>10, <1>2, <1>3, <1>4 DEF TypeOK
<1>12. IntentsInv'
  <2> SUFFICES ASSUME NEW k \in Intents PROVE IntentInv(k)'
    BY DEF IntentsInv
  <2>1. IntentInv(k)
    BY <1>a DEF IntentsInv
  <2>2. Target[k] \subseteq Objects
    BY <1>a, ConstantsAssumption DEF TypeOK, WorkerState, WriterState
  <2>3. CASE k = worker[w].intent
    BY <2>3, <2>1, <2>2, <1>a, <1>1, ConstantsAssumption, <1>2, <1>3, <1>4, <1>6
       DEF IntentInv, Active
  <2>4. CASE k # worker[w].intent
    BY <2>4, <2>1, <2>2, <1>a, <1>1, ConstantsAssumption, <1>2, <1>3, <1>4, <1>6
       DEF IntentInv, Active
  <2> QED BY <2>3, <2>4
<1>13. FencesInv'
  <2> SUFFICES ASSUME NEW p \in Objects PROVE FenceInv(p)'
    BY DEF FencesInv
  <2>1. FenceInv(p)
    BY <1>a DEF FencesInv
  <2>2. fence[p] \in Intents \cup {None} /\ \A j \in Intents : Target[j] \subseteq Objects
    BY <1>a, ConstantsAssumption DEF TypeOK, WorkerState, WriterState
  <2> QED BY <2>1, <2>2, <1>a, <1>1, ConstantsAssumption, <1>2, <1>3, <1>4, <1>6
             DEF FenceInv, Active
<1>14. FilesInv'
  <2> SUFFICES ASSUME NEW p \in Objects PROVE FileInv(p)'
    BY DEF FilesInv
  <2>1. FileInv(p)
    BY <1>a DEF FilesInv
  <2>2. /\ fence[p] \in Intents \cup {None} /\ row[p] \in Nat /\ file[p] \in BOOLEAN
        /\ \A j \in Intents : Target[j] \subseteq Objects
    BY <1>a, ConstantsAssumption DEF TypeOK, WorkerState, WriterState
  <2> QED BY <2>1, <2>2, <1>a, <1>1, ConstantsAssumption, <1>2, <1>3, <1>4, <1>6 DEF FileInv
<1>15. WorkersInv'
  <2> SUFFICES ASSUME NEW v \in Workers PROVE WorkerInv(v)'
    BY DEF WorkersInv
  <2>1. WorkerInv(v)
    BY <1>a DEF WorkersInv
  <2>2. worker[v].intent \in Intents \cup {None} /\ worker[v].object \in Objects \cup {None}
    BY <1>a, ConstantsAssumption DEF TypeOK, WorkerState, WriterState
  <2>3. CASE v = w
    BY <2>3, <2>1, <2>2, <1>a, <1>1, ConstantsAssumption, <1>2, <1>3, <1>4, <1>6, <1>8,
       <1>10 DEF WorkerInv
  <2>4. CASE v # w
    BY <2>4, <2>1, <2>2, <1>a, <1>1, ConstantsAssumption, <1>2, <1>3, <1>4, <1>6, <1>8,
       <1>10 DEF WorkerInv
  <2> QED BY <2>3, <2>4
<1>16. WritersInv'
  <2> SUFFICES ASSUME NEW y \in Writers PROVE WriterInv(y)'
    BY DEF WritersInv
  <2>1. WriterInv(y)
    BY <1>a DEF WritersInv
  <2>2. /\ writer[y].object \in Objects \cup {None}
        /\ \A j \in Intents : Target[j] \subseteq Objects
    BY <1>a, ConstantsAssumption DEF TypeOK, WorkerState, WriterState
  <2> QED BY <2>1, <2>2, <1>a, <1>1, ConstantsAssumption, <1>2, <1>3, <1>4, <1>6
             DEF WriterInv, Active
<1>17. FilesMatchReceipts'
  BY <1>a, <1>1, ConstantsAssumption, <1>2, <1>3, <1>4, <1>6, <1>8 DEF FilesMatchReceipts
<1> QED BY <1>11, <1>12, <1>13, <1>14, <1>15, <1>16, <1>17 DEF IInv

\* The transaction that removes a file relies on its announcement.
LEMMA RemoveBeginKeeps ==
  ASSUME IInv, NEW w \in Workers, RemoveBegin(w)
  PROVE  IInv'
<1>a. TypeOK /\ IntentsInv /\ FencesInv /\ FilesInv
      /\ WorkersInv /\ WritersInv /\ FilesMatchReceipts
  BY DEF IInv
<1>1. UNCHANGED <<intent, frozen, receipt, fence, row, file, ledger, epoch,
                  writer, retries, faults>>
  BY DEF RemoveBegin
<1>2. worker[w].phase = "remove"
  BY <1>a, ConstantsAssumption DEF TypeOK, RemoveBegin, WorkersInv, WorkerInv, WorkerState
<1>3. worker' \in [Workers -> WorkerState]
  <2> DEFINE r == [worker[w] EXCEPT !.phase = "unlink", !.locked = TRUE]
  <2>0. worker[w] \in WorkerState
    BY <1>a, ConstantsAssumption, <1>2 DEF TypeOK
  <2>1. r \in WorkerState
    BY <2>0, <1>a, ConstantsAssumption, <1>2 DEF WorkerState, Executing
  <2>2. worker' = [worker EXCEPT ![w] = r]
    BY DEF RemoveBegin
  <2> HIDE DEF r
  <2> QED BY <2>1, <2>2, <1>a, <1>2 DEF TypeOK
<1>4. /\ worker'[w].phase = "unlink"
      /\ worker'[w].intent = worker[w].intent
      /\ worker'[w].todo = worker[w].todo
      /\ worker'[w].object = worker[w].object
      /\ worker'[w].locked = TRUE
      /\ \A v \in Workers : v # w => worker'[v] = worker[v]
  BY <1>a, <1>2 DEF TypeOK, RemoveBegin, WorkerState, Executing
<1>5. TypeOK'
  BY <1>a, <1>1, <1>3, <1>4, <1>2 DEF TypeOK
<1>6. IntentsInv'
  BY <1>a, <1>1 DEF IntentsInv, IntentInv, Active
<1>7. FencesInv'
  BY <1>a, <1>1 DEF FencesInv, FenceInv, Active
<1>8. FilesInv'
  BY <1>a, <1>1 DEF FilesInv, FileInv
<1>9. WorkersInv'
  <2> SUFFICES ASSUME NEW v \in Workers PROVE WorkerInv(v)'
    BY DEF WorkersInv
  <2>1. WorkerInv(v)
    BY <1>a DEF WorkersInv
  <2>2. worker[v].intent \in Intents \cup {None} /\ worker[v].object \in Objects \cup {None}
    BY <1>a, ConstantsAssumption DEF TypeOK, WorkerState, WriterState
  <2>3. CASE v = w
    BY <2>3, <2>1, <2>2, <1>a, <1>1, ConstantsAssumption, <1>2, <1>4 DEF WorkerInv
  <2>4. CASE v # w
    BY <2>4, <2>1, <2>2, <1>a, <1>1, ConstantsAssumption, <1>2, <1>4 DEF WorkerInv
  <2> QED BY <2>3, <2>4
<1>10. WritersInv'
  BY <1>a, <1>1 DEF WritersInv, WriterInv, Active
<1>11. FilesMatchReceipts'
  BY <1>a, <1>1 DEF FilesMatchReceipts
<1> QED BY <1>5, <1>6, <1>7, <1>8, <1>9, <1>10, <1>11 DEF IInv

\* A file goes only from an irreversible request, which still holds its fence
\* or has deleted the record.
LEMMA UnlinkKeeps ==
  ASSUME IInv, NEW w \in Workers, Unlink(w)
  PROVE  IInv'
<1>a. TypeOK /\ IntentsInv /\ FencesInv /\ FilesInv
      /\ WorkersInv /\ WritersInv /\ FilesMatchReceipts
  BY DEF IInv
<1>1. UNCHANGED <<intent, frozen, receipt, fence, row, ledger, epoch, writer,
                  retries, faults>>
  BY DEF Unlink, Goto
<1>2. worker[w].phase = "unlink"
  BY <1>a, ConstantsAssumption DEF TypeOK, Unlink, Goto, WorkersInv, WorkerInv, WorkerState,
     IntentsInv, Intent
<1>3. worker[w].object \in Objects
  BY <1>a, ConstantsAssumption DEF TypeOK, Unlink, Goto, WorkersInv, WorkerInv, WorkerState,
     IntentsInv, Intent
<1>4. worker[w].intent \in Intents
  BY <1>a, ConstantsAssumption DEF TypeOK, Unlink, Goto, WorkersInv, WorkerInv, WorkerState,
     IntentsInv, Intent
<1>5. worker[w].object \in Target[worker[w].intent]
  BY <1>a, ConstantsAssumption DEF TypeOK, Unlink, Goto, WorkersInv, WorkerInv, WorkerState,
     IntentsInv, Intent
<1>6. intent[worker[w].intent].irreversible
  BY <1>a, ConstantsAssumption DEF TypeOK, Unlink, Goto, WorkersInv, WorkerInv, WorkerState,
     IntentsInv, Intent
<1>7. IntentInv(worker[w].intent)
  BY <1>a, ConstantsAssumption DEF TypeOK, Unlink, Goto, WorkersInv, WorkerInv, WorkerState,
     IntentsInv, Intent
<1>8. intent[worker[w].intent].state \in States
  BY <1>a, ConstantsAssumption DEF TypeOK, Unlink, Goto, WorkersInv, WorkerInv, WorkerState,
     IntentsInv, Intent
<1>9. file' \in [Objects -> BOOLEAN]
  BY <1>a, <1>2, <1>3, <1>4, <1>5, <1>6, <1>7, <1>8, ConstantsAssumption DEF TypeOK, Unlink,
     Goto
<1>10. /\ ~file'[worker[w].object]
       /\ \A o \in Objects : o # worker[w].object => file'[o] = file[o]
  BY <1>a, <1>2, <1>3, <1>4, <1>5, <1>6, <1>7, <1>8 DEF TypeOK, Unlink, Goto
<1>11. worker' \in [Workers -> WorkerState]
  <2> DEFINE r == [worker[w] EXCEPT !.phase = "record"]
  <2>0. worker[w] \in WorkerState
    BY <1>a, ConstantsAssumption, <1>2, <1>3, <1>4, <1>5, <1>6, <1>7, <1>8 DEF TypeOK
  <2>1. r \in WorkerState
    BY <2>0, <1>a, ConstantsAssumption, <1>2, <1>3, <1>4, <1>5, <1>6, <1>7, <1>8
       DEF WorkerState, Executing
  <2>2. worker' = [worker EXCEPT ![w] = r]
    BY DEF Unlink, Goto
  <2> HIDE DEF r
  <2> QED BY <2>1, <2>2, <1>a, <1>2, <1>3, <1>4, <1>5, <1>6, <1>7, <1>8 DEF TypeOK
<1>12. /\ worker'[w].phase = "record"
       /\ worker'[w].intent = worker[w].intent
       /\ worker'[w].todo = worker[w].todo
       /\ worker'[w].object = worker[w].object
       /\ worker'[w].locked = worker[w].locked
       /\ \A v \in Workers : v # w => worker'[v] = worker[v]
  BY <1>a, <1>2, <1>3, <1>4, <1>5, <1>6, <1>7, <1>8 DEF TypeOK, Unlink, Goto, WorkerState,
     Executing
<1>13. TypeOK'
  BY <1>a, <1>1, <1>9, <1>11, <1>12, <1>2, <1>3, <1>4, <1>5, <1>6, <1>7, <1>8 DEF TypeOK
<1>14. IntentsInv'
  BY <1>a, <1>1 DEF IntentsInv, IntentInv, Active
<1>15. FencesInv'
  BY <1>a, <1>1 DEF FencesInv, FenceInv, Active
<1>16. FilesInv'
  <2> SUFFICES ASSUME NEW p \in Objects PROVE FileInv(p)'
    BY DEF FilesInv
  <2>1. FileInv(p)
    BY <1>a DEF FilesInv
  <2>2. /\ fence[p] \in Intents \cup {None} /\ row[p] \in Nat /\ file[p] \in BOOLEAN
        /\ \A j \in Intents : Target[j] \subseteq Objects
    BY <1>a, ConstantsAssumption DEF TypeOK, WorkerState, WriterState
  <2> QED BY <2>1, <2>2, <1>a, <1>1, ConstantsAssumption, <1>2, <1>3, <1>4, <1>5, <1>6,
             <1>7, <1>8, <1>10 DEF FileInv, IntentInv, Active, States
<1>17. WorkersInv'
  <2> SUFFICES ASSUME NEW v \in Workers PROVE WorkerInv(v)'
    BY DEF WorkersInv
  <2>1. WorkerInv(v)
    BY <1>a DEF WorkersInv
  <2>2. worker[v].intent \in Intents \cup {None} /\ worker[v].object \in Objects \cup {None}
    BY <1>a, ConstantsAssumption DEF TypeOK, WorkerState, WriterState
  <2>3. CASE v = w
    BY <2>3, <2>1, <2>2, <1>a, <1>1, ConstantsAssumption, <1>2, <1>3, <1>4, <1>5, <1>6,
       <1>7, <1>8, <1>10, <1>12 DEF WorkerInv
  <2>4. CASE v # w
    BY <2>4, <2>1, <2>2, <1>a, <1>1, ConstantsAssumption, <1>2, <1>3, <1>4, <1>5, <1>6,
       <1>7, <1>8, <1>10, <1>12 DEF WorkerInv
  <2> QED BY <2>3, <2>4
<1>18. WritersInv'
  BY <1>a, <1>1 DEF WritersInv, WriterInv, Active
<1>19. FilesMatchReceipts'
  BY <1>a, <1>1, ConstantsAssumption, <1>2, <1>3, <1>4, <1>5, <1>6, <1>7, <1>8, <1>10
     DEF FilesMatchReceipts, WorkersInv, WorkerInv
<1> QED BY <1>13, <1>14, <1>15, <1>16, <1>17, <1>18, <1>19 DEF IInv

\* The receipt is given for a file that is gone.
LEMMA RecordRemovedKeeps ==
  ASSUME IInv, NEW w \in Workers, RecordRemoved(w)
  PROVE  IInv'
<1>a. TypeOK /\ IntentsInv /\ FencesInv /\ FilesInv
      /\ WorkersInv /\ WritersInv /\ FilesMatchReceipts
  BY DEF IInv
<1>1. UNCHANGED <<intent, frozen, fence, row, file, ledger, epoch, writer, retries, faults>>
  BY DEF RecordRemoved, HoldsLease
<1>2. worker[w].intent \in Intents
  BY <1>a, ConstantsAssumption DEF TypeOK, RecordRemoved, HoldsLease, WorkersInv, WorkerInv,
     WorkerState
<1>3. worker[w].phase = "record"
  BY <1>a, ConstantsAssumption DEF TypeOK, RecordRemoved, HoldsLease, WorkersInv, WorkerInv,
     WorkerState
<1>4. worker[w].object \in Objects
  BY <1>a, ConstantsAssumption DEF TypeOK, RecordRemoved, HoldsLease, WorkersInv, WorkerInv,
     WorkerState
<1>5. receipt' \in [Intents -> [Objects -> {"none", "PENDING", "INTENT", "REMOVED"}]]
  BY <1>a, <1>2, <1>3, <1>4, ConstantsAssumption DEF TypeOK, RecordRemoved, HoldsLease
<1>6. /\ receipt'[worker[w].intent][worker[w].object] = "REMOVED"
      /\ \A p \in Objects : p # worker[w].object => receipt'[worker[w].intent][p] = receipt[worker[w].intent][p]
      /\ \A k \in Intents : k # worker[w].intent => receipt'[k] = receipt[k]
  BY <1>a, <1>2, <1>3, <1>4 DEF TypeOK, RecordRemoved, HoldsLease
<1>7. worker' \in [Workers -> WorkerState]
  <2> DEFINE r == [worker[w] EXCEPT !.phase = "files", !.todo = @ \ {worker[w].object},
                                   !.object = None, !.locked = FALSE]
  <2>0. worker[w] \in WorkerState
    BY <1>a, ConstantsAssumption, <1>2, <1>3, <1>4 DEF TypeOK
  <2>1. r \in WorkerState
    BY <2>0, <1>a, ConstantsAssumption, <1>2, <1>3, <1>4 DEF WorkerState, Executing
  <2>2. worker' = [worker EXCEPT ![w] = r]
    BY DEF RecordRemoved, HoldsLease
  <2> HIDE DEF r
  <2> QED BY <2>1, <2>2, <1>a, <1>2, <1>3, <1>4 DEF TypeOK
<1>8. /\ worker'[w].phase = "files"
      /\ worker'[w].intent = worker[w].intent
      /\ worker'[w].todo = worker[w].todo \ {worker[w].object}
      /\ worker'[w].object = None
      /\ worker'[w].locked = FALSE
      /\ \A v \in Workers : v # w => worker'[v] = worker[v]
  BY <1>a, <1>2, <1>3, <1>4 DEF TypeOK, RecordRemoved, HoldsLease, WorkerState, Executing
<1>9. TypeOK'
  BY <1>a, <1>1, <1>5, <1>7, <1>8, <1>2, <1>3, <1>4 DEF TypeOK
<1>10. IntentsInv'
  BY <1>a, <1>1 DEF IntentsInv, IntentInv, Active
<1>11. FencesInv'
  BY <1>a, <1>1 DEF FencesInv, FenceInv, Active
<1>12. FilesInv'
  BY <1>a, <1>1 DEF FilesInv, FileInv
<1>13. WorkersInv'
  <2> SUFFICES ASSUME NEW v \in Workers PROVE WorkerInv(v)'
    BY DEF WorkersInv
  <2>1. WorkerInv(v)
    BY <1>a DEF WorkersInv
  <2>2. worker[v].intent \in Intents \cup {None} /\ worker[v].object \in Objects \cup {None}
    BY <1>a, ConstantsAssumption DEF TypeOK, WorkerState, WriterState
  <2>3. CASE v = w
    BY <2>3, <2>1, <2>2, <1>a, <1>1, ConstantsAssumption, <1>2, <1>3, <1>4, <1>6, <1>8
       DEF WorkerInv
  <2>4. CASE v # w
    BY <2>4, <2>1, <2>2, <1>a, <1>1, ConstantsAssumption, <1>2, <1>3, <1>4, <1>6, <1>8
       DEF WorkerInv
  <2> QED BY <2>3, <2>4
<1>14. WritersInv'
  BY <1>a, <1>1 DEF WritersInv, WriterInv, Active
<1>15. FilesMatchReceipts'
  BY <1>a, <1>1, ConstantsAssumption, <1>2, <1>3, <1>4, <1>6 DEF FilesMatchReceipts,
     WorkersInv, WorkerInv
<1> QED BY <1>9, <1>10, <1>11, <1>12, <1>13, <1>14, <1>15 DEF IInv

\* The process does not lose what it knows with its transaction.
LEMMA TransactionLostKeeps ==
  ASSUME IInv, NEW w \in Workers, TransactionLost(w)
  PROVE  IInv'
<1>a. TypeOK /\ IntentsInv /\ FencesInv /\ FilesInv
      /\ WorkersInv /\ WritersInv /\ FilesMatchReceipts
  BY DEF IInv
<1>1. UNCHANGED <<intent, frozen, receipt, fence, row, file, ledger, epoch,
                  writer, retries>>
  BY DEF TransactionLost
<1>2. worker' \in [Workers -> WorkerState]
  <2> DEFINE r == [worker[w] EXCEPT !.locked = FALSE]
  <2>0. worker[w] \in WorkerState
    BY <1>a, ConstantsAssumption DEF TypeOK
  <2>1. r \in WorkerState
    BY <2>0, <1>a, ConstantsAssumption DEF WorkerState, Executing
  <2>2. worker' = [worker EXCEPT ![w] = r]
    BY DEF TransactionLost
  <2> HIDE DEF r
  <2> QED BY <2>1, <2>2, <1>a, <1>1 DEF TypeOK
<1>3. /\ worker'[w].phase = worker[w].phase
      /\ worker'[w].intent = worker[w].intent
      /\ worker'[w].todo = worker[w].todo
      /\ worker'[w].object = worker[w].object
      /\ worker'[w].locked = FALSE
      /\ \A v \in Workers : v # w => worker'[v] = worker[v]
  BY <1>a DEF TypeOK, TransactionLost, WorkerState, Executing
<1>4. faults' \in 0..MaxFaults
  BY <1>a, ConstantsAssumption DEF TypeOK, TransactionLost
<1>5. TypeOK'
  BY <1>a, <1>1, <1>2, <1>4, <1>3 DEF TypeOK
<1>6. IntentsInv'
  BY <1>a, <1>1 DEF IntentsInv, IntentInv, Active
<1>7. FencesInv'
  BY <1>a, <1>1 DEF FencesInv, FenceInv, Active
<1>8. FilesInv'
  BY <1>a, <1>1 DEF FilesInv, FileInv
<1>9. WorkersInv'
  <2> SUFFICES ASSUME NEW v \in Workers PROVE WorkerInv(v)'
    BY DEF WorkersInv
  <2>1. WorkerInv(v)
    BY <1>a DEF WorkersInv
  <2>2. worker[v].intent \in Intents \cup {None} /\ worker[v].object \in Objects \cup {None}
    BY <1>a, ConstantsAssumption DEF TypeOK, WorkerState, WriterState
  <2>3. CASE v = w
    BY <2>3, <2>1, <2>2, <1>a, <1>1, ConstantsAssumption, <1>3 DEF WorkerInv
  <2>4. CASE v # w
    BY <2>4, <2>1, <2>2, <1>a, <1>1, ConstantsAssumption, <1>3 DEF WorkerInv
  <2> QED BY <2>3, <2>4
<1>10. WritersInv'
  BY <1>a, <1>1 DEF WritersInv, WriterInv, Active
<1>11. FilesMatchReceipts'
  BY <1>a, <1>1 DEF FilesMatchReceipts
<1> QED BY <1>5, <1>6, <1>7, <1>8, <1>9, <1>10, <1>11 DEF IInv

\* No writer has a pending change of a record that goes.
LEMMA CommitKeeps ==
  ASSUME IInv, NEW w \in Workers, Commit(w)
  PROVE  IInv'
<1>a. TypeOK /\ IntentsInv /\ FencesInv /\ FilesInv
      /\ WorkersInv /\ WritersInv /\ FilesMatchReceipts
  BY DEF IInv
<1>1. UNCHANGED <<frozen, receipt, file, epoch, writer, retries, faults>>
  BY DEF Commit, LocksLease, HoldsLease, PlanHolds, SameItems, Poll, Idle
<1>2. worker[w].intent \in Intents
  BY <1>a, ConstantsAssumption DEF TypeOK, Commit, LocksLease, HoldsLease, PlanHolds,
     SameItems, Poll, Idle, WorkersInv, WorkerInv, WorkerState
<1>3. intent[worker[w].intent].irreversible
  BY <1>a, ConstantsAssumption DEF TypeOK, Commit, LocksLease, HoldsLease, PlanHolds,
     SameItems, Poll, Idle, WorkersInv, WorkerInv, WorkerState
<1>4. intent[worker[w].intent].state = "RUNNING"
  BY <1>a, ConstantsAssumption DEF TypeOK, Commit, LocksLease, HoldsLease, PlanHolds,
     SameItems, Poll, Idle, WorkersInv, WorkerInv, WorkerState
<1>5. \A o \in Target[worker[w].intent] : fence[o] = worker[w].intent
  BY <1>a, ConstantsAssumption DEF TypeOK, Commit, LocksLease, HoldsLease, PlanHolds,
     SameItems, Poll, Idle, WorkersInv, WorkerInv, WorkerState
<1>6. intent' \in [Intents -> Intent]
  <2> DEFINE r == [intent[worker[w].intent] EXCEPT !.state = "SUCCEEDED", !.live = FALSE]
  <2>0. intent[worker[w].intent] \in Intent
    BY <1>a, ConstantsAssumption, <1>2, <1>3, <1>4, <1>5 DEF TypeOK
  <2>1. r \in Intent
    BY <2>0, <1>a, ConstantsAssumption, <1>2, <1>3, <1>4, <1>5 DEF Intent, States
  <2>2. intent' = [intent EXCEPT ![worker[w].intent] = r]
    BY DEF Commit, LocksLease, HoldsLease, PlanHolds, SameItems, Poll, Idle
  <2> HIDE DEF r
  <2> QED BY <2>1, <2>2, <1>a, <1>2, <1>3, <1>4, <1>5 DEF TypeOK
<1>7. /\ intent'[worker[w].intent].state = "SUCCEEDED"
      /\ intent'[worker[w].intent].due = intent[worker[w].intent].due
      /\ intent'[worker[w].intent].irreversible = intent[worker[w].intent].irreversible
      /\ \A k \in Intents : k # worker[w].intent => intent'[k] = intent[k]
  BY ZenonT(30), <1>a, <1>2, <1>3, <1>4, <1>5 DEF TypeOK, Commit, LocksLease, HoldsLease, PlanHolds,
     SameItems, Poll, Idle, Intent, States
<1>8. fence' \in [Objects -> Intents \cup {None}]
  BY <1>a, <1>2, <1>3, <1>4, <1>5, ConstantsAssumption DEF TypeOK, Commit, LocksLease,
     HoldsLease, PlanHolds, SameItems, Poll, Idle
<1>9. \A o \in Objects : fence'[o] = IF fence[o] = worker[w].intent THEN None ELSE fence[o]
  BY <1>a, <1>2, <1>3, <1>4, <1>5 DEF TypeOK, Commit, LocksLease, HoldsLease, PlanHolds,
     SameItems, Poll, Idle
<1>10. row' \in [Objects -> Nat]
  BY <1>a, <1>2, <1>3, <1>4, <1>5, ConstantsAssumption DEF TypeOK, Commit, LocksLease,
     HoldsLease, PlanHolds, SameItems, Poll, Idle
<1>11. \A o \in Objects : row'[o] = IF o \in Target[worker[w].intent] THEN 0 ELSE row[o]
  BY <1>a, <1>2, <1>3, <1>4, <1>5 DEF TypeOK, Commit, LocksLease, HoldsLease, PlanHolds,
     SameItems, Poll, Idle
<1>12. ledger' \in Seq(Intents)
  BY <1>a, <1>2, <1>3, <1>4, <1>5, ConstantsAssumption DEF TypeOK, Commit, LocksLease,
     HoldsLease, PlanHolds, SameItems, Poll, Idle
<1>13. worker' \in [Workers -> WorkerState]
  BY <1>a, IdleType DEF TypeOK, Poll, Commit
<1>14. /\ worker'[w].phase = "poll"
       /\ worker'[w].intent = None
       /\ worker'[w].todo = {}
       /\ worker'[w].object = None
       /\ worker'[w].locked = FALSE
       /\ \A v \in Workers : v # w => worker'[v] = worker[v]
  BY <1>a, <1>2, <1>3, <1>4, <1>5 DEF TypeOK, Commit, LocksLease, HoldsLease, PlanHolds,
     SameItems, Poll, Idle, WorkerState, Executing
<1>15. TypeOK'
  BY <1>a, <1>1, <1>6, <1>8, <1>10, <1>12, <1>13, <1>14, <1>2, <1>3, <1>4, <1>5 DEF TypeOK
<1>16. IntentsInv'
  <2> SUFFICES ASSUME NEW k \in Intents PROVE IntentInv(k)'
    BY DEF IntentsInv
  <2>1. IntentInv(k)
    BY <1>a DEF IntentsInv
  <2>2. Target[k] \subseteq Objects
    BY <1>a, ConstantsAssumption DEF TypeOK, WorkerState, WriterState
  <2>3. CASE k = worker[w].intent
    BY <2>3, <2>1, <2>2, <1>a, <1>1, ConstantsAssumption, <1>2, <1>3, <1>4, <1>5, <1>7,
       <1>9, <1>11 DEF IntentInv, Active
  <2>4. CASE k # worker[w].intent
    BY <2>4, <2>1, <2>2, <1>a, <1>1, ConstantsAssumption, <1>2, <1>3, <1>4, <1>5, <1>7,
       <1>9, <1>11 DEF IntentInv, Active
  <2> QED BY <2>3, <2>4
<1>17. FencesInv'
  <2> SUFFICES ASSUME NEW p \in Objects PROVE FenceInv(p)'
    BY DEF FencesInv
  <2>1. FenceInv(p)
    BY <1>a DEF FencesInv
  <2>2. fence[p] \in Intents \cup {None} /\ \A j \in Intents : Target[j] \subseteq Objects
    BY <1>a, ConstantsAssumption DEF TypeOK, WorkerState, WriterState
  <2> QED BY <2>1, <2>2, <1>a, <1>1, ConstantsAssumption, <1>2, <1>3, <1>4, <1>5, <1>7, <1>9
             DEF FenceInv, Active
<1>18. FilesInv'
  <2> SUFFICES ASSUME NEW p \in Objects PROVE FileInv(p)'
    BY DEF FilesInv
  <2>1. FileInv(p)
    BY <1>a DEF FilesInv
  <2>2. /\ fence[p] \in Intents \cup {None} /\ row[p] \in Nat /\ file[p] \in BOOLEAN
        /\ \A j \in Intents : Target[j] \subseteq Objects
    BY <1>a, ConstantsAssumption DEF TypeOK, WorkerState, WriterState
  <2> QED BY <2>1, <2>2, <1>a, <1>1, ConstantsAssumption, <1>2, <1>3, <1>4, <1>5, <1>7,
             <1>9, <1>11 DEF FileInv, FencesInv, FenceInv, Active
<1>19. WorkersInv'
  <2> SUFFICES ASSUME NEW v \in Workers PROVE WorkerInv(v)'
    BY DEF WorkersInv
  <2>1. WorkerInv(v)
    BY <1>a DEF WorkersInv
  <2>2. worker[v].intent \in Intents \cup {None} /\ worker[v].object \in Objects \cup {None}
    BY <1>a, ConstantsAssumption DEF TypeOK, WorkerState, WriterState
  <2>3. CASE v = w
    <3>1. worker'[v].phase = "poll" /\ worker'[v].todo = {}
      BY <2>3, <1>14
    <3> QED BY <3>1 DEF WorkerInv
  <2>4. CASE v # w
    <3>1. worker'[v] = worker[v]
      BY <2>4, <1>14
    <3>2. ASSUME NEW k \in Intents PROVE intent'[k].irreversible = intent[k].irreversible
      BY <1>7
    <3> QED BY <3>1, <3>2, <2>1, <2>2, <1>1 DEF WorkerInv
  <2> QED BY <2>3, <2>4
<1>20. WritersInv'
  <2> SUFFICES ASSUME NEW y \in Writers PROVE WriterInv(y)'
    BY DEF WritersInv
  <2>1. WriterInv(y)
    BY <1>a DEF WritersInv
  <2>2. /\ writer[y].object \in Objects \cup {None}
        /\ \A j \in Intents : Target[j] \subseteq Objects
    BY <1>a, ConstantsAssumption DEF TypeOK, WorkerState, WriterState
  <2> QED BY <2>1, <2>2, <1>a, <1>1, ConstantsAssumption, <1>2, <1>3, <1>4, <1>5, <1>7,
             <1>9, <1>11 DEF WriterInv, Active, IntentsInv, IntentInv
<1>21. FilesMatchReceipts'
  BY <1>a, <1>1, ConstantsAssumption, <1>2, <1>3, <1>4, <1>5, <1>7 DEF FilesMatchReceipts
<1> QED BY <1>15, <1>16, <1>17, <1>18, <1>19, <1>20, <1>21 DEF IInv

\* A worker that failed relies on less.
LEMMA WorkerFailsKeeps ==
  ASSUME IInv, NEW w \in Workers, WorkerFails(w)
  PROVE  IInv'
<1>a. TypeOK /\ IntentsInv /\ FencesInv /\ FilesInv
      /\ WorkersInv /\ WritersInv /\ FilesMatchReceipts
  BY DEF IInv
<1>1. UNCHANGED <<intent, frozen, receipt, fence, row, file, ledger, epoch,
                  writer, retries, faults>>
  BY DEF WorkerFails
<1>2. worker[w].phase # "poll"
  BY <1>a, ConstantsAssumption DEF TypeOK, WorkerFails, WorkersInv, WorkerInv, WorkerState,
     Executing
<1>3. worker' \in [Workers -> WorkerState]
  <2> DEFINE r == [worker[w] EXCEPT !.phase = "failing", !.locked = FALSE]
  <2>0. worker[w] \in WorkerState
    BY <1>a, ConstantsAssumption, <1>2 DEF TypeOK
  <2>1. r \in WorkerState
    BY <2>0, <1>a, ConstantsAssumption, <1>2 DEF WorkerState, Executing
  <2>2. worker' = [worker EXCEPT ![w] = r]
    BY DEF WorkerFails
  <2> HIDE DEF r
  <2> QED BY <2>1, <2>2, <1>a, <1>2 DEF TypeOK
<1>4. /\ worker'[w].phase = "failing"
      /\ worker'[w].intent = worker[w].intent
      /\ worker'[w].todo = worker[w].todo
      /\ worker'[w].object = worker[w].object
      /\ worker'[w].locked = FALSE
      /\ \A v \in Workers : v # w => worker'[v] = worker[v]
  BY <1>a, <1>2 DEF TypeOK, WorkerFails, WorkerState, Executing
<1>5. TypeOK'
  BY <1>a, <1>1, <1>3, <1>4, <1>2 DEF TypeOK
<1>6. IntentsInv'
  BY <1>a, <1>1 DEF IntentsInv, IntentInv, Active
<1>7. FencesInv'
  BY <1>a, <1>1 DEF FencesInv, FenceInv, Active
<1>8. FilesInv'
  BY <1>a, <1>1 DEF FilesInv, FileInv
<1>9. WorkersInv'
  <2> SUFFICES ASSUME NEW v \in Workers PROVE WorkerInv(v)'
    BY DEF WorkersInv
  <2>1. WorkerInv(v)
    BY <1>a DEF WorkersInv
  <2>2. worker[v].intent \in Intents \cup {None} /\ worker[v].object \in Objects \cup {None}
    BY <1>a, ConstantsAssumption DEF TypeOK, WorkerState, WriterState
  <2>3. CASE v = w
    BY <2>3, <2>1, <2>2, <1>a, <1>1, ConstantsAssumption, <1>2, <1>4 DEF WorkerInv
  <2>4. CASE v # w
    BY <2>4, <2>1, <2>2, <1>a, <1>1, ConstantsAssumption, <1>2, <1>4 DEF WorkerInv
  <2> QED BY <2>3, <2>4
<1>10. WritersInv'
  BY <1>a, <1>1 DEF WritersInv, WriterInv, Active
<1>11. FilesMatchReceipts'
  BY <1>a, <1>1 DEF FilesMatchReceipts
<1> QED BY <1>5, <1>6, <1>7, <1>8, <1>9, <1>10, <1>11 DEF IInv

\* A worker without its lease changes nothing.
LEMMA FailOvertakenKeeps ==
  ASSUME IInv, NEW w \in Workers, Fail(w), UNCHANGED intent
  PROVE  IInv'
<1>a. TypeOK /\ IntentsInv /\ FencesInv /\ FilesInv
      /\ WorkersInv /\ WritersInv /\ FilesMatchReceipts
  BY DEF IInv
<1>1. UNCHANGED <<intent, frozen, receipt, fence, row, file, ledger, epoch,
                  writer, retries, faults>>
  BY DEF Fail, Poll, Idle
<1>2. worker' \in [Workers -> WorkerState]
  BY <1>a, IdleType DEF TypeOK, Poll, Fail
<1>3. /\ worker'[w].phase = "poll"
      /\ worker'[w].intent = None
      /\ worker'[w].todo = {}
      /\ worker'[w].object = None
      /\ worker'[w].locked = FALSE
      /\ \A v \in Workers : v # w => worker'[v] = worker[v]
  BY <1>a DEF TypeOK, Fail, Poll, Idle, WorkerState, Executing
<1>4. TypeOK'
  BY <1>a, <1>1, <1>2, <1>3 DEF TypeOK
<1>5. IntentsInv'
  BY <1>a, <1>1 DEF IntentsInv, IntentInv, Active
<1>6. FencesInv'
  BY <1>a, <1>1 DEF FencesInv, FenceInv, Active
<1>7. FilesInv'
  BY <1>a, <1>1 DEF FilesInv, FileInv
<1>8. WorkersInv'
  <2> SUFFICES ASSUME NEW v \in Workers PROVE WorkerInv(v)'
    BY DEF WorkersInv
  <2>1. WorkerInv(v)
    BY <1>a DEF WorkersInv
  <2>2. worker[v].intent \in Intents \cup {None} /\ worker[v].object \in Objects \cup {None}
    BY <1>a, ConstantsAssumption DEF TypeOK, WorkerState, WriterState
  <2>3. CASE v = w
    <3>1. worker'[v].phase = "poll" /\ worker'[v].todo = {}
      BY <2>3, <1>3
    <3> QED BY <3>1 DEF WorkerInv
  <2>4. CASE v # w
    BY <2>4, <2>1, <2>2, <1>a, <1>1, ConstantsAssumption, <1>3 DEF WorkerInv
  <2> QED BY <2>3, <2>4
<1>9. WritersInv'
  BY <1>a, <1>1 DEF WritersInv, WriterInv, Active
<1>10. FilesMatchReceipts'
  BY <1>a, <1>1 DEF FilesMatchReceipts
<1> QED BY <1>4, <1>5, <1>6, <1>7, <1>8, <1>9, <1>10 DEF IInv

\* A failed attempt leaves the request active.
LEMMA FailHoldingKeeps ==
  ASSUME IInv, NEW w \in Workers, Fail(w), HoldsLease(w)
  PROVE  IInv'
<1>a. TypeOK /\ IntentsInv /\ FencesInv /\ FilesInv
      /\ WorkersInv /\ WritersInv /\ FilesMatchReceipts
  BY DEF IInv
<1>1. UNCHANGED <<frozen, receipt, fence, row, file, ledger, epoch, writer,
                  retries, faults>>
  BY DEF Fail, HoldsLease, Poll, Idle
<1>2. worker[w].intent \in Intents
  BY <1>a, ConstantsAssumption DEF TypeOK, Fail, HoldsLease, Poll, Idle, WorkersInv,
     WorkerInv, WorkerState
<1>3. intent[worker[w].intent].state = "RUNNING"
  BY <1>a, ConstantsAssumption DEF TypeOK, Fail, HoldsLease, Poll, Idle, WorkersInv,
     WorkerInv, WorkerState
<1>4. intent' \in [Intents -> Intent]
  <2>1. PICK s \in {"FAILED", "RETRY_WAIT"} :
            intent' = [intent EXCEPT ![worker[w].intent].state = s, ![worker[w].intent].live = FALSE]
    BY DEF Fail
  <2> DEFINE r == [intent[worker[w].intent] EXCEPT !.state = s, !.live = FALSE]
  <2>2. r \in Intent
    BY ZenonT(30), <1>a, <1>2, <1>3 DEF TypeOK, Intent, States
  <2>3. intent' = [intent EXCEPT ![worker[w].intent] = r]
    BY <2>1
  <2> HIDE DEF r
  <2> QED BY <1>a, <2>2, <2>3 DEF TypeOK
<1>5. /\ intent'[worker[w].intent].state \in {"FAILED", "RETRY_WAIT"}
      /\ intent'[worker[w].intent].due = intent[worker[w].intent].due
      /\ intent'[worker[w].intent].irreversible = intent[worker[w].intent].irreversible
      /\ \A k \in Intents : k # worker[w].intent => intent'[k] = intent[k]
  <2>1. PICK s \in {"FAILED", "RETRY_WAIT"} :
            intent' = [intent EXCEPT ![worker[w].intent].state = s, ![worker[w].intent].live = FALSE]
    BY DEF Fail
  <2> QED BY <1>a, <1>2, <1>3, <2>1 DEF TypeOK, Intent
<1>6. worker' \in [Workers -> WorkerState]
  BY <1>a, IdleType DEF TypeOK, Poll, Fail
<1>7. /\ worker'[w].phase = "poll"
      /\ worker'[w].intent = None
      /\ worker'[w].todo = {}
      /\ worker'[w].object = None
      /\ worker'[w].locked = FALSE
      /\ \A v \in Workers : v # w => worker'[v] = worker[v]
  BY <1>a, <1>2, <1>3 DEF TypeOK, Fail, HoldsLease, Poll, Idle, WorkerState, Executing
<1>8. TypeOK'
  BY <1>a, <1>1, <1>4, <1>6, <1>7, <1>2, <1>3 DEF TypeOK
<1>9. IntentsInv'
  <2> SUFFICES ASSUME NEW k \in Intents PROVE IntentInv(k)'
    BY DEF IntentsInv
  <2>1. IntentInv(k)
    BY <1>a DEF IntentsInv
  <2>2. Target[k] \subseteq Objects
    BY <1>a, ConstantsAssumption DEF TypeOK, WorkerState, WriterState
  <2>3. CASE k = worker[w].intent
    BY <2>3, <2>1, <2>2, <1>a, <1>1, ConstantsAssumption, <1>2, <1>3, <1>5 DEF IntentInv,
       Active
  <2>4. CASE k # worker[w].intent
    BY <2>4, <2>1, <2>2, <1>a, <1>1, ConstantsAssumption, <1>2, <1>3, <1>5 DEF IntentInv,
       Active
  <2> QED BY <2>3, <2>4
<1>10. FencesInv'
  <2> SUFFICES ASSUME NEW p \in Objects PROVE FenceInv(p)'
    BY DEF FencesInv
  <2>1. FenceInv(p)
    BY <1>a DEF FencesInv
  <2>2. fence[p] \in Intents \cup {None} /\ \A j \in Intents : Target[j] \subseteq Objects
    BY <1>a, ConstantsAssumption DEF TypeOK, WorkerState, WriterState
  <2> QED BY <2>1, <2>2, <1>a, <1>1, ConstantsAssumption, <1>2, <1>3, <1>5 DEF FenceInv,
             Active
<1>11. FilesInv'
  <2> SUFFICES ASSUME NEW p \in Objects PROVE FileInv(p)'
    BY DEF FilesInv
  <2>1. FileInv(p)
    BY <1>a DEF FilesInv
  <2>2. /\ fence[p] \in Intents \cup {None} /\ row[p] \in Nat /\ file[p] \in BOOLEAN
        /\ \A j \in Intents : Target[j] \subseteq Objects
    BY <1>a, ConstantsAssumption DEF TypeOK, WorkerState, WriterState
  <2> QED BY <2>1, <2>2, <1>a, <1>1, ConstantsAssumption, <1>2, <1>3, <1>5 DEF FileInv
<1>12. WorkersInv'
  <2> SUFFICES ASSUME NEW v \in Workers PROVE WorkerInv(v)'
    BY DEF WorkersInv
  <2>1. WorkerInv(v)
    BY <1>a DEF WorkersInv
  <2>2. worker[v].intent \in Intents \cup {None} /\ worker[v].object \in Objects \cup {None}
    BY <1>a, ConstantsAssumption DEF TypeOK, WorkerState, WriterState
  <2>3. CASE v = w
    <3>1. worker'[v].phase = "poll" /\ worker'[v].todo = {}
      BY <2>3, <1>7
    <3> QED BY <3>1 DEF WorkerInv
  <2>4. CASE v # w
    BY <2>4, <2>1, <2>2, <1>a, <1>1, ConstantsAssumption, <1>2, <1>3, <1>5, <1>7
       DEF WorkerInv
  <2> QED BY <2>3, <2>4
<1>13. WritersInv'
  <2> SUFFICES ASSUME NEW y \in Writers PROVE WriterInv(y)'
    BY DEF WritersInv
  <2>1. WriterInv(y)
    BY <1>a DEF WritersInv
  <2>2. /\ writer[y].object \in Objects \cup {None}
        /\ \A j \in Intents : Target[j] \subseteq Objects
    BY <1>a, ConstantsAssumption DEF TypeOK, WorkerState, WriterState
  <2> QED BY <2>1, <2>2, <1>a, <1>1, ConstantsAssumption, <1>2, <1>3, <1>5 DEF WriterInv,
             Active
<1>14. FilesMatchReceipts'
  BY <1>a, <1>1, ConstantsAssumption, <1>2, <1>3, <1>5 DEF FilesMatchReceipts
<1> QED BY <1>8, <1>9, <1>10, <1>11, <1>12, <1>13, <1>14 DEF IInv

\* A restarted process knows nothing.
LEMMA CrashKeeps ==
  ASSUME IInv, NEW w \in Workers, Crash(w)
  PROVE  IInv'
<1>a. TypeOK /\ IntentsInv /\ FencesInv /\ FilesInv
      /\ WorkersInv /\ WritersInv /\ FilesMatchReceipts
  BY DEF IInv
<1>1. UNCHANGED <<intent, frozen, receipt, fence, row, file, ledger, epoch,
                  writer, retries>>
  BY DEF Crash, Poll, Idle
<1>2. worker' \in [Workers -> WorkerState]
  BY <1>a, IdleType DEF TypeOK, Poll, Crash
<1>3. /\ worker'[w].phase = "poll"
      /\ worker'[w].intent = None
      /\ worker'[w].todo = {}
      /\ worker'[w].object = None
      /\ worker'[w].locked = FALSE
      /\ \A v \in Workers : v # w => worker'[v] = worker[v]
  BY <1>a DEF TypeOK, Crash, Poll, Idle, WorkerState, Executing
<1>4. faults' \in 0..MaxFaults
  BY <1>a, ConstantsAssumption DEF TypeOK, Crash, Poll, Idle
<1>5. TypeOK'
  BY <1>a, <1>1, <1>2, <1>4, <1>3 DEF TypeOK
<1>6. IntentsInv'
  BY <1>a, <1>1 DEF IntentsInv, IntentInv, Active
<1>7. FencesInv'
  BY <1>a, <1>1 DEF FencesInv, FenceInv, Active
<1>8. FilesInv'
  BY <1>a, <1>1 DEF FilesInv, FileInv
<1>9. WorkersInv'
  <2> SUFFICES ASSUME NEW v \in Workers PROVE WorkerInv(v)'
    BY DEF WorkersInv
  <2>1. WorkerInv(v)
    BY <1>a DEF WorkersInv
  <2>2. worker[v].intent \in Intents \cup {None} /\ worker[v].object \in Objects \cup {None}
    BY <1>a, ConstantsAssumption DEF TypeOK, WorkerState, WriterState
  <2>3. CASE v = w
    <3>1. worker'[v].phase = "poll" /\ worker'[v].todo = {}
      BY <2>3, <1>3
    <3> QED BY <3>1 DEF WorkerInv
  <2>4. CASE v # w
    BY <2>4, <2>1, <2>2, <1>a, <1>1, ConstantsAssumption, <1>3 DEF WorkerInv
  <2> QED BY <2>3, <2>4
<1>10. WritersInv'
  BY <1>a, <1>1 DEF WritersInv, WriterInv, Active
<1>11. FilesMatchReceipts'
  BY <1>a, <1>1 DEF FilesMatchReceipts
<1> QED BY <1>5, <1>6, <1>7, <1>8, <1>9, <1>10, <1>11 DEF IInv

-----------------------------------------------------------------------------
(* The invariant holds                                                     *)

LEMMA IInvInit == Init => IInv
<1> SUFFICES ASSUME Init PROVE IInv
  OBVIOUS
<1>1. TypeOK
  <2>1. NoIntent \in Intent
    BY ConstantsAssumption DEF NoIntent, Intent, States
  <2>2. NoWriter \in WriterState
    BY DEF NoWriter, WriterState
  <2>3. worker \in [Workers -> WorkerState] /\ writer \in [Writers -> WriterState]
    BY IdleType, <2>2 DEF Init
  <2>4. \A w \in Workers : ~worker[w].locked
    BY DEF Init, Idle
  <2> QED BY <2>1, <2>3, <2>4, ConstantsAssumption DEF Init, TypeOK
<1>2. IntentsInv
  BY DEF Init, NoIntent, IntentsInv, IntentInv, Active
<1>3. FencesInv /\ FilesInv /\ FilesMatchReceipts
  BY DEF Init, FencesInv, FenceInv, FilesInv, FileInv, FilesMatchReceipts
<1>4. WorkersInv
  BY DEF Init, Idle, WorkersInv, WorkerInv
<1>5. WritersInv
  BY DEF Init, NoWriter, WritersInv, WriterInv
<1> QED BY <1>1, <1>2, <1>3, <1>4, <1>5 DEF IInv

LEMMA StutterKeeps ==
  ASSUME IInv, UNCHANGED vars
  PROVE  IInv'
<1>1. UNCHANGED <<intent, frozen, receipt, fence, row, file, ledger, epoch, worker, writer,
                  retries, faults>>
  BY DEF vars
<1>2. TypeOK'
  BY <1>1 DEF IInv, TypeOK
<1>3. IntentsInv' /\ FencesInv' /\ FilesInv' /\ FilesMatchReceipts'
  BY <1>1 DEF IInv, IntentsInv, IntentInv, FencesInv, FenceInv, Active, FilesInv, FileInv,
              FilesMatchReceipts
<1>4. WorkersInv'
  BY <1>1 DEF IInv, WorkersInv, WorkerInv
<1>5. WritersInv'
  BY <1>1 DEF IInv, WritersInv, WriterInv, Active
<1> QED BY <1>2, <1>3, <1>4, <1>5 DEF IInv

LEMMA RequesterKeeps == ASSUME IInv, Requester PROVE IInv'
<1>1. CASE AuthorizationChanges
  BY <1>1, AuthorizationChangesKeeps
<1>2. ASSUME NEW i \in Intents, Create(i) \/ Undo(i) \/ Retry(i) PROVE IInv'
  BY <1>2, CreateKeeps, UndoKeeps, RetryKeeps
<1> QED BY <1>1, <1>2 DEF Requester

LEMMA WritingKeeps == ASSUME IInv, NEW x \in Writers, Writing(x) PROVE IInv'
<1>1. ASSUME NEW o \in Objects, WriterWrites(x, o) PROVE IInv'
  BY <1>1, WriterWritesKeeps
<1> QED BY <1>1, WriterBeginsKeeps, WriterCommitsKeeps, WriterRollsBackKeeps DEF Writing

LEMMA FailKeeps == ASSUME IInv, NEW w \in Workers, Fail(w) PROVE IInv'
BY FailOvertakenKeeps, FailHoldingKeeps DEF Fail

LEMMA WorkerKeeps ==
  ASSUME IInv, NEW w \in Workers, Polling(w) \/ Working(w) \/ Failing(w)
  PROVE  IInv'
<1>1. CASE Polling(w)
  <2>1. ASSUME NEW i \in Intents, Claim(w, i) PROVE IInv'
    BY <2>1, ClaimKeeps
  <2> QED BY <1>1, <2>1, RecoverOnlyKeeps DEF Polling
<1>2. CASE Working(w)
  <2>1. ASSUME NEW o \in Objects, FileIntent(w, o) PROVE IInv'
    BY <2>1, FileIntentKeeps
  <2> QED BY <1>2, <2>1, PrepareKeeps, ScanKeeps, RemoveBeginKeeps, UnlinkKeeps,
             RecordRemovedKeeps, CommitKeeps DEF Working
<1>3. CASE Failing(w)
  BY <1>3, WorkerFailsKeeps, FailKeeps, TransactionLostKeeps, CrashKeeps DEF Failing
<1> QED BY <1>1, <1>2, <1>3

LEMMA NextKeeps == IInv /\ [Next]_vars => IInv'
<1> SUFFICES ASSUME IInv, [Next]_vars PROVE IInv'
  OBVIOUS
<1>1. CASE UNCHANGED vars
  BY <1>1, StutterKeeps
<1>2. CASE Requester
  BY <1>2, RequesterKeeps
<1>3. CASE Clock
  BY <1>3, BecomesDueKeeps, LeaseRunsOutKeeps DEF Clock
<1>4. ASSUME NEW x \in Writers, Writing(x) PROVE IInv'
  BY <1>4, WritingKeeps
<1>5. ASSUME NEW w \in Workers, Polling(w) \/ Working(w) \/ Failing(w) PROVE IInv'
  BY <1>5, WorkerKeeps
<1> QED BY <1>1, <1>2, <1>3, <1>4, <1>5 DEF Next

\* The inductive invariant of the deletion of data.
THEOREM Invariance == Spec => []IInv
BY IInvInit, NextKeeps, PTL DEF Spec

\* Every variable keeps its type.
THEOREM TypeCorrect == Spec => []TypeOK
<1>1. IInv => TypeOK
  BY DEF IInv
<1> QED BY <1>1, Invariance, PTL

\* The receipts tell which files may be gone, after any crash.
THEOREM FilesMatchReceiptsHolds == Spec => []FilesMatchReceipts
<1>1. IInv => FilesMatchReceipts
  BY DEF IInv
<1> QED BY <1>1, Invariance, PTL

-----------------------------------------------------------------------------
(* The freeze, where no transaction is serializable                        *)

LEMMA FreezeStep ==
  ASSUME Serial = {}, IInv, FreezeHolds, [Next]_vars
  PROVE  FreezeHolds'
<1>a. /\ TypeOK /\ IntentsInv /\ FencesInv /\ WritersInv
      /\ \A i \in Intents : Target[i] \subseteq Objects
      /\ None \notin Intents
  BY ConstantsAssumption DEF IInv
<1> SUFFICES ASSUME NEW p \in Objects, fence'[p] # None
             PROVE  row'[p] = frozen'[fence'[p]][p]
  BY DEF FreezeHolds
<1>b. fence[p] # None => row[p] = frozen[fence[p]][p]
  BY DEF FreezeHolds
<1>c. fence[p] \in Intents \cup {None}
  BY <1>a DEF TypeOK
<1>1. CASE UNCHANGED <<fence, row, frozen>>
  BY <1>1, <1>b
<1>2. ASSUME NEW i \in Intents, Create(i) PROVE row'[p] = frozen'[fence'[p]][p]
  <2>1. /\ row' = row
        /\ fence'[p] = IF p \in Target[i] THEN i ELSE fence[p]
        /\ intent[i].state = "ABSENT"
    BY <1>2 DEF Create
  <2>2. frozen' = [frozen EXCEPT ![i] = [o \in Objects |-> IF o \in Target[i] THEN row[o] ELSE 0]]
    BY <1>2 DEF Create
  <2>3. CASE p \in Target[i]
    BY <1>a, <2>1, <2>2, <2>3 DEF TypeOK
  <2>4. CASE p \notin Target[i]
    <3>1. FenceInv(p)
      BY <1>a DEF FencesInv
    <3>2. fence[p] # i
      BY <3>1, <2>1, <1>a DEF FenceInv, Active
    <3>3. fence'[p] = fence[p] /\ fence[p] \in Intents
      BY <2>1, <2>4, <1>c
    <3> QED BY <1>a, <1>b, <2>1, <2>2, <3>2, <3>3 DEF TypeOK
  <2> QED BY <2>3, <2>4
<1>3. ASSUME NEW i \in Intents, Undo(i) PROVE row'[p] = frozen'[fence'[p]][p]
  <2>1. /\ row' = row /\ frozen' = frozen
        /\ fence'[p] = IF fence[p] = i THEN None ELSE fence[p]
    BY <1>3 DEF Undo
  <2> QED BY <2>1, <1>b
<1>4. ASSUME NEW x \in Writers, WriterCommits(x) PROVE row'[p] = frozen'[fence'[p]][p]
  <2>1. WriterInv(x) /\ x \notin Serial
    BY <1>a DEF WritersInv
  <2>2. UNCHANGED <<fence, frozen>> /\ writer[x].phase = "wrote"
    BY <1>4 DEF WriterCommits
  <2>3. writer[x].object \in Objects /\ fence[writer[x].object] = None
    BY <2>1, <2>2 DEF WriterInv
  <2>4. row' = [row EXCEPT ![writer[x].object] = @ + 1]
    BY <1>4 DEF WriterCommits
  <2>5. row'[p] = row[p]
    BY <2>2, <2>3, <2>4, <1>a DEF TypeOK
  <2> QED BY <2>2, <2>5, <1>b
<1>5. ASSUME NEW w \in Workers, Commit(w) PROVE row'[p] = frozen'[fence'[p]][p]
  <2> DEFINE i == worker[w].intent
  <2>1. i \in Intents /\ intent[i].state = "RUNNING" /\ frozen' = frozen
    BY <1>5, <1>a DEF Commit, LocksLease, HoldsLease, TypeOK, WorkerState
  <2>2. /\ row'[p] = IF p \in Target[i] THEN 0 ELSE row[p]
        /\ fence'[p] = IF fence[p] = i THEN None ELSE fence[p]
    BY <1>5, <1>a DEF Commit
  <2>3. IntentInv(i)
    BY <2>1, <1>a DEF IntentsInv
  <2>4. \A o \in Target[i] : fence[o] = i
    BY <2>1, <2>3 DEF IntentInv, Active
  <2> HIDE DEF i
  <2> QED BY <2>1, <2>2, <2>4, <1>b
<1>6. CASE Requester
  <2>1. ASSUME NEW i \in Intents, Retry(i) PROVE UNCHANGED <<fence, row, frozen>>
    BY <2>1 DEF Retry
  <2>2. AuthorizationChanges => UNCHANGED <<fence, row, frozen>>
    BY DEF AuthorizationChanges
  <2> QED BY <1>1, <1>2, <1>3, <1>6, <2>1, <2>2 DEF Requester
<1>7. CASE Clock
  BY <1>1, <1>7 DEF Clock, BecomesDue, LeaseRunsOut
<1>8. ASSUME NEW x \in Writers, Writing(x) PROVE row'[p] = frozen'[fence'[p]][p]
  <2>1. WriterCommits(x) \/ UNCHANGED <<fence, row, frozen>>
    BY <1>8 DEF Writing, WriterBegins, WriterWrites, WriterRollsBack
  <2> QED BY <2>1, <1>1, <1>4
<1>9. ASSUME NEW w \in Workers, Polling(w) \/ Working(w) \/ Failing(w)
      PROVE  row'[p] = frozen'[fence'[p]][p]
  <2>1. Polling(w) => UNCHANGED <<fence, row, frozen>>
    BY DEF Polling, Claim, RecoverOnly
  <2>2. Working(w) => Commit(w) \/ UNCHANGED <<fence, row, frozen>>
    BY DEF Working, Prepare, Scan, FileIntent, RemoveBegin, Unlink, RecordRemoved
  <2>3. Failing(w) => UNCHANGED <<fence, row, frozen>>
    BY DEF Failing, WorkerFails, Fail, TransactionLost, Crash
  <2> QED BY <1>1, <1>5, <1>9, <2>1, <2>2, <2>3
<1> QED BY <1>1, <1>6, <1>7, <1>8, <1>9 DEF Next, vars

\* A record behind a fence is the one that was frozen, where every writer runs
\* below Serializable; with one that does not the finding shows it fails.
THEOREM FreezeHoldsForReadCommitted ==
  ASSUME Serial = {}
  PROVE  Spec => []FreezeHolds
<1>1. Init => FreezeHolds
  BY DEF Init, FreezeHolds
<1>2. IInv /\ FreezeHolds /\ [Next]_vars => FreezeHolds'
  BY FreezeStep
<1> QED BY <1>1, <1>2, Invariance, PTL DEF Spec

-----------------------------------------------------------------------------
(* Deletion implements DeletionPromise                                     *)

LEMMA StageValues ==
  ASSUME TypeOK, NEW i \in Intents
  PROVE  /\ Stage(i) \in {"none", "held", "undone", "doomed", "done"}
         /\ Stage(i) \in {"held", "doomed"} <=> Active(i)
         /\ Stage(i) = "none" <=> intent[i].state = "ABSENT"
         /\ Stage(i) = "held" <=> Active(i) /\ ~intent[i].irreversible
         /\ Stage(i) = "doomed" <=> Active(i) /\ intent[i].irreversible
         /\ Stage(i) = "done" <=> intent[i].state = "SUCCEEDED"
         /\ Stage(i) = "undone" <=> intent[i].state \in {"CANCELLED", "RESTORED"}
<1>1. intent[i].state \in States /\ intent[i].irreversible \in BOOLEAN
  BY DEF TypeOK, Intent
<1>a. intent[i].irreversible \/ ~intent[i].irreversible
  OBVIOUS
<1>2. CASE intent[i].state = "ABSENT"
  BY <1>2 DEF Stage, Active
<1>3. CASE intent[i].state = "CANCELLED"
  BY <1>3 DEF Stage, Active
<1>6. CASE intent[i].state = "RESTORED"
  BY <1>6 DEF Stage, Active
<1>4. CASE intent[i].state = "SUCCEEDED"
  BY <1>4 DEF Stage, Active
<1>5. CASE Active(i)
  <2>1. /\ intent[i].state # "ABSENT" /\ intent[i].state # "SUCCEEDED"
        /\ intent[i].state \notin {"CANCELLED", "RESTORED"}
    BY <1>5 DEF Active
  <2>2. CASE intent[i].irreversible
    <3>1. Stage(i) = "doomed"
      BY <1>5, <2>1, <2>2 DEF Stage, Active
    <3> QED BY <1>5, <2>1, <2>2, <3>1
  <2>3. CASE ~intent[i].irreversible
    <3>1. Stage(i) = "held"
      BY <1>5, <2>1, <2>3 DEF Stage, Active
    <3> QED BY <1>5, <2>1, <2>3, <3>1
  <2> QED BY <2>2, <2>3
<1>7. \/ intent[i].state \in {"ABSENT", "CANCELLED", "RESTORED", "SUCCEEDED"}
      \/ Active(i)
  BY <1>1 DEF States, Active
<1> QED BY <1>2, <1>3, <1>4, <1>5, <1>6, <1>7

\* What a step has to leave alone for the requester not to see it.
LEMMA Unseen ==
  ASSUME UNCHANGED ledger,
         \A i \in Intents : Stage(i)' = Stage(i),
         \A o \in Objects : Left(o)' = Left(o)
  PROVE  UNCHANGED Promise!vars
<1>1. Stages' = Stages
  BY DEF Stages
<1>2. DataLeft' = DataLeft
  BY DEF DataLeft
<1> QED BY <1>1, <1>2 DEF Promise!vars

LEMMA UnseenIntents ==
  ASSUME UNCHANGED <<ledger, row, file>>, TypeOK, TypeOK',
         \A i \in Intents : /\ intent'[i].irreversible = intent[i].irreversible
                            /\ \/ intent'[i].state = intent[i].state
                               \/ Active(i) /\ Active(i)'
  PROVE  UNCHANGED Promise!vars
<1>1. ASSUME NEW i \in Intents PROVE Stage(i)' = Stage(i)
  <2>1. CASE intent'[i].state = intent[i].state
    BY <2>1 DEF Stage, Active
  <2>2. CASE Active(i) /\ Active(i)'
    <3>1. intent[i].irreversible \in BOOLEAN
      BY DEF TypeOK, Intent
    <3>2. CASE intent[i].irreversible
      <4>1. Stage(i) = "doomed"
        BY <2>2, <3>2, StageValues
      <4>2. Stage(i)' = "doomed"
        BY <2>2, <3>2 DEF Stage, Active
      <4> QED BY <4>1, <4>2
    <3>3. CASE ~intent[i].irreversible
      <4>1. Stage(i) = "held"
        BY <2>2, <3>3, StageValues
      <4>2. Stage(i)' = "held"
        BY <2>2, <3>3 DEF Stage, Active
      <4> QED BY <4>1, <4>2
    <3> QED BY <3>1, <3>2, <3>3
  <2> QED BY <2>1, <2>2
<1>2. ASSUME NEW o \in Objects PROVE Left(o)' = Left(o)
  BY DEF Left
<1> QED BY <1>1, <1>2, Unseen

LEMMA CreatePromised ==
  ASSUME IInv, IInv', NEW i \in Intents, Create(i)
  PROVE  Promise!Hold(i)
<1>a. /\ TypeOK /\ TypeOK' /\ IntentsInv /\ FilesInv
      /\ Target[i] \subseteq Objects /\ None \notin Intents
  BY ConstantsAssumption DEF IInv
<1>1. /\ UNCHANGED <<row, file, ledger>>
      /\ intent[i].state = "ABSENT"
      /\ \A o \in Target[i] : row[o] # 0 /\ fence[o] = None
  BY DEF Create, Freezable
<1>2. /\ intent'[i].state = "HELD" /\ intent'[i].irreversible = intent[i].irreversible
      /\ \A k \in Intents : k # i => intent'[k] = intent[k]
  BY <1>a DEF Create, TypeOK, Intent
<1>3. ~intent[i].irreversible
  BY <1>1, <1>a DEF IntentsInv, IntentInv
<1>4. Stages[i] = "none"
  BY <1>1, <1>a, StageValues DEF Stages
<1>5. ASSUME NEW o \in Target[i] PROVE DataLeft[o] = "whole"
  <2>1. FileInv(o) /\ o \in Objects
    BY <1>a DEF FilesInv
  <2>2. row[o] # 0 /\ file[o]
    BY <2>1, <1>1 DEF FileInv
  <2> QED BY <2>1, <2>2 DEF DataLeft, Left
<1>6. ASSUME NEW j \in Intents, Stages[j] \in {"held", "doomed"}
      PROVE  Target[i] \cap Target[j] = {}
  <2>1. Active(j)
    BY <1>6, <1>a, StageValues DEF Stages
  <2>2. \A o \in Target[j] : fence[o] = j
    BY <2>1, <1>a DEF IntentsInv, IntentInv
  <2> QED BY <2>2, <1>1, <1>a
<1>7. Stages' = [Stages EXCEPT ![i] = "held"]
  <2>1. Stage(i)' = "held"
    BY <1>2, <1>3 DEF Stage, Active
  <2>2. ASSUME NEW k \in Intents, k # i PROVE Stage(k)' = Stage(k)
    BY <2>2, <1>2 DEF Stage, Active
  <2> QED BY <2>1, <2>2 DEF Stages
<1>8. DataLeft' = DataLeft
  BY <1>1 DEF DataLeft, Left
<1> QED BY <1>1, <1>4, <1>5, <1>6, <1>7, <1>8 DEF Promise!Hold, Promise!Open

LEMMA UndoPromised ==
  ASSUME IInv, IInv', NEW i \in Intents, Undo(i)
  PROVE  Promise!Leave(i, "undone")
<1>a. TypeOK /\ TypeOK'
  BY DEF IInv
<1>1. UNCHANGED <<row, file, ledger>> /\ Active(i) /\ ~intent[i].irreversible
  BY <1>a DEF Undo, Undoable, Over, Active, TypeOK, Intent, States
<1>2. /\ intent'[i].state \in {"CANCELLED", "RESTORED"}
      /\ \A k \in Intents : k # i => intent'[k] = intent[k]
  BY <1>a DEF Undo, TypeOK, Intent
<1>3. Stages[i] = "held"
  BY <1>1, <1>a, StageValues DEF Stages
<1>4. Stages' = [Stages EXCEPT ![i] = "undone"]
  <2>1. Stage(i)' = "undone"
    <3>1. CASE intent'[i].state = "CANCELLED"
      BY <3>1 DEF Stage, Active
    <3>2. CASE intent'[i].state = "RESTORED"
      BY <3>2 DEF Stage, Active
    <3> QED BY <1>2, <3>1, <3>2
  <2>2. ASSUME NEW k \in Intents, k # i PROVE Stage(k)' = Stage(k)
    BY <2>2, <1>2 DEF Stage, Active
  <2> QED BY <2>1, <2>2 DEF Stages
<1>5. DataLeft' = DataLeft
  BY <1>1 DEF DataLeft, Left
<1> QED BY <1>1, <1>3, <1>4, <1>5 DEF Promise!Leave

LEMMA PreparePromised ==
  ASSUME IInv, IInv', NEW w \in Workers, Prepare(w)
  PROVE  \/ UNCHANGED Promise!vars
         \/ \E i \in Intents : Promise!Leave(i, "doomed")
<1>a. TypeOK /\ TypeOK'
  BY DEF IInv
<1>0. worker[w].intent \in Intents
  BY <1>a DEF Prepare, LocksLease, HoldsLease, TypeOK, WorkerState
<1>b. PICK i \in Intents : i = worker[w].intent
  BY <1>0
<1>1. /\ UNCHANGED <<row, file, ledger>>
      /\ i \in Intents /\ intent[i].state = "RUNNING"
  BY <1>a, <1>b DEF Prepare, LocksLease, HoldsLease
<1>2. /\ intent'[i].state = "RUNNING" /\ intent'[i].irreversible
      /\ \A k \in Intents : k # i => intent'[k] = intent[k]
  BY <1>a, <1>b, <1>1 DEF Prepare, TypeOK, Intent
<1>3. DataLeft' = DataLeft
  BY <1>1 DEF DataLeft, Left
<1>4. Stage(i)' = "doomed"
  BY <1>2 DEF Stage, Active
<1>5. ASSUME NEW k \in Intents, k # i PROVE Stage(k)' = Stage(k)
  BY <1>5, <1>2 DEF Stage, Active
<1>6. Stages' = [Stages EXCEPT ![i] = "doomed"]
  BY <1>1, <1>4, <1>5 DEF Stages
<1>7. CASE intent[i].irreversible
  <2>1. Stages[i] = "doomed"
    BY <1>1, <1>7, <1>a, StageValues DEF Stages, Active
  <2>2. Stages' = Stages
    BY <2>1, <1>6 DEF Stages
  <2> QED BY <2>2, <1>1, <1>3 DEF Promise!vars
<1>8. CASE ~intent[i].irreversible
  <2>1. Stages[i] = "held"
    BY <1>1, <1>8, <1>a, StageValues DEF Stages, Active
  <2>2. Promise!Leave(i, "doomed")
    BY <2>1, <1>1, <1>3, <1>6 DEF Promise!Leave
  <2> QED BY <2>2, <1>1
<1> QED BY <1>7, <1>8

LEMMA UnlinkPromised ==
  ASSUME IInv, IInv', NEW w \in Workers, Unlink(w)
  PROVE  \/ UNCHANGED Promise!vars
         \/ \E i \in Intents, o \in Objects : Promise!Shed(i, o)
<1>a. TypeOK /\ IntentsInv /\ WorkerInv(w) /\ Target \in [Intents -> SUBSET Objects]
  BY ConstantsAssumption DEF IInv, WorkersInv
<1>0. /\ worker[w].intent \in Intents
      /\ worker[w].object \in Target[worker[w].intent]
      /\ intent[worker[w].intent].irreversible
  BY <1>a DEF WorkerInv, Unlink
<1>b. PICK i \in Intents : i = worker[w].intent
  BY <1>0
<1>c. PICK o \in Target[i] : o = worker[w].object
  BY <1>0, <1>b
<1>1. /\ UNCHANGED <<intent, row, ledger>>
      /\ file' = [file EXCEPT ![o] = FALSE]
  BY <1>c DEF Unlink
<1>2. i \in Intents /\ o \in Target[i] /\ intent[i].irreversible
  BY <1>0, <1>b
<1>3. o \in Objects
  BY <1>2, <1>a
<1>4. Stages' = Stages
  BY <1>1 DEF Stages, Stage, Active
<1>5. ASSUME NEW p \in Objects, p # o PROVE Left(p)' = Left(p)
  BY <1>5, <1>1, <1>a DEF Left, TypeOK
<1>6. CASE row[o] # 0 /\ file[o]
  <2>1. IntentInv(i)
    BY <1>2, <1>a DEF IntentsInv
  <2>2. Active(i)
    BY <2>1, <1>2, <1>6, <1>a DEF IntentInv, Active, TypeOK, Intent, States
  <2>3. Stages[i] = "doomed"
    BY <2>2, <1>2, <1>a, StageValues DEF Stages
  <2>4. DataLeft[o] = "whole"
    BY <1>3, <1>6 DEF DataLeft, Left
  <2>5. Left(o)' = "bare"
    BY <1>1, <1>3, <1>6, <1>a DEF Left, TypeOK
  <2>6. DataLeft' = [DataLeft EXCEPT ![o] = "bare"]
    BY <2>5, <1>3, <1>5 DEF DataLeft
  <2>7. Promise!Shed(i, o)
    BY <2>3, <2>4, <2>6, <1>1, <1>2, <1>4 DEF Promise!Shed
  <2> QED BY <2>7, <1>2, <1>3
<1>7. CASE ~(row[o] # 0 /\ file[o])
  <2>1. Left(o)' = Left(o)
    BY <1>1, <1>3, <1>7, <1>a DEF Left, TypeOK
  <2>2. DataLeft' = DataLeft
    BY <2>1, <1>5 DEF DataLeft
  <2> QED BY <2>2, <1>1, <1>4 DEF Promise!vars
<1> QED BY <1>6, <1>7

LEMMA CommitPromised ==
  ASSUME IInv, IInv', NEW w \in Workers, Commit(w)
  PROVE  \E i \in Intents : Promise!Finish(i)
<1>a. /\ TypeOK /\ IntentsInv /\ FilesMatchReceipts
      /\ Target \in [Intents -> SUBSET Objects]
  BY ConstantsAssumption DEF IInv
<1>0. worker[w].intent \in Intents
  BY <1>a DEF Commit, LocksLease, HoldsLease, TypeOK, WorkerState
<1>b. PICK i \in Intents : i = worker[w].intent
  BY <1>0
<1>1. /\ UNCHANGED file
      /\ i \in Intents /\ intent[i].state = "RUNNING" /\ intent[i].irreversible
      /\ ledger' = Append(ledger, i)
      /\ \A o \in Target[i] : receipt[i][o] = "REMOVED"
  BY <1>b DEF Commit, LocksLease, HoldsLease, FilesRemoved
<1>2. /\ intent'[i].state = "SUCCEEDED"
      /\ \A k \in Intents : k # i => intent'[k] = intent[k]
  BY <1>a, <1>b, <1>1 DEF Commit, TypeOK, Intent
<1>3. row' = [o \in Objects |-> IF o \in Target[i] THEN 0 ELSE row[o]]
  BY <1>b DEF Commit
<1>4. Active(i)
  BY <1>1 DEF Active
<1>5. Stages[i] = "doomed"
  BY <1>1, <1>4, <1>a, StageValues DEF Stages
<1>6. ASSUME NEW o \in Target[i] PROVE DataLeft[o] = "bare"
  <2>1. o \in Objects /\ row[o] # 0
    BY <1>1, <1>4, <1>a DEF IntentsInv, IntentInv
  <2>2. ~file[o]
    BY <2>1, <1>1, <1>a DEF FilesMatchReceipts
  <2> QED BY <2>1, <2>2 DEF DataLeft, Left
<1>7. Stages' = [Stages EXCEPT ![i] = "done"]
  <2>1. Stage(i)' = "done"
    BY <1>2 DEF Stage, Active
  <2>2. ASSUME NEW k \in Intents, k # i PROVE Stage(k)' = Stage(k)
    BY <2>2, <1>2 DEF Stage, Active
  <2> QED BY <2>1, <2>2 DEF Stages
<1>8. DataLeft' = [o \in Objects |-> IF o \in Target[i] THEN "gone" ELSE DataLeft[o]]
  BY <1>1, <1>3 DEF DataLeft, Left
<1>9. Promise!Finish(i)
  BY <1>1, <1>5, <1>6, <1>7, <1>8 DEF Promise!Finish
<1> QED BY <1>1, <1>9

\* The steps that change rows of intents in a way the requester does not see.
LEMMA UnseenByRequester ==
  ASSUME IInv, IInv', NEW i \in Intents, Retry(i) \/ BecomesDue(i) \/ LeaseRunsOut(i)
  PROVE  UNCHANGED Promise!vars
<1>a. TypeOK /\ TypeOK'
  BY DEF IInv
<1>1. UNCHANGED <<ledger, row, file>>
  BY DEF Retry, BecomesDue, LeaseRunsOut
<1>2. CASE Retry(i)
  <2>1. intent[i].state = "FAILED" /\ intent'[i].state = "RETRY_WAIT"
    BY <1>2, <1>a DEF Retry, TypeOK, Intent
  <2>2. \A k \in Intents : /\ intent'[k].irreversible = intent[k].irreversible
                           /\ k # i => intent'[k].state = intent[k].state
    BY <1>2, <1>a DEF Retry, TypeOK, Intent
  <2> QED BY <1>a, <1>1, <2>1, <2>2, UnseenIntents DEF Active
<1>3. CASE BecomesDue(i) \/ LeaseRunsOut(i)
  <2>1. ASSUME NEW k \in Intents
        PROVE  /\ intent'[k].irreversible = intent[k].irreversible
               /\ intent'[k].state = intent[k].state
    <3>1. BecomesDue(i) => intent' = [intent EXCEPT ![i].due = TRUE]
      BY DEF BecomesDue
    <3>2. LeaseRunsOut(i) => intent' = [intent EXCEPT ![i].live = FALSE]
      BY DEF LeaseRunsOut
    <3>3. intent \in [Intents -> Intent]
      BY <1>a DEF TypeOK
    <3>4. CASE BecomesDue(i)
      BY <3>1, <3>3, <3>4 DEF Intent
    <3>5. CASE LeaseRunsOut(i)
      BY <3>2, <3>3, <3>5 DEF Intent
    <3> QED BY <1>3, <3>4, <3>5
  <2> QED BY <1>a, <1>1, <2>1, UnseenIntents
<1> QED BY <1>2, <1>3

LEMMA UnseenPolling ==
  ASSUME IInv, IInv', NEW w \in Workers, Polling(w)
  PROVE  UNCHANGED Promise!vars
<1>a. TypeOK /\ TypeOK'
  BY DEF IInv
<1>1. UNCHANGED <<ledger, row, file>>
  BY DEF Polling, Claim, RecoverOnly
<1>2. Recovered \in [Intents -> Intent]
  BY <1>a, RecoveredRows DEF Recovered
<1>3. ASSUME NEW k \in Intents
      PROVE  /\ Recovered[k].irreversible = intent[k].irreversible
             /\ \/ Recovered[k].state = intent[k].state
                \/ Active(k) /\ Recovered[k].state \in {"FAILED", "RETRY_WAIT"}
  BY <1>a, RecoveredRows DEF Active
<1>4. CASE RecoverOnly(w)
  <2>1. intent' = Recovered
    BY <1>4 DEF RecoverOnly
  <2> QED BY <1>a, <1>1, <1>3, <2>1, UnseenIntents DEF Active
<1>5. ASSUME NEW i \in Intents, Claim(w, i) PROVE UNCHANGED Promise!vars
  <2>1. Recovered[i].state \in {"HELD", "RETRY_WAIT"}
    BY <1>5 DEF Claim, Claimable
  <2>2. /\ intent'[i].state = "RUNNING"
        /\ intent'[i].irreversible = Recovered[i].irreversible
        /\ \A k \in Intents : k # i => intent'[k] = Recovered[k]
    BY <1>5, <1>2 DEF Claim, Intent
  <2>3. Active(i) /\ Active(i)'
    BY <1>3, <2>1, <2>2 DEF Active
  <2>4. ASSUME NEW k \in Intents
        PROVE  /\ intent'[k].irreversible = intent[k].irreversible
               /\ \/ intent'[k].state = intent[k].state
                  \/ Active(k) /\ Active(k)'
    <3>1. CASE k = i
      BY <3>1, <2>2, <2>3, <1>3
    <3>2. CASE k # i
      BY <3>2, <2>2, <1>3 DEF Active
    <3> QED BY <3>1, <3>2
  <2> QED BY <1>a, <1>1, <2>4, UnseenIntents
<1> QED BY <1>4, <1>5 DEF Polling

LEMMA UnseenFileIntent ==
  ASSUME IInv, IInv', NEW w \in Workers, NEW o \in Objects, FileIntent(w, o)
  PROVE  UNCHANGED Promise!vars
<1>a. TypeOK /\ TypeOK'
  BY DEF IInv
<1>1. UNCHANGED <<ledger, row, file>>
  BY DEF FileIntent
<1>2. ASSUME NEW k \in Intents
      PROVE  /\ intent'[k].irreversible = intent[k].irreversible
             /\ intent'[k].state = intent[k].state
  <2>1. intent' = [intent EXCEPT ![worker[w].intent].live = TRUE]
    BY DEF FileIntent
  <2> QED BY ZenonT(30), <2>1, <1>a DEF TypeOK, Intent
<1> QED BY <1>a, <1>1, <1>2, UnseenIntents

LEMMA UnseenFail ==
  ASSUME IInv, IInv', NEW w \in Workers, Fail(w)
  PROVE  UNCHANGED Promise!vars
<1> DEFINE i == worker[w].intent
<1>a. TypeOK /\ TypeOK'
  BY DEF IInv
<1>1. UNCHANGED <<ledger, row, file>>
  BY DEF Fail
<1>2. CASE UNCHANGED intent
  BY <1>1, <1>2, <1>a, UnseenIntents
<1>3. CASE HoldsLease(w)
  <2>1. i \in Intents /\ intent[i].state = "RUNNING"
    BY <1>3, <1>a DEF HoldsLease, TypeOK, WorkerState
  <2>2. CASE intent' # intent
    <3>1. PICK s \in {"FAILED", "RETRY_WAIT"} :
             intent' = [intent EXCEPT ![i].state = s, ![i].live = FALSE]
      BY <2>2 DEF Fail
    <3> HIDE DEF i
    <3>2. /\ intent'[i].state = s
          /\ \A k \in Intents : /\ intent'[k].irreversible = intent[k].irreversible
                                /\ k # i => intent'[k].state = intent[k].state
      BY <3>1, <2>1, <1>a DEF TypeOK, Intent
    <3> QED BY <2>1, <3>2, <1>1, <1>a, UnseenIntents DEF Active
  <2> QED BY <2>2, <1>2
<1> QED BY <1>2, <1>3 DEF Fail

LEMMA PromiseStep ==
  ASSUME IInv, IInv', [Next]_vars
  PROVE  [Promise!Next]_(Promise!vars)
<1>a. TypeOK /\ TypeOK'
  BY DEF IInv
<1>1. ASSUME UNCHANGED <<intent, row, file, ledger>> PROVE UNCHANGED Promise!vars
  BY <1>1, Unseen DEF Stage, Active, Left
<1>2. ASSUME UNCHANGED <<intent, file, ledger>>, NEW x \in Writers, WriterCommits(x)
      PROVE  UNCHANGED Promise!vars
  <2>1. WriterInv(x)
    BY DEF IInv, WritersInv
  <2>2. writer[x].object \in Objects /\ row[writer[x].object] # 0
    BY <1>2, <2>1 DEF WriterInv, WriterCommits
  <2>3. row \in [Objects -> Nat] /\ row' = [row EXCEPT ![writer[x].object] = @ + 1]
    BY <1>2, <1>a DEF WriterCommits, TypeOK
  <2>4. ASSUME NEW o \in Objects PROVE row'[o] = 0 <=> row[o] = 0
    BY <2>2, <2>3
  <2>5. ASSUME NEW o \in Objects PROVE Left(o)' = Left(o)
    BY <1>2, <2>4 DEF Left
  <2> QED BY <1>2, <2>5, Unseen DEF Stage, Active
<1>3. CASE UNCHANGED vars
  BY <1>1, <1>3 DEF vars
<1>4. CASE Requester
  <2>1. CASE AuthorizationChanges
    BY <1>1, <2>1 DEF AuthorizationChanges
  <2>2. ASSUME NEW i \in Intents, Create(i) \/ Undo(i) \/ Retry(i)
        PROVE  [Promise!Next]_(Promise!vars)
    BY <2>2, CreatePromised, UndoPromised, UnseenByRequester DEF Promise!Next
  <2> QED BY <1>4, <2>1, <2>2 DEF Requester
<1>5. CASE Clock
  BY <1>5, UnseenByRequester DEF Clock
<1>6. ASSUME NEW x \in Writers, Writing(x) PROVE [Promise!Next]_(Promise!vars)
  <2>1. WriterCommits(x) => UNCHANGED <<intent, file, ledger>>
    BY DEF WriterCommits
  <2>2. WriterCommits(x) \/ UNCHANGED <<intent, row, file, ledger>>
    BY <1>6 DEF Writing, WriterBegins, WriterWrites, WriterRollsBack
  <2> QED BY <2>1, <2>2, <1>1, <1>2
<1>7. ASSUME NEW w \in Workers, Polling(w) PROVE [Promise!Next]_(Promise!vars)
  BY <1>7, UnseenPolling
<1>8. ASSUME NEW w \in Workers, Working(w) PROVE [Promise!Next]_(Promise!vars)
  <2>1. CASE Prepare(w)
    BY <2>1, PreparePromised DEF Promise!Next
  <2>2. CASE Unlink(w)
    BY <2>2, UnlinkPromised DEF Promise!Next
  <2>3. CASE Commit(w)
    BY <2>3, CommitPromised DEF Promise!Next
  <2>4. ASSUME NEW o \in Objects, FileIntent(w, o) PROVE [Promise!Next]_(Promise!vars)
    BY <2>4, UnseenFileIntent
  <2>5. CASE Scan(w) \/ RemoveBegin(w) \/ RecordRemoved(w)
    BY <2>5, <1>1 DEF Scan, RemoveBegin, RecordRemoved
  <2> QED BY <1>8, <2>1, <2>2, <2>3, <2>4, <2>5 DEF Working
<1>9. ASSUME NEW w \in Workers, Failing(w) PROVE [Promise!Next]_(Promise!vars)
  <2>1. CASE WorkerFails(w) \/ TransactionLost(w) \/ Crash(w)
    BY <2>1, <1>1 DEF WorkerFails, TransactionLost, Crash
  <2> QED BY <1>9, <2>1, UnseenFail DEF Failing
<1> QED BY <1>3, <1>4, <1>5, <1>6, <1>7, <1>8, <1>9 DEF Next

LEMMA PromiseInit == Init => Promise!Init
<1> SUFFICES ASSUME Init PROVE Promise!Init
  OBVIOUS
<1>1. Stages = [i \in Intents |-> "none"]
  <2>1. ASSUME NEW i \in Intents PROVE Stage(i) = "none"
    <3>1. intent[i].state = "ABSENT"
      BY DEF Init, NoIntent
    <3> QED BY <3>1 DEF Stage, Active
  <2> QED BY <2>1 DEF Stages
<1>2. DataLeft = [o \in Objects |-> "whole"]
  BY DEF Init, DataLeft, Left
<1> QED BY <1>1, <1>2 DEF Init, Promise!Init

\* Deletion keeps its promise to the requester, whatever crashes, retries and
\* writers do: it implements DeletionPromise.
THEOREM Implementation == Spec => KeepsPromise
<1>1. Init => Promise!Init
  BY PromiseInit
<1>2. IInv /\ IInv' /\ [Next]_vars => [Promise!Next]_(Promise!vars)
  BY PromiseStep
<1> QED BY <1>1, <1>2, Invariance, PTL DEF Spec, KeepsPromise, Promise!Spec

-----------------------------------------------------------------------------
(* What an overtaken worker may still do                                   *)

\* A worker that polls remembers nothing of the last intent.
PollInv == \A w \in Workers : worker[w].phase = "poll" => worker[w] = Idle

LEMMA PollInvStep ==
  ASSUME TypeOK, PollInv, [Next]_vars
  PROVE  PollInv'
<1> SUFFICES ASSUME NEW w \in Workers, worker'[w].phase = "poll" PROVE worker'[w] = Idle
  BY DEF PollInv
<1>1. worker[w].phase = "poll" => worker[w] = Idle
  BY DEF PollInv
<1>2. worker \in [Workers -> WorkerState]
  BY DEF TypeOK
<1>3. CASE UNCHANGED worker
  BY <1>1, <1>3
<1>4. ASSUME NEW v \in Workers, NEW i \in Intents, Claim(v, i) PROVE worker'[w] = Idle
  <2>1. w # v => worker'[w] = worker[w]
    BY <1>2, <1>4 DEF Claim
  <2>2. w = v => worker'[w].phase = "prepare"
    BY <1>2, <1>4 DEF Claim, Idle
  <2> QED BY <1>1, <2>1, <2>2
<1>5. ASSUME NEW v \in Workers, Working(v) \/ Failing(v) PROVE worker'[w] = Idle
  <2>1. CASE worker' = [worker EXCEPT ![v] = Idle]
    BY <1>1, <1>2, <2>1
  <2>2. ASSUME NEW p \in {"scan", "files", "remove", "unlink", "record", "failing"},
               worker'[v].phase = p, \A u \in Workers : u # v => worker'[u] = worker[u]
        PROVE  worker'[w] = Idle
    BY <1>1, <2>2
  <2>3. CASE Prepare(v) \/ Unlink(v) \/ Scan(v) \/ RemoveBegin(v)
    BY <1>2, <2>2, <2>3 DEF Prepare, Unlink, Scan, RemoveBegin, Goto, WorkerState
  <2>4. CASE RecordRemoved(v) \/ WorkerFails(v) \/ \E o \in Objects : FileIntent(v, o)
    <3>1. CASE RecordRemoved(v)
      BY <1>2, <2>2, <3>1 DEF RecordRemoved, WorkerState
    <3>2. CASE WorkerFails(v)
      BY <1>2, <2>2, <3>2 DEF WorkerFails, WorkerState
    <3>3. ASSUME NEW o \in Objects, FileIntent(v, o) PROVE worker'[w] = Idle
      BY <1>2, <2>2, <3>3 DEF FileIntent, WorkerState
    <3> QED BY <2>4, <3>1, <3>2, <3>3
  <2>5. CASE Commit(v) \/ Fail(v) \/ Crash(v)
    BY <2>1, <2>5 DEF Commit, Fail, Crash, Poll
  <2>6. CASE TransactionLost(v)
    <3>1. worker[v].locked /\ worker' = [worker EXCEPT ![v].locked = FALSE]
      BY <2>6 DEF TransactionLost
    <3>2. worker[v].phase \in {"unlink", "record"}
      BY <3>1 DEF TypeOK
    <3>3. worker'[v].phase = worker[v].phase
      BY <1>2, <3>1 DEF WorkerState
    <3> QED BY <1>2, <2>2, <3>1, <3>2, <3>3
  <2> QED BY <1>5, <2>3, <2>4, <2>5, <2>6 DEF Working, Failing
<1>6. CASE Requester \/ Clock \/ \E x \in Writers : Writing(x)
  BY <1>3, <1>6 DEF Requester, Create, Undo, Retry, AuthorizationChanges, Clock, BecomesDue,
     LeaseRunsOut, Writing, WriterBegins, WriterWrites, WriterCommits, WriterRollsBack
<1>7. ASSUME NEW v \in Workers, RecoverOnly(v) PROVE worker'[w] = Idle
  BY <1>3, <1>7 DEF RecoverOnly
<1> QED BY <1>3, <1>4, <1>5, <1>6, <1>7 DEF Next, Polling, vars

\* Only its own steps move a worker.
LEMMA WhoMoves ==
  ASSUME TypeOK, [Next]_vars, NEW w \in Workers, worker'[w] # worker[w]
  PROVE  Working(w) \/ Failing(w) \/ \E i \in Intents : Claim(w, i)
<1>2. worker \in [Workers -> WorkerState]
  BY DEF TypeOK
<1>3. ~UNCHANGED worker
  OBVIOUS
<1>4. ASSUME NEW v \in Workers, v # w, NEW i \in Intents, Claim(v, i) PROVE FALSE
  BY <1>2, <1>4 DEF Claim
<1>5. ASSUME NEW v \in Workers, v # w, Working(v) PROVE FALSE
  <2>1. CASE Prepare(v) \/ Unlink(v) \/ Commit(v)
    BY <1>2, <1>5, <2>1 DEF Prepare, Unlink, Commit, Goto, Poll
  <2>2. CASE Scan(v) \/ RemoveBegin(v) \/ RecordRemoved(v) \/ \E o \in Objects : FileIntent(v, o)
    BY <1>2, <1>5, <2>2 DEF Scan, RemoveBegin, RecordRemoved, FileIntent
  <2> QED BY <1>5, <2>1, <2>2 DEF Working
<1>6. ASSUME NEW v \in Workers, v # w, Failing(v) PROVE FALSE
  BY <1>2, <1>6 DEF Failing, WorkerFails, Fail, TransactionLost, Crash, Poll
<1>7. ~(Requester \/ Clock \/ \E x \in Writers : Writing(x))
  BY <1>3 DEF Requester, Create, Undo, Retry, AuthorizationChanges, Clock, BecomesDue,
     LeaseRunsOut, Writing, WriterBegins, WriterWrites, WriterCommits, WriterRollsBack
<1>8. ~UNCHANGED vars /\ \A v \in Workers : ~RecoverOnly(v)
  BY <1>3 DEF RecoverOnly, vars
<1> QED BY <1>4, <1>5, <1>6, <1>7, <1>8 DEF Next, Polling

\* What it does after its lease has passed to another touches no row of the intent.
LEMMA FencedStep ==
  ASSUME TypeOK, PollInv, [Next]_vars, NEW w \in Workers, NEW i \in Intents,
         worker[w].intent = i, worker[w].version # intent[i].version, worker'[w] # worker[w]
  PROVE  intent'[i] = intent[i] /\ receipt'[i] = receipt[i] /\ row' = row
<1>1. ~HoldsLease(w) /\ ~LocksLease(w)
  BY DEF HoldsLease, LocksLease
<1>2. worker[w].phase # "poll"
  BY ConstantsAssumption DEF PollInv, Idle
<1>3. \A k \in Intents : ~Claim(w, k)
  BY <1>2 DEF Claim
<1>4. CASE Working(w)
  <2>1. Scan(w) \/ Unlink(w)
    BY <1>1, <1>4 DEF Working, Prepare, RemoveBegin, RecordRemoved, Commit, FileIntent
  <2> QED BY <2>1 DEF Scan, Unlink
<1>5. CASE Failing(w)
  BY <1>1, <1>5 DEF Failing, WorkerFails, Fail, TransactionLost, Crash
<1> QED BY <1>3, <1>4, <1>5, WhoMoves

\* A worker whose lease has passed to another, before or after a crash, in any of
\* its transactions, changes neither the intent nor its receipts nor a record.
THEOREM OvertakenWorkerIsFencedHolds == Spec => OvertakenWorkerIsFenced
<1> DEFINE Fenced == \A w \in Workers, i \in Intents :
                        /\ worker[w].intent = i
                        /\ worker[w].version # intent[i].version
                        /\ worker'[w] # worker[w]
                        => /\ intent'[i] = intent[i]
                           /\ receipt'[i] = receipt[i]
                           /\ row' = row
<1>1. Init => PollInv
  BY DEF Init, PollInv
<1>2. TypeOK /\ PollInv /\ [Next]_vars => PollInv'
  BY PollInvStep
<1>3. TypeOK /\ PollInv /\ [Next]_vars => [Fenced]_vars
  BY FencedStep
<1> QED BY <1>1, <1>2, <1>3, TypeCorrect, PTL DEF Spec, OvertakenWorkerIsFenced

=============================================================================
