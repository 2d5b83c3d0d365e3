----------------------------- MODULE DataDelete -----------------------------
(***************************************************************************)
(* Deletion of a user's data: packages/db/src/data-delete-*.ts, the worker *)
(* scripts/workers/data-delete-worker.ts, the files of                     *)
(* packages/storage/src/data-delete-files.ts, and the write fence, a       *)
(* trigger of the migration v20_data_delete_intents.                       *)
(*                                                                         *)
(* An intent freezes its objects behind fences, waits, and is then carried *)
(* out by a worker: mark it irreversible, remove its files one by one,     *)
(* delete its records.  An object is a record that owns one stored file.   *)
(* Transactions that only touch the database are one action; the one that  *)
(* removes a file holds its row lock over RemoveBegin, Unlink and          *)
(* RecordRemoved, and TransactionLost ends it under the worker's feet.     *)
(***************************************************************************)
EXTENDS Integers, Sequences, FiniteSets

CONSTANTS
    Intents,       \* deletion requests
    Trash,         \* those of scope RESOURCE
    Objects,
    Target,        \* Target[i]: the objects of the plan of intent i
    Workers,
    Writers,       \* ordinary transactions of the application
    Serial,        \* those that run at isolation level Serializable
    None,
    MaxAttempts,   \* attempts of an intent before it fails for good (5)
    MaxRetries,    \* bound: retries by the requester
    MaxEdits,      \* bound: committed edits of a record
    MaxEpoch,      \* bound: changes of the requester's authorization
    MaxFaults      \* bound: crashes and lost transactions

ASSUME ConstantsAssumption ==
    /\ Trash \subseteq Intents
    /\ Target \in [Intents -> SUBSET Objects]
    /\ Serial \subseteq Writers
    /\ None \notin Intents \cup Objects
    /\ MaxAttempts \in Nat \ {0}
    /\ MaxRetries \in Nat
    /\ MaxEdits \in Nat
    /\ MaxEpoch \in Nat
    /\ MaxFaults \in Nat

VARIABLES
    intent,   \* intent[i]: the row of DataDeletionIntent
    frozen,   \* frozen[i][o]: rowHash of the item, the version of the record
    receipt,  \* receipt[i][o]: phase of the row of DataDeletionFile
    fence,    \* fence[o]: the intent behind whose fence the record is
    row,      \* row[o]: the version of the record, 0 once it is deleted
    file,     \* file[o]: the file is in the storage root
    ledger,   \* the intents of DataDeletionLedger, in the order of sequence
    epoch,    \* what authorizationHash hashes
    worker,   \* worker[w]: a deletion worker
    writer,   \* writer[x]: a transaction of the application
    retries,  \* retries[i]: retries so far
    faults

vars == <<intent, frozen, receipt, fence, row, file, ledger, epoch, worker, writer,
          retries, faults>>

-----------------------------------------------------------------------------
States == {"ABSENT", "HELD", "RUNNING", "RETRY_WAIT", "FAILED", "SUCCEEDED",
           "CANCELLED", "RESTORED"}

\* HELD is TRASHED for a resource and COOLDOWN for the rest; due: availableAt
\* has passed; live: leaseExpiresAt has not; auth: authorizationHash.
Intent == [state: States, due: BOOLEAN, version: Nat, live: BOOLEAN,
           attempt: 0..MaxAttempts, irreversible: BOOLEAN, auth: 0..MaxEpoch]

NoIntent == [state |-> "ABSENT", due |-> FALSE, version |-> 0, live |-> FALSE,
             attempt |-> 0, irreversible |-> FALSE, auth |-> 0]

Over == {"SUCCEEDED", "CANCELLED", "RESTORED"}

Executing == {"prepare", "scan", "files", "remove", "unlink", "record"}

\* todo: the files still to remove; object: the one at hand; locked: the
\* transaction that removes it is open.
WorkerState == [phase: Executing \cup {"poll", "failing"}, intent: Intents \cup {None},
                version: Nat, todo: SUBSET Objects, object: Objects \cup {None},
                locked: BOOLEAN]

Idle == [phase |-> "poll", intent |-> None, version |-> 0, todo |-> {}, object |-> None,
         locked |-> FALSE]

\* seen: the fences in the snapshot of the transaction.
WriterState == [phase: {"idle", "open", "wrote"}, seen: SUBSET Objects,
                object: Objects \cup {None}]

NoWriter == [phase |-> "idle", seen |-> {}, object |-> None]

Poll(w) == worker' = [worker EXCEPT ![w] = Idle]

Goto(w, p) == worker' = [worker EXCEPT ![w].phase = p]

-----------------------------------------------------------------------------
(* Locks                                                                   *)

\* The row of i is locked by the transaction that removes a file.
RowLocked(i) == \E w \in Workers : worker[w].locked /\ worker[w].intent = i

\* Seeded bug: the freeze does not wait for writers.
FenceLockFreeForWriters == \A w \in Workers : ~worker[w].locked

\* pg_advisory_xact_lock(DELETE_FENCE_LOCK) can be had: nobody holds it
\* shared, neither a worker nor a transaction that has written.
FenceLockFree ==
    /\ \A w \in Workers : ~worker[w].locked
    /\ \A x \in Writers : writer[x].phase # "wrote"

\* Seeded bug: the version of the lease is not compared.
HoldsAnyLease(w) ==
    LET i == worker[w].intent IN
    i # None /\ intent[i].state = "RUNNING" /\ intent[i].live

\* assertDeleteLease
HoldsLease(w) ==
    LET i == worker[w].intent IN
    /\ i # None
    /\ intent[i].state = "RUNNING"
    /\ intent[i].version = worker[w].version
    /\ intent[i].live

\* lockedDeleteLease
LocksLease(w) == HoldsLease(w) /\ ~RowLocked(worker[w].intent)

\* The plan of i, rebuilt, has the frozen items, behind fences of i.
SameItems(i) == \A o \in Target[i] : row[o] = frozen[i][o] /\ fence[o] = i

\* verifyFrozenDeletePlan
PlanHolds(i) == intent[i].auth = epoch /\ SameItems(i)

-----------------------------------------------------------------------------
Init ==
    /\ intent = [i \in Intents |-> NoIntent]
    /\ frozen = [i \in Intents |-> [o \in Objects |-> 0]]
    /\ receipt = [i \in Intents |-> [o \in Objects |-> "none"]]
    /\ fence = [o \in Objects |-> None]
    /\ row = [o \in Objects |-> 1]
    /\ file = [o \in Objects |-> TRUE]
    /\ ledger = <<>>
    /\ epoch = 0
    /\ worker = [w \in Workers |-> Idle]
    /\ writer = [x \in Writers |-> NoWriter]
    /\ retries = [i \in Intents |-> 0]
    /\ faults = 0

-----------------------------------------------------------------------------
(* The requester                                                           *)

\* The plan has records, none of them frozen already.
Freezable(i) == \A o \in Target[i] : row[o] # 0 /\ fence[o] = None

\* createDatabaseDeletion; a plan with an item that is frozen already is blocked.
Create(i) ==
    /\ intent[i].state = "ABSENT"
    /\ FenceLockFree
    /\ Freezable(i)
    /\ intent' = [intent EXCEPT ![i].state = "HELD", ![i].auth = epoch]
    /\ frozen' = [frozen EXCEPT ![i] = [o \in Objects |-> IF o \in Target[i] THEN row[o] ELSE 0]]
    /\ fence' = [o \in Objects |-> IF o \in Target[i] THEN i ELSE fence[o]]
    /\ UNCHANGED <<receipt, row, file, ledger, epoch, worker, writer, retries, faults>>

\* Seeded bug: the mark of irreversibility is not looked at.
UndoableAnyTime(i) == intent[i].state \notin Over \cup {"ABSENT"}

Undoable(i) ==
    /\ intent[i].state \notin Over \cup {"ABSENT"}
    /\ ~intent[i].irreversible
    /\ i \in Trash => ~intent[i].due

\* controlDatabaseDeletion: cancel, or restore from the trash.
Undo(i) ==
    /\ Undoable(i)
    /\ FenceLockFree
    /\ fence' = [o \in Objects |-> IF fence[o] = i THEN None ELSE fence[o]]
    /\ intent' = [intent EXCEPT ![i].state = IF i \in Trash THEN "RESTORED" ELSE "CANCELLED",
                                ![i].live = FALSE]
    /\ UNCHANGED <<frozen, receipt, row, file, ledger, epoch, worker, writer, retries, faults>>

\* controlDatabaseDeletion: retry, which binds the authorization anew.
Retry(i) ==
    /\ intent[i].state = "FAILED"
    /\ retries[i] < MaxRetries
    /\ FenceLockFree
    /\ SameItems(i)
    /\ intent' = [intent EXCEPT ![i].state = "RETRY_WAIT", ![i].attempt = 0,
                                ![i].auth = epoch, ![i].live = FALSE]
    /\ retries' = [retries EXCEPT ![i] = @ + 1]
    /\ UNCHANGED <<frozen, receipt, fence, row, file, ledger, epoch, worker, writer, faults>>

\* The requester's authorization changes; the transaction that removes a file
\* holds it FOR SHARE.
AuthorizationChanges ==
    /\ epoch < MaxEpoch
    /\ \A w \in Workers : ~worker[w].locked
    /\ epoch' = epoch + 1
    /\ UNCHANGED <<intent, frozen, receipt, fence, row, file, ledger, worker, writer,
                   retries, faults>>

-----------------------------------------------------------------------------
(* Time                                                                    *)

\* availableAt passes, a day or a month after the freeze, when every
\* transaction that began before the freeze has ended (they time out in seconds).
BecomesDue(i) ==
    /\ intent[i].state = "HELD"
    /\ ~intent[i].due
    /\ \A x \in Writers : writer[x].phase # "idle" => Target[i] \subseteq writer[x].seen
    /\ intent' = [intent EXCEPT ![i].due = TRUE]
    /\ UNCHANGED <<frozen, receipt, fence, row, file, ledger, epoch, worker, writer,
                   retries, faults>>

LeaseRunsOut(i) ==
    /\ intent[i].state = "RUNNING"
    /\ intent[i].live
    /\ intent' = [intent EXCEPT ![i].live = FALSE]
    /\ UNCHANGED <<frozen, receipt, fence, row, file, ledger, epoch, worker, writer,
                   retries, faults>>

-----------------------------------------------------------------------------
(* Ordinary writers and the fence trigger                                  *)

WriterBegins(x) ==
    /\ writer[x].phase = "idle"
    /\ writer' = [writer EXCEPT ![x] = [phase |-> "open", object |-> None,
                                        seen |-> {o \in Objects : fence[o] # None}]]
    /\ UNCHANGED <<intent, frozen, receipt, fence, row, file, ledger, epoch, worker,
                   retries, faults>>

\* What the trigger sees: at Serializable the snapshot of the transaction, else
\* what is committed now.
FenceSeen(x, o) == IF x \in Serial THEN o \in writer[x].seen ELSE fence[o] # None

\* areaforge_delete_fence_guard: the shared lock first, then the fences.
WriterWrites(x, o) ==
    /\ writer[x].phase = "open"
    /\ row[o] \in 1..MaxEdits
    /\ ~FenceSeen(x, o)
    /\ \A y \in Writers : writer[y].object # o
    /\ writer' = [writer EXCEPT ![x].phase = "wrote", ![x].object = o]
    /\ UNCHANGED <<intent, frozen, receipt, fence, row, file, ledger, epoch, worker,
                   retries, faults>>

WriterCommits(x) ==
    /\ writer[x].phase = "wrote"
    /\ row' = [row EXCEPT ![writer[x].object] = @ + 1]
    /\ writer' = [writer EXCEPT ![x] = NoWriter]
    /\ UNCHANGED <<intent, frozen, receipt, fence, file, ledger, epoch, worker, retries, faults>>

WriterRollsBack(x) ==
    /\ writer[x].phase # "idle"
    /\ writer' = [writer EXCEPT ![x] = NoWriter]
    /\ UNCHANGED <<intent, frozen, receipt, fence, row, file, ledger, epoch, worker,
                   retries, faults>>

-----------------------------------------------------------------------------
(* The worker                                                              *)

\* Seeded bug: the last attempt, too, is to be tried again.
RecoveredForEver ==
    [i \in Intents |->
        IF intent[i].state = "RUNNING" /\ ~intent[i].live /\ ~RowLocked(i)
        THEN [intent[i] EXCEPT !.state = "RETRY_WAIT"]
        ELSE intent[i]]

\* The first half of claimDatabaseDeletion: runs whose lease ran out are taken
\* back, locked rows are skipped.
Recovered ==
    [i \in Intents |->
        IF intent[i].state = "RUNNING" /\ ~intent[i].live /\ ~RowLocked(i)
        THEN [intent[i] EXCEPT !.state = IF intent[i].attempt >= MaxAttempts
                                         THEN "FAILED" ELSE "RETRY_WAIT"]
        ELSE intent[i]]

Claimable(i) ==
    /\ Recovered[i].state \in {"HELD", "RETRY_WAIT"}
    /\ Recovered[i].due
    /\ Recovered[i].attempt < MaxAttempts
    /\ ~RowLocked(i)

\* The second half.  The order of availableAt and the backoff are left open.
Claim(w, i) ==
    /\ worker[w].phase = "poll"
    /\ Claimable(i)
    /\ intent' = [Recovered EXCEPT ![i].state = "RUNNING", ![i].live = TRUE,
                                   ![i].version = @ + 1, ![i].attempt = @ + 1]
    /\ worker' = [worker EXCEPT ![w] = [Idle EXCEPT !.phase = "prepare", !.intent = i,
                                                    !.version = Recovered[i].version + 1]]
    /\ UNCHANGED <<frozen, receipt, fence, row, file, ledger, epoch, writer, retries, faults>>

\* There is no candidate.
RecoverOnly(w) ==
    /\ worker[w].phase = "poll"
    /\ \A i \in Intents : ~Claimable(i)
    /\ Recovered # intent
    /\ intent' = Recovered
    /\ UNCHANGED <<frozen, receipt, fence, row, file, ledger, epoch, worker, writer,
                   retries, faults>>

\* prepareDeletionFiles: the files are registered and the intent is marked, once.
Prepare(w) ==
    LET i == worker[w].intent IN
    /\ worker[w].phase = "prepare"
    /\ LocksLease(w)
    /\ PlanHolds(i)
    /\ intent[i].irreversible \/ \A o \in Target[i] : file[o]
    /\ receipt' = IF intent[i].irreversible THEN receipt
                  ELSE [receipt EXCEPT ![i] = [o \in Objects |->
                            IF o \in Target[i] THEN "PENDING" ELSE "none"]]
    /\ intent' = [intent EXCEPT ![i].irreversible = TRUE, ![i].live = TRUE]
    /\ Goto(w, "scan")
    /\ UNCHANGED <<frozen, fence, row, file, ledger, epoch, writer, retries, faults>>

\* The files that have no receipt yet, read outside any transaction.
Scan(w) ==
    LET i == worker[w].intent IN
    /\ worker[w].phase = "scan"
    /\ worker' = [worker EXCEPT ![w].phase = "files",
                    ![w].todo = {o \in Target[i] : receipt[i][o] # "REMOVED"}]
    /\ UNCHANGED <<intent, frozen, receipt, fence, row, file, ledger, epoch, writer,
                   retries, faults>>

\* Seeded bug: the removal is not announced.
NoFileIntent(w, o) ==
    /\ worker[w].phase = "files"
    /\ o \in worker[w].todo
    /\ LocksLease(w)
    /\ intent' = [intent EXCEPT ![worker[w].intent].live = TRUE]
    /\ worker' = [worker EXCEPT ![w].phase = "remove", ![w].object = o]
    /\ UNCHANGED <<frozen, receipt, fence, row, file, ledger, epoch, writer, retries, faults>>

\* The first transaction of a file: the lease is renewed, the removal announced.
FileIntent(w, o) ==
    LET i == worker[w].intent IN
    /\ worker[w].phase = "files"
    /\ o \in worker[w].todo
    /\ LocksLease(w)
    /\ intent' = [intent EXCEPT ![i].live = TRUE]
    /\ receipt' = [receipt EXCEPT ![i][o] = "INTENT"]
    /\ worker' = [worker EXCEPT ![w].phase = "remove", ![w].object = o]
    /\ UNCHANGED <<frozen, fence, row, file, ledger, epoch, writer, retries, faults>>

\* The second: the row is locked and the authorization looked at again ...
RemoveBegin(w) ==
    /\ worker[w].phase = "remove"
    /\ LocksLease(w)
    /\ intent[worker[w].intent].auth = epoch
    /\ worker' = [worker EXCEPT ![w].phase = "unlink", ![w].locked = TRUE]
    /\ UNCHANGED <<intent, frozen, receipt, fence, row, file, ledger, epoch, writer,
                   retries, faults>>

\* ... removeDeletionFile, for which a missing file is no error ...
Unlink(w) ==
    /\ worker[w].phase = "unlink"
    /\ file' = [file EXCEPT ![worker[w].object] = FALSE]
    /\ Goto(w, "record")
    /\ UNCHANGED <<intent, frozen, receipt, fence, row, ledger, epoch, writer, retries, faults>>

\* ... and its receipt.  The lease was not renewed and may have run out.
RecordRemoved(w) ==
    LET i == worker[w].intent  o == worker[w].object IN
    /\ worker[w].phase = "record"
    /\ worker[w].locked
    /\ HoldsLease(w)
    /\ receipt' = [receipt EXCEPT ![i][o] = "REMOVED"]
    /\ worker' = [worker EXCEPT ![w].phase = "files", ![w].todo = @ \ {o},
                                ![w].object = None, ![w].locked = FALSE]
    /\ UNCHANGED <<intent, frozen, fence, row, file, ledger, epoch, writer, retries, faults>>

\* The database ends the transaction, at its timeout or with the connection,
\* while the process is at work on the file.
TransactionLost(w) ==
    /\ worker[w].locked
    /\ faults < MaxFaults
    /\ faults' = faults + 1
    /\ worker' = [worker EXCEPT ![w].locked = FALSE]
    /\ UNCHANGED <<intent, frozen, receipt, fence, row, file, ledger, epoch, writer, retries>>

FilesRemoved(i) == \A o \in Target[i] : receipt[i][o] = "REMOVED"

\* commitDatabaseDeletion: records, ledger, fences and state in one transaction.
Commit(w) ==
    LET i == worker[w].intent IN
    /\ worker[w].phase = "files"
    /\ worker[w].todo = {}
    /\ LocksLease(w)
    /\ intent[i].irreversible
    /\ FilesRemoved(i)
    /\ PlanHolds(i)
    /\ row' = [o \in Objects |-> IF o \in Target[i] THEN 0 ELSE row[o]]
    /\ ledger' = Append(ledger, i)
    /\ fence' = [o \in Objects |-> IF fence[o] = i THEN None ELSE fence[o]]
    /\ intent' = [intent EXCEPT ![i].state = "SUCCEEDED", ![i].live = FALSE]
    /\ Poll(w)
    /\ UNCHANGED <<frozen, receipt, file, epoch, writer, retries, faults>>

\* Seeded bug: the transaction of a failed step stays open.
WorkerFailsInTransaction(w) ==
    /\ worker[w].phase \in Executing
    /\ Goto(w, "failing")
    /\ UNCHANGED <<intent, frozen, receipt, fence, row, file, ledger, epoch, writer,
                   retries, faults>>

\* Anything throws: an open transaction rolls back, a file stays removed.
WorkerFails(w) ==
    /\ worker[w].phase \in Executing
    /\ worker' = [worker EXCEPT ![w].phase = "failing", ![w].locked = FALSE]
    /\ UNCHANGED <<intent, frozen, receipt, fence, row, file, ledger, epoch, writer,
                   retries, faults>>

\* failDatabaseDeletion
Fail(w) ==
    LET i == worker[w].intent IN
    /\ worker[w].phase = "failing"
    /\ ~RowLocked(i)
    /\ \/ ~HoldsLease(w) /\ UNCHANGED intent
       \/ /\ HoldsLease(w)
          /\ \E state \in {"FAILED", "RETRY_WAIT"} :
                /\ state = "RETRY_WAIT" => intent[i].attempt < MaxAttempts
                /\ intent' = [intent EXCEPT ![i].state = state, ![i].live = FALSE]
    /\ Poll(w)
    /\ UNCHANGED <<frozen, receipt, fence, row, file, ledger, epoch, writer, retries, faults>>

\* The process dies and is started again.
Crash(w) ==
    /\ worker[w].phase # "poll"
    /\ faults < MaxFaults
    /\ faults' = faults + 1
    /\ Poll(w)
    /\ UNCHANGED <<intent, frozen, receipt, fence, row, file, ledger, epoch, writer, retries>>

-----------------------------------------------------------------------------
Requester == \/ \E i \in Intents : Create(i) \/ Undo(i) \/ Retry(i)
             \/ AuthorizationChanges

Clock == \E i \in Intents : BecomesDue(i) \/ LeaseRunsOut(i)

Writing(x) ==
    \/ WriterBegins(x) \/ WriterCommits(x) \/ WriterRollsBack(x)
    \/ \E o \in Objects : WriterWrites(x, o)

Polling(w) == RecoverOnly(w) \/ \E i \in Intents : Claim(w, i)

Working(w) ==
    \/ Prepare(w) \/ Scan(w) \/ RemoveBegin(w) \/ Unlink(w) \/ RecordRemoved(w) \/ Commit(w)
    \/ \E o \in Objects : FileIntent(w, o)

Failing(w) == WorkerFails(w) \/ Fail(w) \/ TransactionLost(w) \/ Crash(w)

Next ==
    \/ Requester
    \/ Clock
    \/ \E x \in Writers : Writing(x)
    \/ \E w \in Workers : Polling(w) \/ Working(w) \/ Failing(w)

Spec == Init /\ [][Next]_vars

\* Time passes, transactions end, the worker loop polls, and a worker that
\* cannot go on throws.
Fairness ==
    /\ \A i \in Intents : WF_vars(BecomesDue(i)) /\ WF_vars(LeaseRunsOut(i))
    /\ \A x \in Writers : WF_vars(WriterRollsBack(x))
    /\ \A w \in Workers :
        /\ WF_vars(Polling(w))
        /\ WF_vars(Working(w) \/ WorkerFails(w))
        /\ WF_vars(Fail(w))

FairSpec == Spec /\ Fairness

-----------------------------------------------------------------------------
(* Properties                                                              *)

\* Every variable has its type (the columns of the tables, the process state);
\* only a worker that is removing a file holds its row.
TypeOK ==
    /\ intent \in [Intents -> Intent]
    /\ frozen \in [Intents -> [Objects -> Nat]]
    /\ receipt \in [Intents -> [Objects -> {"none", "PENDING", "INTENT", "REMOVED"}]]
    /\ fence \in [Objects -> Intents \cup {None}]
    /\ row \in [Objects -> Nat]
    /\ file \in [Objects -> BOOLEAN]
    /\ ledger \in Seq(Intents)
    /\ epoch \in 0..MaxEpoch
    /\ worker \in [Workers -> WorkerState]
    /\ \A w \in Workers : worker[w].locked => worker[w].phase \in {"unlink", "record"}
    /\ writer \in [Writers -> WriterState]
    /\ retries \in [Intents -> Nat]
    /\ faults \in 0..MaxFaults

\* What the requester confirmed is what stays there to be deleted or restored:
\* a record behind a fence is the one that was frozen (docs/modules/
\* data-deletion.md:23, the lock that writers and the freeze share).
FreezeHolds == \A o \in Objects : fence[o] # None => row[o] = frozen[fence[o]][o]

\* After any crash the database knows which files may be gone: a file is
\* missing only after a committed announcement of an irreversible intent, and
\* a receipt is never given for a file that is there.
FilesMatchReceipts ==
    \A o \in Objects :
        /\ ~file[o] => \E i \in Intents : /\ intent[i].irreversible
                                          /\ receipt[i][o] \in {"INTENT", "REMOVED"}
        /\ file[o] => \A i \in Intents : receipt[i][o] # "REMOVED"

\* A worker whose lease has passed to another changes neither the intent nor
\* its receipts nor a record (lockedDeleteLease in every transaction).
OvertakenWorkerIsFenced ==
    [][\A w \in Workers, i \in Intents :
        /\ worker[w].intent = i
        /\ worker[w].version # intent[i].version
        /\ worker'[w] # worker[w]
        => /\ intent'[i] = intent[i]
           /\ receipt'[i] = receipt[i]
           /\ row' = row]_vars

Active(i) == intent[i].state \in {"HELD", "RUNNING", "RETRY_WAIT", "FAILED"}

Stage(i) ==
    CASE intent[i].state = "ABSENT" -> "none"
      [] intent[i].state \in {"CANCELLED", "RESTORED"} -> "undone"
      [] intent[i].state = "SUCCEEDED" -> "done"
      [] Active(i) -> IF intent[i].irreversible THEN "doomed" ELSE "held"

Stages == [i \in Intents |-> Stage(i)]

Left(o) == IF row[o] = 0 THEN "gone" ELSE IF file[o] THEN "whole" ELSE "bare"

DataLeft == [o \in Objects |-> Left(o)]

Promise == INSTANCE DeletionPromise WITH stage <- Stages, data <- DataLeft

\* Deletion implements DeletionPromise: whoever cancels or restores has lost
\* nothing, no two requests work on one object, and success means that files
\* and records are gone and one ledger entry says so.
KeepsPromise == Promise!Spec

\* A request that exists comes to an end: it is undone, it succeeds, or it
\* fails and waits for its requester.
Settles ==
    \A i \in Intents :
        [](intent[i].state # "ABSENT" => <>(intent[i].state \in Over \cup {"FAILED"}))
=============================================================================
