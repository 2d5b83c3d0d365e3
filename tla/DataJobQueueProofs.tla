------------------------- MODULE DataJobQueueProofs -------------------------
(***************************************************************************)
(* Proofs about DataJobQueue, for any jobs, workers, bounds and limits.    *)
(* The inductive invariant relates each row to its history (RowInv) and    *)
(* each process's remembered lease to its row (LeaseInv).                  *)
(***************************************************************************)
EXTENDS DataJobQueue, FiniteSetTheorems, TLAPS

-----------------------------------------------------------------------------
(* The inductive invariant                                                 *)

\* A row, the attempts of it that failed and the effects of it that committed.
RowInv(j, row, failed, effects) ==
    /\ row.status = "ABSENT" => row = NoRow /\ failed = 0
    /\ failed <= MaxAttempts[j]
    /\ row.status \in {"QUEUED", "PAUSED", "FAILED"} => row.attempt = failed
    /\ row.status \in Leased =>
        /\ row.attempt = failed + 1
        /\ row.attempt <= MaxAttempts[j]
        /\ row.leaseUntil # NoTime
    /\ row.status = "QUEUED" \/ (row.status = "FAILED" /\ row.retryable) =>
        /\ row.nextAt # NoTime
        /\ row.attempt < MaxAttempts[j]
    /\ row.status = "PAUSED" => row.attempt < MaxAttempts[j]
    /\ row.status = "FAILED" => row.retryable = ~row.dead
    /\ row.dead => row.status = "FAILED"
    /\ row.pause => row.status = "RUNNING"
    /\ effects = IF row.status = "SUCCEEDED" THEN 1 ELSE 0

RowsInv == \A j \in Jobs : RowInv(j, jobs[j], failures[j], applied[j])

\* What a process remembers was once granted to it alone; while it holds the
\* row lock, the row still says so.
LeaseInv(w) ==
    /\ worker[w].phase \in {"poll", "stopped"} <=> worker[w].job = None
    /\ worker[w].job # None => worker[w].version <= jobs[worker[w].job].leaseVersion
    /\ worker[w].phase = "effect" =>
        /\ jobs[worker[w].job].owner = w
        /\ jobs[worker[w].job].status = "RUNNING"
        /\ ~jobs[worker[w].job].pause
        /\ jobs[worker[w].job].leaseVersion = worker[w].version

LeasesInv == \A w \in Workers : LeaseInv(w)

IInv == TypeOK /\ RowsInv /\ LeasesInv /\ UniqueLease

-----------------------------------------------------------------------------
(* Lemmas about the operators on rows                                      *)

LEMMA PowerOfTwo == \A k \in Nat : 2^k \in Nat
<1>1. SUFFICES ASSUME NEW k \in Nat PROVE 2^k \in Nat
  OBVIOUS
<1>2. IsFiniteSet(1..k) /\ Cardinality(1..k) = k
  BY FS_Interval
<1>3. IsFiniteSet(SUBSET (1..k)) /\ Cardinality(SUBSET (1..k)) = 2^k
  BY <1>2, FS_SUBSET
<1> QED BY <1>3, FS_CardinalityType

LEMMA BackoffType == \A a \in Nat \ {0} : Backoff(a) \in Nat
<1>1. SUFFICES ASSUME NEW a \in Nat \ {0} PROVE Backoff(a) \in Nat
  OBVIOUS
<1> DEFINE k == Smaller(a - 1, 10)
<1>2. k \in Nat
  BY DEF Smaller
<1> HIDE DEF k
<1>3. 2^k \in Nat
  BY <1>2, PowerOfTwo
<1> DEFINE p == 2^k
<1> HIDE DEF p
<1>4. BackoffBase * p \in Nat
  BY <1>3, ConstantsAssumption DEF p
<1>5. Smaller(BackoffCap, BackoffBase * p) \in Nat
  BY <1>4, ConstantsAssumption DEF Smaller
<1> QED BY <1>5 DEF Backoff, p, k

\* A write of a well-typed row is well typed and keeps every other column.
LEMMA SavedRow ==
  ASSUME now \in Nat, NEW row \in Row, NEW data \in Row
  PROVE  /\ Saved(row, data) \in Row
         /\ Saved(row, data).revision > row.revision
         /\ Saved(row, data) = [data EXCEPT !.revision = NextRevision(row)]
         /\ NextRevision(row) \in Nat
<1>1. NextRevision(row) \in Nat /\ NextRevision(row) > row.revision
  BY DEF NextRevision, Larger, Row
<1> QED BY <1>1 DEF Saved, Row

\* The revision is no part of RowInv, except that an existing row is not NoRow.
LEMMA SavedInv ==
  ASSUME now \in Nat, NEW j \in Jobs, NEW row \in Row, NEW data \in Row,
         NEW f, NEW e, RowInv(j, data, f, e), data.status # "ABSENT"
  PROVE  RowInv(j, Saved(row, data), f, e)
<1>1. NextRevision(row) \in Nat
  BY SavedRow
<1> QED BY <1>1 DEF Saved, RowInv, Row

\* Releasing a lease clears the columns of the lease and of the schedule.
LEMMA ReleasedRow ==
  ASSUME NEW row \in Row
  PROVE  LET r == Released(row) IN
         /\ r \in Row
         /\ r.status = row.status /\ r.attempt = row.attempt
         /\ r.leaseVersion = row.leaseVersion /\ r.dead = row.dead
         /\ r.pause = FALSE /\ r.owner = None
         /\ r.leaseUntil = NoTime /\ r.nextAt = NoTime
BY DEF Released, Row

\* A failed attempt is counted, and either scheduled again or a dead letter.
LEMMA FailedRow ==
  ASSUME now \in Nat, NEW j \in Jobs, NEW row \in Row, NEW f \in Nat, NEW e,
         RowInv(j, row, f, e), row.status \in Leased, NEW retry \in BOOLEAN
  PROVE  LET r == Failed(j, row, retry) IN
         /\ r \in Row
         /\ r.leaseVersion = row.leaseVersion
         /\ r.status = "FAILED"
         /\ RowInv(j, r, f + 1, e)
<1>1. row.attempt = f + 1 /\ row.attempt \in Nat \ {0} /\ row.attempt <= MaxAttempts[j]
  BY DEF RowInv, Row
<1>2. row.status # "SUCCEEDED" /\ e = 0
  BY DEF RowInv, Leased
<1> DEFINE next == now + Backoff(row.attempt)
           again == RetryAllowed(j, row, retry)
           released == Released(row)
           due == IF again THEN next ELSE NoTime
           r == Failed(j, row, retry)
<1>3. next \in Nat
  BY <1>1, BackoffType
<1>4. again \in BOOLEAN /\ (again => row.attempt < MaxAttempts[j])
  BY DEF RetryAllowed
<1>5. /\ released \in Row /\ ~released.pause
      /\ released.attempt = row.attempt /\ released.leaseVersion = row.leaseVersion
  BY ReleasedRow
<1>6. r = [released EXCEPT !.status = "FAILED", !.retryable = again,
                           !.dead = ~again, !.nextAt = due]
  BY DEF Failed
<1> HIDE DEF next, again, released, r
<1>7. due \in Nat \cup {NoTime} /\ (again => due # NoTime)
  BY <1>3, <1>4 DEF NoTime
<1> HIDE DEF due
<1>8. /\ r \in Row /\ r.status = "FAILED" /\ r.attempt = row.attempt
      /\ r.leaseVersion = row.leaseVersion /\ r.retryable = again
      /\ r.dead = ~again /\ ~r.pause /\ r.nextAt = due
  BY <1>4, <1>5, <1>6, <1>7 DEF Row, Statuses
<1>9. RowInv(j, r, f + 1, e)
  BY <1>1, <1>2, <1>4, <1>7, <1>8 DEF RowInv, Leased
<1> QED BY <1>8, <1>9 DEF r

\* Settling a pending control keeps the budget: a pause refunds the attempt.
LEMMA SettledRow ==
  ASSUME NEW j \in Jobs, NEW row \in Row, NEW f \in Nat, NEW e,
         RowInv(j, row, f, e), ControlPending(row)
  PROVE  LET r == SettledControl(row) IN
         /\ r \in Row
         /\ r.leaseVersion = row.leaseVersion
         /\ r.status \in {"CANCELLED", "PAUSED"}
         /\ RowInv(j, r, f, e)
<1> DEFINE released == Released(row)
           r == SettledControl(row)
<1>1. /\ released \in Row /\ ~released.pause /\ released.dead = row.dead
      /\ released.attempt = row.attempt /\ released.leaseVersion = row.leaseVersion
  BY ReleasedRow
<1>2. row.status = "CANCEL_REQUESTED" \/ row.status = "RUNNING"
  BY DEF ControlPending, RowInv
<1>3. /\ f <= MaxAttempts[j] /\ ~row.dead /\ e = 0
      /\ row.attempt = f + 1 /\ row.attempt <= MaxAttempts[j]
  BY <1>2 DEF RowInv, Leased
<1>4. CASE row.status = "CANCEL_REQUESTED"
  <2>1. r = [released EXCEPT !.status = "CANCELLED", !.retryable = FALSE]
    BY <1>4 DEF SettledControl
  <2> HIDE DEF released, r
  <2>2. /\ r \in Row /\ r.status = "CANCELLED" /\ ~r.pause /\ ~r.dead
        /\ r.leaseVersion = row.leaseVersion
    BY <1>1, <1>3, <2>1 DEF Row, Statuses
  <2>3. RowInv(j, r, f, e)
    BY <1>3, <2>2 DEF RowInv, Leased
  <2> QED BY <2>2, <2>3 DEF r
<1>5. CASE row.status = "RUNNING"
  <2>1. Larger(0, row.attempt - 1) = f
    BY <1>3 DEF Larger
  <2>2. r = [released EXCEPT !.status = "PAUSED", !.retryable = FALSE, !.attempt = f]
    BY <1>5, <2>1 DEF SettledControl
  <2> HIDE DEF released, r
  <2>3. /\ r \in Row /\ r.status = "PAUSED" /\ ~r.pause /\ ~r.dead
        /\ r.attempt = f /\ r.leaseVersion = row.leaseVersion
    BY <1>1, <1>3, <2>2 DEF Row, Statuses
  <2>4. f < MaxAttempts[j]
    BY <1>3, ConstantsAssumption
  <2>5. RowInv(j, r, f, e)
    BY <1>3, <2>3, <2>4 DEF RowInv, Leased
  <2> QED BY <2>3, <2>5 DEF r
<1> QED BY <1>2, <1>4, <1>5

\* Expiry ends every job but the dead letters.
LEMMA ExpiredRow ==
  ASSUME NEW j \in Jobs, NEW row \in Row, NEW f \in Nat, NEW e,
         RowInv(j, row, f, e), row.status \in Active, ~row.dead
  PROVE  /\ Expired(row) \in Row
         /\ Expired(row).leaseVersion = row.leaseVersion
         /\ Expired(row).status # "ABSENT"
         /\ RowInv(j, Expired(row), f, e)
BY DEF Expired, Released, RowInv, Row, Statuses, Active, Leased, NoTime

-----------------------------------------------------------------------------
(* Lemmas about steps                                                      *)

\* One transaction that writes one row keeps the rows' invariant when the new
\* row satisfies it; columns other than the revision are as written.
LEMMA WriteStep ==
  ASSUME TypeOK, RowsInv, NEW j \in Jobs, NEW data \in Row, Write(j, data),
         data.status # "ABSENT", data.leaseVersion >= jobs[j].leaseVersion,
         RowInv(j, data, failures'[j], applied'[j]),
         \A k \in Jobs \ {j} : failures'[k] = failures[k] /\ applied'[k] = applied[k]
  PROVE  /\ jobs' \in [Jobs -> Row]
         /\ RowsInv'
         /\ \A k \in Jobs \ {j} : jobs'[k] = jobs[k]
         /\ \A k \in Jobs : jobs'[k].leaseVersion >= jobs[k].leaseVersion
         /\ jobs'[j].status = data.status /\ jobs'[j].owner = data.owner
         /\ jobs'[j].pause = data.pause /\ jobs'[j].leaseVersion = data.leaseVersion
<1> DEFINE saved == Saved(jobs[j], data)
<1>1. now \in Nat /\ jobs \in [Jobs -> Row] /\ jobs[j] \in Row
  BY DEF TypeOK
<1>2. /\ saved \in Row
      /\ saved = [data EXCEPT !.revision = NextRevision(jobs[j])]
  BY <1>1, SavedRow
<1>3. RowInv(j, saved, failures'[j], applied'[j])
  BY <1>1, SavedInv
<1>4. /\ saved.status = data.status /\ saved.owner = data.owner
      /\ saved.pause = data.pause /\ saved.leaseVersion = data.leaseVersion
  BY <1>2 DEF Row
<1>5. jobs' = [jobs EXCEPT ![j] = saved]
  BY DEF Write
<1> HIDE DEF saved
<1>6. /\ jobs' \in [Jobs -> Row] /\ jobs'[j] = saved
      /\ \A k \in Jobs \ {j} : jobs'[k] = jobs[k]
  BY <1>1, <1>2, <1>5
<1>7. ASSUME NEW k \in Jobs PROVE RowInv(k, jobs'[k], failures'[k], applied'[k])
  <2>1. CASE k = j
    BY <1>3, <1>6, <2>1
  <2>2. CASE k # j
    BY <1>6, <2>2 DEF RowsInv
  <2> QED BY <2>1, <2>2
<1>8. RowsInv'
  BY <1>7 DEF RowsInv, RowInv
<1>9. ASSUME NEW k \in Jobs PROVE jobs'[k].leaseVersion >= jobs[k].leaseVersion
  BY <1>1, <1>4, <1>6 DEF Row
<1> QED BY <1>4, <1>6, <1>8, <1>9

\* A step of process w that grants no lease keeps what the processes remember.
LEMMA LeaseStep ==
  ASSUME TypeOK, LeasesInv, UniqueLease, NEW w \in Workers,
         worker' \in [Workers -> WorkerState], jobs' \in [Jobs -> Row],
         \A u \in Workers \ {w} : worker'[u] = worker[u],
         \A k \in Jobs : jobs'[k].leaseVersion >= jobs[k].leaseVersion,
         \A u \in Workers \ {w} : worker[u].phase = "effect" =>
             jobs'[worker[u].job] = jobs[worker[u].job],
         \/ worker'[w].job = None
         \/ /\ worker'[w].job = worker[w].job
            /\ worker'[w].version = worker[w].version,
         worker'[w].phase \in {"poll", "stopped"} <=> worker'[w].job = None,
         worker'[w].phase = "effect" =>
            /\ jobs'[worker[w].job].owner = w
            /\ jobs'[worker[w].job].status = "RUNNING"
            /\ ~jobs'[worker[w].job].pause
            /\ jobs'[worker[w].job].leaseVersion = worker[w].version
  PROVE  LeasesInv' /\ UniqueLease'
<1>1. ASSUME NEW u \in Workers PROVE LeaseInv(u)'
  <2>1. /\ worker[u] \in WorkerState /\ worker'[u] \in WorkerState
        /\ jobs \in [Jobs -> Row]
    BY DEF TypeOK
  <2>2. CASE u # w
    <3>1. worker'[u] = worker[u] /\ LeaseInv(u)
      BY <2>2 DEF LeasesInv
    <3>2. worker[u].job # None => worker[u].job \in Jobs
      BY <2>1 DEF WorkerState
    <3>3. worker[u].job # None =>
            worker[u].version <= jobs'[worker[u].job].leaseVersion
      BY <2>1, <3>1, <3>2 DEF LeaseInv, WorkerState, Row
    <3>4. worker[u].phase = "effect" => jobs'[worker[u].job] = jobs[worker[u].job]
      BY <2>2
    <3> QED BY <3>1, <3>3, <3>4 DEF LeaseInv
  <2>3. CASE u = w
    <3>1. worker'[w].job # None =>
            worker'[w].version <= jobs'[worker'[w].job].leaseVersion
      <4>1. SUFFICES ASSUME worker'[w].job # None
                     PROVE  worker'[w].version <= jobs'[worker'[w].job].leaseVersion
        OBVIOUS
      <4>2. worker'[w].job = worker[w].job /\ worker'[w].version = worker[w].version
        BY <4>1
      <4>3. worker[w].job \in Jobs /\ worker[w].version \in Nat
        BY <2>1, <2>3, <4>1, <4>2 DEF WorkerState
      <4>4. worker[w].version <= jobs[worker[w].job].leaseVersion
        BY <4>1, <4>2 DEF LeasesInv, LeaseInv
      <4> QED BY <2>1, <4>2, <4>3, <4>4 DEF Row
    <3>2. worker'[w].phase = "effect" =>
            worker'[w].job = worker[w].job /\ worker'[w].version = worker[w].version
      OBVIOUS
    <3> QED BY <2>3, <3>1, <3>2 DEF LeaseInv
  <2> QED BY <2>2, <2>3
<1>2. UniqueLease'
  BY DEF UniqueLease
<1> QED BY <1>1, <1>2 DEF LeasesInv

\* The variables the invariant says nothing about but their type.
RestTyped ==
    /\ now \in Nat
    /\ scope \in [Jobs -> BOOLEAN]
    /\ view \in [Jobs -> Row]
    /\ controls \in [Jobs -> Nat]
    /\ crashes \in Nat

\* Steps that touch neither rows nor processes.
LEMMA QuietStep ==
  ASSUME IInv, RestTyped', UNCHANGED <<jobs, worker, applied, failures>>
  PROVE  IInv'
<1>1. TypeOK'
  BY DEF IInv, TypeOK, RestTyped
<1>2. RowsInv'
  BY DEF IInv, RowsInv, RowInv
<1>3. LeasesInv' /\ UniqueLease'
  BY DEF IInv, LeasesInv, LeaseInv, UniqueLease
<1> QED BY <1>1, <1>2, <1>3 DEF IInv

\* Steps of one process that write no row.
LEMMA ProcessStep ==
  ASSUME IInv, RestTyped', UNCHANGED <<jobs, applied, failures>>,
         NEW w \in Workers, NEW next \in WorkerState,
         worker' = [worker EXCEPT ![w] = next],
         \/ next.job = None /\ next.phase \in {"poll", "stopped"}
         \/ /\ next.job = worker[w].job /\ next.version = worker[w].version
            /\ worker[w].phase \notin {"poll", "stopped"}
            /\ next.phase \notin {"poll", "stopped"}
            /\ next.phase = "effect" =>
                /\ jobs[worker[w].job].owner = w
                /\ jobs[worker[w].job].status = "RUNNING"
                /\ ~jobs[worker[w].job].pause
                /\ jobs[worker[w].job].leaseVersion = worker[w].version
  PROVE  IInv'
<1>1. /\ TypeOK /\ LeasesInv /\ UniqueLease /\ LeaseInv(w)
      /\ worker \in [Workers -> WorkerState] /\ jobs \in [Jobs -> Row]
  BY DEF IInv, LeasesInv, TypeOK
<1>2. /\ worker' \in [Workers -> WorkerState] /\ worker'[w] = next
      /\ \A u \in Workers \ {w} : worker'[u] = worker[u]
  BY <1>1
<1>3. TypeOK'
  BY <1>1, <1>2 DEF TypeOK, RestTyped
<1>4. RowsInv'
  BY DEF IInv, RowsInv, RowInv
<1>5. \A k \in Jobs : jobs'[k].leaseVersion >= jobs[k].leaseVersion
  BY <1>1 DEF Row
<1>6. worker'[w].phase \in {"poll", "stopped"} <=> worker'[w].job = None
  BY <1>1, <1>2 DEF LeaseInv
<1>7. next.phase = "effect" => next.job # None
  BY <1>2, <1>6
<1>8. LeasesInv' /\ UniqueLease'
  BY <1>1, <1>2, <1>5, <1>6, <1>7, LeaseStep
<1> QED BY <1>3, <1>4, <1>8 DEF IInv

\* Steps that write one unlocked row and leave the processes alone.
LEMMA RowStep ==
  ASSUME IInv, RestTyped', UNCHANGED <<worker, applied>>,
         NEW j \in Jobs, NEW data \in Row, Write(j, data), ~Locked(j),
         data.status # "ABSENT", data.leaseVersion >= jobs[j].leaseVersion,
         failures' \in [Jobs -> Nat], \A k \in Jobs \ {j} : failures'[k] = failures[k],
         RowInv(j, data, failures'[j], applied[j])
  PROVE  IInv'
<1>1. TypeOK /\ RowsInv /\ LeasesInv /\ UniqueLease
  BY DEF IInv
<1>2. /\ jobs' \in [Jobs -> Row] /\ RowsInv'
      /\ \A k \in Jobs \ {j} : jobs'[k] = jobs[k]
      /\ \A k \in Jobs : jobs'[k].leaseVersion >= jobs[k].leaseVersion
  BY <1>1, WriteStep
<1>3. TypeOK'
  BY <1>1, <1>2 DEF TypeOK, RestTyped
<1>4. ASSUME NEW u \in Workers PROVE LeaseInv(u)'
  <2>1. LeaseInv(u) /\ worker[u] \in WorkerState /\ jobs \in [Jobs -> Row]
    BY <1>1 DEF LeasesInv, TypeOK
  <2>2. worker[u].job # None => worker[u].job \in Jobs
    BY <2>1 DEF WorkerState
  <2>3. worker[u].job # None =>
          worker[u].version <= jobs'[worker[u].job].leaseVersion
    BY <1>2, <2>1, <2>2 DEF LeaseInv, WorkerState, Row
  <2>4. worker[u].phase = "effect" => jobs'[worker[u].job] = jobs[worker[u].job]
    <3>1. worker[u].phase = "effect" => worker[u].job # None /\ worker[u].job # j
      BY <2>1 DEF Locked, LeaseInv
    <3> QED BY <1>2, <2>2, <3>1
  <2> QED BY <2>1, <2>3, <2>4 DEF LeaseInv
<1>5. LeasesInv' /\ UniqueLease'
  BY <1>1, <1>4 DEF LeasesInv, UniqueLease
<1> QED BY <1>2, <1>3, <1>5 DEF IInv

\* Steps in which a process writes the row it executes and goes on.
LEMMA ExecutionStep ==
  ASSUME IInv, RestTyped',
         NEW w \in Workers, NEW next \in WorkerState,
         worker' = [worker EXCEPT ![w] = next], next.phase # "effect",
         next.phase \in {"poll", "stopped"} <=> next.job = None,
         \/ next.job = None
         \/ next.job = worker[w].job /\ next.version = worker[w].version,
         NEW j \in Jobs, NEW data \in Row, Write(j, data),
         \A u \in Workers \ {w} : worker[u].phase = "effect" => worker[u].job # j,
         data.status # "ABSENT", data.leaseVersion >= jobs[j].leaseVersion,
         failures' \in [Jobs -> Nat], applied' \in [Jobs -> Nat],
         \A k \in Jobs \ {j} : failures'[k] = failures[k] /\ applied'[k] = applied[k],
         RowInv(j, data, failures'[j], applied'[j])
  PROVE  IInv'
<1>1. TypeOK /\ RowsInv /\ LeasesInv /\ UniqueLease
  BY DEF IInv
<1>2. /\ jobs' \in [Jobs -> Row] /\ RowsInv'
      /\ \A k \in Jobs \ {j} : jobs'[k] = jobs[k]
      /\ \A k \in Jobs : jobs'[k].leaseVersion >= jobs[k].leaseVersion
  BY <1>1, WriteStep
<1>3. /\ worker' \in [Workers -> WorkerState] /\ worker'[w] = next
      /\ \A u \in Workers \ {w} : worker'[u] = worker[u]
  BY <1>1 DEF TypeOK
<1>4. TypeOK'
  BY <1>1, <1>2, <1>3 DEF TypeOK, RestTyped
<1>5. ASSUME NEW u \in Workers \ {w}, worker[u].phase = "effect"
      PROVE  jobs'[worker[u].job] = jobs[worker[u].job]
  <2>1. worker[u].job # None /\ worker[u].job \in Jobs
    BY <1>1, <1>5 DEF LeasesInv, LeaseInv, TypeOK, WorkerState
  <2> QED BY <1>2, <1>5, <2>1
<1>6. LeasesInv' /\ UniqueLease'
  BY <1>1, <1>2, <1>3, <1>5, LeaseStep
<1> QED BY <1>2, <1>4, <1>6 DEF IInv

-----------------------------------------------------------------------------
(* Every action keeps the invariant                                        *)

\* The row of a job that does not exist.
LEMMA NoRowType ==
  /\ NoRow \in Row /\ NoRow.status = "ABSENT" /\ NoRow.attempt = 0
  /\ NoRow.leaseVersion = 0 /\ NoRow.dead = FALSE /\ NoRow.pause = FALSE
BY DEF NoRow, Row, Statuses

LEMMA IInvInit == Init => IInv
<1>1. SUFFICES ASSUME Init PROVE IInv
  OBVIOUS
<1>2. Idle \in WorkerState /\ Idle.phase = "poll" /\ Idle.job = None
  BY DEF Idle, WorkerState, Phases
<1>3. \A j \in Jobs : /\ jobs[j] = NoRow /\ failures[j] = 0 /\ applied[j] = 0
  BY <1>1 DEF Init
<1>4. \A w \in Workers : worker[w] = Idle
  BY <1>1 DEF Init
<1>5. TypeOK
  <2>1. jobs \in [Jobs -> Row] /\ view \in [Jobs -> Row]
    BY <1>1, NoRowType DEF Init
  <2>2. worker \in [Workers -> WorkerState]
    BY <1>1, <1>2 DEF Init
  <2> QED BY <1>1, <2>1, <2>2 DEF Init, TypeOK
<1>6. RowsInv
  <2>1. SUFFICES ASSUME NEW j \in Jobs PROVE RowInv(j, NoRow, 0, 0)
    BY <1>3 DEF RowsInv
  <2>2. 0 <= MaxAttempts[j]
    BY ConstantsAssumption
  <2> QED BY <2>2, NoRowType DEF RowInv, Leased
<1>7. LeasesInv /\ UniqueLease
  BY <1>2, <1>4 DEF LeasesInv, LeaseInv, UniqueLease
<1> QED BY <1>5, <1>6, <1>7 DEF IInv

LEMMA TickKeeps ==
  ASSUME IInv, Tick
  PROVE  IInv'
<1>1. UNCHANGED <<jobs, worker, applied, failures>> /\ RestTyped'
  BY DEF IInv, TypeOK, Tick, RestTyped
<1> QED BY <1>1, QuietStep

LEMMA EnvironmentKeeps ==
  ASSUME IInv, NEW j \in Jobs, RevokeScope(j) \/ RestoreScope(j) \/ ReadJob(j)
  PROVE  IInv'
<1>1. TypeOK
  BY DEF IInv
<1>2. CASE RevokeScope(j) \/ RestoreScope(j)
  <2>1. UNCHANGED <<jobs, worker, applied, failures>> /\ RestTyped'
    BY <1>1, <1>2 DEF RevokeScope, RestoreScope, RestTyped, TypeOK
  <2> QED BY <2>1, QuietStep
<1>3. CASE ReadJob(j)
  <2>1. UNCHANGED <<jobs, worker, applied, failures>>
    BY <1>3 DEF ReadJob
  <2>2. view' \in [Jobs -> Row]
    BY <1>1, <1>3 DEF ReadJob, TypeOK
  <2>3. RestTyped'
    BY <1>1, <1>3, <2>2 DEF ReadJob, RestTyped, TypeOK
  <2> QED BY <2>1, <2>3, QuietStep
<1> QED BY <1>2, <1>3

LEMMA EnqueuedRow ==
  ASSUME now \in Nat, NEW base \in Row
  PROVE  LET r == [base EXCEPT !.status = "QUEUED", !.nextAt = now, !.revision = now] IN
         /\ r \in Row /\ r.status = "QUEUED" /\ r.nextAt = now
         /\ r.leaseVersion = base.leaseVersion /\ r.attempt = base.attempt
         /\ r.dead = base.dead /\ r.pause = base.pause
BY DEF Row, Statuses

LEMMA EnqueueKeeps ==
  ASSUME IInv, NEW j \in Jobs, Enqueue(j)
  PROVE  IInv'
<1> DEFINE row == [NoRow EXCEPT !.status = "QUEUED", !.nextAt = now, !.revision = now]
<1>1. TypeOK /\ RowsInv /\ LeasesInv /\ UniqueLease /\ now \in Nat
  BY DEF IInv, TypeOK
<1>2. jobs[j] = NoRow /\ failures[j] = 0 /\ applied[j] = 0
  BY <1>1 DEF Enqueue, RowsInv, RowInv
<1>3. /\ row \in Row /\ row.leaseVersion = 0 /\ row.status = "QUEUED"
      /\ row.attempt = 0 /\ row.dead = FALSE /\ row.pause = FALSE
      /\ row.nextAt # NoTime
  <2>1. /\ row \in Row /\ row.status = "QUEUED" /\ row.nextAt = now
        /\ row.leaseVersion = NoRow.leaseVersion /\ row.attempt = NoRow.attempt
        /\ row.dead = NoRow.dead /\ row.pause = NoRow.pause
    BY <1>1, NoRowType, EnqueuedRow, Zenon
  <2> HIDE DEF row
  <2> QED BY <1>1, <2>1, NoRowType DEF NoTime
<1>4. jobs' = [jobs EXCEPT ![j] = row]
  BY DEF Enqueue
<1>5. RowInv(j, row, 0, 0)
  <2>1. MaxAttempts[j] \in Nat /\ 0 < MaxAttempts[j]
    BY ConstantsAssumption
  <2> HIDE DEF row
  <2> QED BY <1>3, <2>1 DEF RowInv, Leased
<1> HIDE DEF row
<1>6. /\ jobs' \in [Jobs -> Row] /\ jobs'[j] = row
      /\ \A k \in Jobs \ {j} : jobs'[k] = jobs[k]
  BY <1>1, <1>3, <1>4 DEF TypeOK
<1>7. TypeOK'
  BY <1>1, <1>6 DEF Enqueue, TypeOK
<1>8. RowsInv'
  <2>1. ASSUME NEW k \in Jobs PROVE RowInv(k, jobs'[k], failures'[k], applied'[k])
    <3>1. failures' = failures /\ applied' = applied
      BY DEF Enqueue
    <3>2. CASE k = j
      BY <1>2, <1>5, <1>6, <3>1, <3>2
    <3>3. CASE k # j
      BY <1>1, <1>6, <3>1, <3>3 DEF RowsInv
    <3> QED BY <3>2, <3>3
  <2> QED BY <2>1 DEF RowsInv, RowInv
<1>9. ASSUME NEW u \in Workers PROVE LeaseInv(u)'
  <2>1. LeaseInv(u) /\ worker[u] \in WorkerState /\ worker' = worker
    BY <1>1 DEF LeasesInv, TypeOK, Enqueue
  <2>2. worker[u].phase = "effect" => worker[u].job # j
    BY <1>2, <2>1 DEF LeaseInv, NoRow
  <2>3. jobs[j].leaseVersion = 0
    BY <1>2 DEF NoRow
  <2>4. worker[u].job # None => worker[u].job \in Jobs
    BY <2>1 DEF WorkerState
  <2>5. worker[u].job # None =>
          worker[u].version <= jobs'[worker[u].job].leaseVersion
    BY <1>3, <1>6, <2>1, <2>3, <2>4 DEF LeaseInv
  <2>6. worker[u].phase = "effect" => jobs'[worker[u].job] = jobs[worker[u].job]
    BY <1>6, <2>1, <2>2, <2>4 DEF LeaseInv
  <2> QED BY <2>1, <2>5, <2>6 DEF LeaseInv
<1>10. LeasesInv' /\ UniqueLease'
  BY <1>1, <1>9 DEF LeasesInv, UniqueLease, Enqueue
<1> QED BY <1>7, <1>8, <1>10 DEF IInv

\* What an accepted control has to provide.
LEMMA ControlKeeps ==
  ASSUME IInv, NEW j \in Jobs, NEW data \in Row, Control(j, data),
         data.status # "ABSENT", data.leaseVersion = jobs[j].leaseVersion,
         failures' \in [Jobs -> Nat], \A k \in Jobs \ {j} : failures'[k] = failures[k],
         RowInv(j, data, failures'[j], applied[j])
  PROVE  IInv'
<1>1. TypeOK /\ RowsInv /\ applied' = applied /\ Write(j, data)
  BY DEF IInv, Control
<1>2. data.leaseVersion >= jobs[j].leaseVersion
  BY <1>1 DEF TypeOK, Row
<1>3. RowInv(j, data, failures'[j], applied'[j])
  BY <1>1
<1>4. \A k \in Jobs \ {j} : failures'[k] = failures[k] /\ applied'[k] = applied[k]
  BY <1>1
<1>5. jobs' \in [Jobs -> Row]
  BY <1>1, <1>2, <1>3, <1>4, WriteStep
<1>6. RestTyped'
  BY <1>1, <1>5 DEF Control, TypeOK, RestTyped
<1> QED BY <1>2, <1>6, RowStep DEF Control

LEMMA CancelKeeps ==
  ASSUME IInv, NEW j \in Jobs, Cancel(j)
  PROVE  IInv'
<1> DEFINE row == jobs[j]
           f == failures[j]
<1>1. /\ row \in Row /\ f \in Nat /\ failures' = failures /\ failures \in [Jobs -> Nat]
      /\ RowInv(j, row, f, applied[j]) /\ row.status \in Active
  BY DEF IInv, TypeOK, RowsInv, Cancel
<1>2. CASE row.status \in Leased
  <2> DEFINE data == [row EXCEPT !.status = "CANCEL_REQUESTED", !.pause = FALSE]
  <2>1. Control(j, data)
    BY <1>2 DEF Cancel
  <2> HIDE DEF row
  <2>2. /\ data \in Row /\ data.status = "CANCEL_REQUESTED" /\ data.pause = FALSE
        /\ data.leaseVersion = row.leaseVersion /\ data.attempt = row.attempt
        /\ data.leaseUntil = row.leaseUntil /\ data.dead = row.dead
    BY <1>1 DEF Row, Statuses
  <2> HIDE DEF data
  <2>3. RowInv(j, data, f, applied[j])
    BY <1>1, <1>2, <2>2 DEF RowInv, Leased
  <2> QED BY <1>1, <2>1, <2>2, <2>3, ControlKeeps DEF row, f
<1>3. CASE row.status \notin Leased
  <2> DEFINE released == Released(row)
             data == [released EXCEPT !.status = "CANCELLED", !.retryable = FALSE,
                                      !.dead = FALSE]
  <2>1. Control(j, data)
    BY <1>3 DEF Cancel
  <2> HIDE DEF row
  <2>2. released \in Row /\ released.pause = FALSE
        /\ released.leaseVersion = row.leaseVersion
    BY <1>1, ReleasedRow
  <2> HIDE DEF released
  <2>3. /\ data \in Row /\ data.status = "CANCELLED" /\ data.pause = FALSE
        /\ data.leaseVersion = row.leaseVersion /\ data.dead = FALSE
    BY <2>2 DEF Row, Statuses
  <2> HIDE DEF data
  <2>4. RowInv(j, data, f, applied[j])
    BY <1>1, <1>3, <2>3 DEF RowInv, Leased, Active
  <2> QED BY <1>1, <2>1, <2>3, <2>4, ControlKeeps DEF row, f
<1> QED BY <1>2, <1>3

LEMMA PauseKeeps ==
  ASSUME IInv, NEW j \in Jobs, Pause(j)
  PROVE  IInv'
<1> DEFINE row == jobs[j]
           f == failures[j]
<1>1. /\ row \in Row /\ f \in Nat /\ failures' = failures /\ failures \in [Jobs -> Nat]
      /\ RowInv(j, row, f, applied[j]) /\ ~row.dead
      /\ row.status \in {"QUEUED", "RUNNING", "FAILED"}
  BY DEF IInv, TypeOK, RowsInv, Pause
<1>2. CASE row.status = "RUNNING"
  <2> DEFINE data == [row EXCEPT !.pause = TRUE]
  <2>1. Control(j, data)
    BY <1>2 DEF Pause
  <2> HIDE DEF row
  <2>2. /\ data \in Row /\ data.status = "RUNNING"
        /\ data.leaseVersion = row.leaseVersion /\ data.attempt = row.attempt
        /\ data.leaseUntil = row.leaseUntil /\ data.dead = row.dead
    BY <1>1, <1>2 DEF Row
  <2> HIDE DEF data
  <2>3. RowInv(j, data, f, applied[j])
    BY <1>1, <1>2, <2>2 DEF RowInv, Leased
  <2> QED BY <1>1, <2>1, <2>2, <2>3, ControlKeeps DEF row, f
<1>3. CASE row.status # "RUNNING"
  <2> DEFINE released == Released(row)
             data == [released EXCEPT !.status = "PAUSED", !.retryable = FALSE]
  <2>1. Control(j, data)
    BY <1>3 DEF Pause
  <2> HIDE DEF row
  <2>2. /\ released \in Row /\ released.pause = FALSE /\ released.dead = row.dead
        /\ released.leaseVersion = row.leaseVersion /\ released.attempt = row.attempt
    BY <1>1, ReleasedRow
  <2> HIDE DEF released
  <2>3. /\ data \in Row /\ data.status = "PAUSED" /\ data.pause = FALSE
        /\ data.leaseVersion = row.leaseVersion /\ data.dead = row.dead
        /\ data.attempt = row.attempt
    BY <2>2 DEF Row, Statuses
  <2> HIDE DEF data
  <2>4. row.attempt = f /\ f < MaxAttempts[j]
    BY <1>1, <1>3 DEF RowInv, Row
  <2>5. RowInv(j, data, f, applied[j])
    BY <1>1, <1>3, <2>3, <2>4 DEF RowInv, Leased
  <2> QED BY <1>1, <2>1, <2>3, <2>5, ControlKeeps DEF row, f
<1> QED BY <1>2, <1>3

LEMMA ResumeKeeps ==
  ASSUME IInv, NEW j \in Jobs, Resume(j)
  PROVE  IInv'
<1> DEFINE row == jobs[j]
           data == [Released(row) EXCEPT !.status = "QUEUED", !.nextAt = now,
                        !.retryable = FALSE]
           f == failures[j]
<1>1. /\ row \in Row /\ f \in Nat /\ failures' = failures /\ failures \in [Jobs -> Nat]
      /\ RowInv(j, row, f, applied[j]) /\ now \in Nat
      /\ row.status = "PAUSED" /\ row.attempt < MaxAttempts[j]
  BY DEF IInv, TypeOK, RowsInv, Resume
<1>2. /\ row.attempt = f /\ ~row.dead /\ applied[j] = 0
  BY <1>1 DEF RowInv
<1>3. Control(j, data)
  BY DEF Resume
<1> DEFINE released == Released(row)
<1> HIDE DEF row
<1>4. /\ released \in Row /\ released.pause = FALSE /\ released.dead = row.dead
      /\ released.leaseVersion = row.leaseVersion /\ released.attempt = row.attempt
  BY <1>1, ReleasedRow
<1> HIDE DEF released
<1>5. data = [released EXCEPT !.status = "QUEUED", !.nextAt = now, !.retryable = FALSE]
  BY DEF released
<1> HIDE DEF data
<1>6. /\ data \in Row /\ data.status = "QUEUED" /\ data.leaseVersion = row.leaseVersion
      /\ data.attempt = f /\ data.nextAt = now /\ ~data.dead /\ ~data.pause
  BY <1>1, <1>2, <1>4, <1>5 DEF Row, Statuses
<1>7. MaxAttempts[j] \in Nat /\ f < MaxAttempts[j] /\ now # NoTime
  BY <1>1, <1>2, ConstantsAssumption DEF NoTime
<1>8. RowInv(j, data, f, applied[j])
  BY <1>1, <1>2, <1>6, <1>7 DEF RowInv, Leased
<1> QED BY <1>1, <1>3, <1>6, <1>8, ControlKeeps DEF row, f

LEMMA ReplayKeeps ==
  ASSUME IInv, NEW j \in Jobs, Replay(j)
  PROVE  IInv'
<1> DEFINE row == jobs[j]
           data == [Released(row) EXCEPT !.status = "QUEUED", !.nextAt = now,
                        !.attempt = 0, !.retryable = FALSE, !.dead = FALSE]
<1>1. /\ row \in Row /\ failures' = [failures EXCEPT ![j] = 0]
      /\ failures \in [Jobs -> Nat] /\ now \in Nat
      /\ RowInv(j, row, failures[j], applied[j]) /\ row.status = "FAILED"
  BY DEF IInv, TypeOK, RowsInv, Replay
<1>2. applied[j] = 0
  BY <1>1 DEF RowInv
<1>3. Control(j, data)
  BY DEF Replay
<1>4. MaxAttempts[j] \in Nat /\ 0 < MaxAttempts[j]
  BY ConstantsAssumption
<1>5. now \in Nat /\ now # NoTime
  BY <1>1 DEF NoTime
<1> DEFINE released == Released(row)
<1> HIDE DEF row
<1>6. /\ released \in Row /\ released.pause = FALSE
      /\ released.leaseVersion = row.leaseVersion
  BY <1>1, ReleasedRow
<1> HIDE DEF released
<1>7. data = [released EXCEPT !.status = "QUEUED", !.nextAt = now, !.attempt = 0,
                              !.retryable = FALSE, !.dead = FALSE]
  BY DEF released
<1> HIDE DEF data
<1>8. /\ data \in Row /\ data.status = "QUEUED" /\ data.leaseVersion = row.leaseVersion
      /\ data.attempt = 0 /\ data.nextAt = now /\ ~data.dead /\ ~data.pause
  BY <1>1, <1>6, <1>7 DEF Row, Statuses
<1>9. RowInv(j, data, 0, 0)
  BY <1>4, <1>5, <1>8 DEF RowInv, Leased
<1>10. /\ failures' \in [Jobs -> Nat] /\ failures'[j] = 0
       /\ \A k \in Jobs \ {j} : failures'[k] = failures[k]
  BY <1>1
<1> QED BY <1>1, <1>2, <1>3, <1>8, <1>9, <1>10, ControlKeeps DEF row

\* A process between jobs, and a process that is gone, remember no lease.
LEMMA IdleType ==
  /\ Idle \in WorkerState /\ Idle.phase = "poll" /\ Idle.job = None
  /\ Gone \in WorkerState /\ Gone.phase = "stopped" /\ Gone.job = None
BY DEF Idle, Gone, WorkerState, Phases

LEMMA AfterJobType ==
  ASSUME NEW w \in Workers
  PROVE  AfterJob(w) \in WorkerState /\ AfterJob(w).job = None
         /\ AfterJob(w).phase \in {"poll", "stopped"}
BY IdleType DEF AfterJob

\* A process that changes phase keeps the lease it remembers.
LEMMA PhaseStep ==
  ASSUME TypeOK, NEW w \in Workers, NEW p \in Phases, Phase(w, p)
  PROVE  \E next \in WorkerState :
            /\ worker' = [worker EXCEPT ![w] = next]
            /\ next.phase = p
            /\ next.job = worker[w].job
            /\ next.version = worker[w].version
<1> DEFINE old == worker[w]
           next == [old EXCEPT !.phase = p]
<1>1. old \in WorkerState /\ worker \in [Workers -> WorkerState]
  BY DEF TypeOK
<1>2. next \in WorkerState /\ next.phase = p /\ next.job = old.job
      /\ next.version = old.version
  BY <1>1 DEF WorkerState
<1>3. worker' = [worker EXCEPT ![w] = next]
  BY <1>1 DEF Phase
<1> QED BY <1>2, <1>3

LEMMA ToSettleStep ==
  ASSUME TypeOK, NEW w \in Workers, NEW r \in BOOLEAN, ToSettle(w, r)
  PROVE  \E next \in WorkerState :
            /\ worker' = [worker EXCEPT ![w] = next]
            /\ next.phase = "settle"
            /\ next.job = worker[w].job
            /\ next.version = worker[w].version
<1> DEFINE old == worker[w]
           next == [old EXCEPT !.phase = "settle", !.retry = r]
<1>1. old \in WorkerState /\ worker \in [Workers -> WorkerState]
  BY DEF TypeOK
<1>2. next \in WorkerState /\ next.phase = "settle" /\ next.job = old.job
      /\ next.version = old.version
  BY <1>1 DEF WorkerState, Phases
<1>3. worker' = [worker EXCEPT ![w] = next]
  BY <1>1 DEF ToSettle
<1> QED BY <1>2, <1>3

LEMMA AbortStep ==
  ASSUME TypeOK, NEW w \in Workers,
         worker' = [worker EXCEPT ![w].phase = "settle", ![w].retry = TRUE,
                                  ![w].stopping = TRUE]
  PROVE  \E next \in WorkerState :
            /\ worker' = [worker EXCEPT ![w] = next]
            /\ next.phase = "settle"
            /\ next.job = worker[w].job
            /\ next.version = worker[w].version
<1> DEFINE old == worker[w]
           next == [old EXCEPT !.phase = "settle", !.retry = TRUE, !.stopping = TRUE]
<1>1. old \in WorkerState /\ worker \in [Workers -> WorkerState]
  BY DEF TypeOK
<1>2. next \in WorkerState /\ next.phase = "settle" /\ next.job = old.job
      /\ next.version = old.version
  BY <1>1 DEF WorkerState, Phases
<1>3. worker' = [worker EXCEPT ![w] = next]
  BY <1>1
<1> QED BY <1>2, <1>3

LEMMA SignalStep ==
  ASSUME TypeOK, NEW w \in Workers, worker' = [worker EXCEPT ![w].stopping = TRUE]
  PROVE  \E next \in WorkerState :
            /\ worker' = [worker EXCEPT ![w] = next]
            /\ next.phase = worker[w].phase
            /\ next.job = worker[w].job
            /\ next.version = worker[w].version
<1> DEFINE old == worker[w]
           next == [old EXCEPT !.stopping = TRUE]
<1>1. old \in WorkerState /\ worker \in [Workers -> WorkerState]
  BY DEF TypeOK
<1>2. next \in WorkerState /\ next.phase = old.phase /\ next.job = old.job
      /\ next.version = old.version
  BY <1>1 DEF WorkerState
<1>3. worker' = [worker EXCEPT ![w] = next]
  BY <1>1
<1> QED BY <1>2, <1>3

\* A process that executes a job remembers which.
LEMMA ExecutesJob ==
  ASSUME IInv, NEW w \in Workers, worker[w].phase \notin {"poll", "stopped"}
  PROVE  worker[w].job \in Jobs /\ worker[w].version \in Nat
         /\ worker[w].version <= jobs[worker[w].job].leaseVersion
<1>1. worker[w] \in WorkerState /\ LeaseInv(w)
  BY DEF IInv, TypeOK, LeasesInv
<1> QED BY <1>1 DEF LeaseInv, WorkerState

\* Processes that end an execution, die, start or change phase, writing nothing.
LEMMA LoseLeaseKeeps ==
  ASSUME IInv, NEW w \in Workers, LoseLease(w) \/ EffectTooLate(w)
  PROVE  IInv'
<1>1. worker' = [worker EXCEPT ![w] = AfterJob(w)] /\ UNCHANGED <<jobs, applied, failures>>
  BY DEF LoseLease, EffectTooLate, Finish
<1>2. RestTyped'
  BY DEF LoseLease, EffectTooLate, IInv, TypeOK, RestTyped
<1> QED BY <1>1, <1>2, AfterJobType, ProcessStep

LEMMA CrashKeeps ==
  ASSUME IInv, NEW w \in Workers, Crash(w) \/ Restart(w)
  PROVE  IInv'
<1>1. PICK next \in {Idle, Gone} : worker' = [worker EXCEPT ![w] = next]
  BY DEF Crash, Restart
<1>2. UNCHANGED <<jobs, applied, failures>> /\ RestTyped'
  BY DEF Crash, Restart, IInv, TypeOK, RestTyped
<1> QED BY <1>1, <1>2, IdleType, ProcessStep

LEMMA StopKeeps ==
  ASSUME IInv, NEW w \in Workers, Stop(w)
  PROVE  IInv'
<1>1. TypeOK /\ LeaseInv(w) /\ worker[w] \in WorkerState
  BY DEF IInv, LeasesInv, TypeOK
<1>2. UNCHANGED <<jobs, applied, failures>> /\ RestTyped'
  BY <1>1 DEF Stop, TypeOK, RestTyped
<1>3. CASE worker' = [worker EXCEPT ![w] = Gone]
  BY <1>2, <1>3, IdleType, ProcessStep
<1>4. CASE /\ worker[w].phase \in Executing \cup {"effect"}
           /\ worker' = [worker EXCEPT ![w].phase = "settle", ![w].retry = TRUE,
                                       ![w].stopping = TRUE]
  <2>2. PICK next \in WorkerState :
            /\ worker' = [worker EXCEPT ![w] = next] /\ next.phase = "settle"
            /\ next.job = worker[w].job /\ next.version = worker[w].version
    BY <1>1, <1>4, AbortStep
  <2>3. worker[w].phase \notin {"poll", "stopped"}
    BY <1>4 DEF Executing
  <2> QED BY <1>2, <2>2, <2>3, ProcessStep
<1>5. CASE /\ worker[w].phase \in {"effect", "settle"}
           /\ worker' = [worker EXCEPT ![w].stopping = TRUE]
  <2>2. PICK next \in WorkerState :
            /\ worker' = [worker EXCEPT ![w] = next] /\ next.phase = worker[w].phase
            /\ next.job = worker[w].job /\ next.version = worker[w].version
    BY <1>1, <1>5, SignalStep
  <2> QED BY <1>1, <1>2, <1>5, <2>2, ProcessStep DEF LeaseInv
<1> QED BY <1>3, <1>4, <1>5 DEF Stop

LEMMA ReportKeeps ==
  ASSUME IInv, NEW w \in Workers, ObserveRevoked(w) \/ HandlerFails(w)
  PROVE  IInv'
<1>1. PICK r \in BOOLEAN : ToSettle(w, r)
  BY DEF ObserveRevoked, HandlerFails
<1>2. UNCHANGED <<jobs, applied, failures>> /\ RestTyped'
  BY DEF ObserveRevoked, HandlerFails, IInv, TypeOK, RestTyped
<1>3. worker[w].phase \notin {"poll", "stopped"}
  BY DEF ObserveRevoked, HandlerFails, Reaches, Executing
<1>4. TypeOK
  BY DEF IInv
<1>5. PICK next \in WorkerState :
          /\ worker' = [worker EXCEPT ![w] = next] /\ next.phase = "settle"
          /\ next.job = worker[w].job /\ next.version = worker[w].version
  BY <1>1, <1>4, ToSettleStep
<1> QED BY <1>2, <1>3, <1>5, ProcessStep

LEMMA PreparedKeeps ==
  ASSUME IInv, NEW w \in Workers, Prepared(w)
  PROVE  IInv'
<1>1. Phase(w, "renew") /\ worker[w].phase = "prepare" /\ UNCHANGED <<jobs, applied, failures>>
  BY DEF Prepared
<1>2. RestTyped' /\ TypeOK /\ "renew" \in Phases
  BY DEF Prepared, IInv, TypeOK, RestTyped, Phases
<1>3. PICK next \in WorkerState :
          /\ worker' = [worker EXCEPT ![w] = next] /\ next.phase = "renew"
          /\ next.job = worker[w].job /\ next.version = worker[w].version
  BY <1>1, <1>2, PhaseStep
<1> QED BY <1>1, <1>2, <1>3, ProcessStep

\* The row is locked while the lease is good and no control is pending.
LEMMA CommitBeginKeeps ==
  ASSUME IInv, NEW w \in Workers, CommitBegin(w)
  PROVE  IInv'
<1>1. /\ Phase(w, "effect") /\ worker[w].phase = "commit"
      /\ UNCHANGED <<jobs, applied, failures>>
  BY DEF CommitBegin, Reaches
<1>2. RestTyped' /\ TypeOK /\ "effect" \in Phases
  BY DEF CommitBegin, IInv, TypeOK, RestTyped, Phases
<1>3. PICK next \in WorkerState :
          /\ worker' = [worker EXCEPT ![w] = next] /\ next.phase = "effect"
          /\ next.job = worker[w].job /\ next.version = worker[w].version
  BY <1>1, <1>2, PhaseStep
<1>4. /\ jobs[worker[w].job].owner = w
      /\ jobs[worker[w].job].status = "RUNNING"
      /\ ~jobs[worker[w].job].pause
      /\ jobs[worker[w].job].leaseVersion = worker[w].version
  BY DEF CommitBegin, Proceeds, HoldsLease, ControlPending, Leased
<1> QED BY <1>1, <1>2, <1>3, <1>4, ProcessStep

\* No process but w may hold the lock of the row that w has locked itself.
LEMMA LockExcludes ==
  ASSUME IInv, NEW w \in Workers, NEW j \in Jobs,
         ~Locked(j) \/ (worker[w].phase = "effect" /\ worker[w].job = j)
  PROVE  \A u \in Workers \ {w} : worker[u].phase = "effect" => worker[u].job # j
<1>1. SUFFICES ASSUME NEW u \in Workers \ {w}, worker[u].phase = "effect", worker[u].job = j
               PROVE  FALSE
  OBVIOUS
<1>2. LeaseInv(u) /\ LeaseInv(w)
  BY DEF IInv, LeasesInv
<1>3. CASE ~Locked(j)
  BY <1>1, <1>3 DEF Locked
<1>4. CASE worker[w].phase = "effect" /\ worker[w].job = j
  BY <1>1, <1>2, <1>4 DEF LeaseInv
<1> QED BY <1>3, <1>4

\* The row a process executes, and what is known of it.
LEMMA ExecutedRow ==
  ASSUME IInv, NEW w \in Workers, worker[w].phase \notin {"poll", "stopped"}
  PROVE  LET j == worker[w].job IN
         /\ j \in Jobs /\ jobs[j] \in Row /\ now \in Nat
         /\ failures[j] \in Nat /\ applied[j] \in Nat
         /\ failures \in [Jobs -> Nat] /\ applied \in [Jobs -> Nat]
         /\ RowInv(j, jobs[j], failures[j], applied[j])
<1>1. worker[w].job \in Jobs
  BY ExecutesJob
<1> QED BY <1>1 DEF IInv, TypeOK, RowsInv

LEMMA ObserveControlKeeps ==
  ASSUME IInv, NEW w \in Workers, ObserveControl(w)
  PROVE  IInv'
<1> DEFINE j == worker[w].job
           row == jobs[j]
           data == SettledControl(row)
<1>1. /\ worker[w].phase \notin {"poll", "stopped"} /\ ~Locked(j)
      /\ ControlPending(row) /\ Write(j, data)
      /\ worker' = [worker EXCEPT ![w] = AfterJob(w)]
      /\ UNCHANGED <<applied, failures>>
  BY DEF ObserveControl, Reaches, Executing, Finish
<1>2. /\ j \in Jobs /\ row \in Row /\ failures[j] \in Nat
      /\ failures \in [Jobs -> Nat] /\ applied \in [Jobs -> Nat]
      /\ RowInv(j, row, failures[j], applied[j])
  BY <1>1, ExecutedRow
<1>3. RestTyped'
  BY DEF ObserveControl, IInv, TypeOK, RestTyped
<1> HIDE DEF j, row
<1>4. /\ data \in Row /\ data.leaseVersion = row.leaseVersion /\ data.status # "ABSENT"
      /\ RowInv(j, data, failures[j], applied[j])
  BY <1>1, <1>2, SettledRow
<1>5. data.leaseVersion >= jobs[j].leaseVersion
  BY <1>2, <1>4 DEF Row, row
<1>6. \A u \in Workers \ {w} : worker[u].phase = "effect" => worker[u].job # j
  BY <1>1, <1>2, LockExcludes
<1> HIDE DEF data
<1> QED BY <1>1, <1>2, <1>3, <1>4, <1>5, <1>6, AfterJobType, ExecutionStep

LEMMA SettleFailureKeeps ==
  ASSUME IInv, NEW w \in Workers, SettleFailure(w)
  PROVE  IInv'
<1> DEFINE j == worker[w].job
           row == jobs[j]
           retry == worker[w].retry
           data == Failed(j, row, retry)
<1>1. /\ worker[w].phase = "settle" /\ ~Locked(j)
      /\ row.status \in Leased /\ Write(j, data)
      /\ worker' = [worker EXCEPT ![w] = AfterJob(w)]
      /\ applied' = applied /\ failures' = [failures EXCEPT ![j] = failures[j] + 1]
  BY DEF SettleFailure, Reaches, Finish, HoldsLease
<1>2. /\ j \in Jobs /\ row \in Row /\ failures[j] \in Nat /\ now \in Nat
      /\ failures \in [Jobs -> Nat] /\ applied \in [Jobs -> Nat]
      /\ RowInv(j, row, failures[j], applied[j])
  BY <1>1, ExecutedRow
<1>3. RestTyped' /\ retry \in BOOLEAN
  BY DEF SettleFailure, IInv, TypeOK, RestTyped, WorkerState
<1> HIDE DEF j, row, retry
<1>4. /\ data \in Row /\ data.leaseVersion = row.leaseVersion /\ data.status # "ABSENT"
      /\ RowInv(j, data, failures[j] + 1, applied[j])
  BY <1>1, <1>2, <1>3, FailedRow
<1>5. data.leaseVersion >= jobs[j].leaseVersion
  BY <1>2, <1>4 DEF Row, row
<1>6. \A u \in Workers \ {w} : worker[u].phase = "effect" => worker[u].job # j
  BY <1>1, <1>2, LockExcludes
<1> HIDE DEF data
<1>7. /\ failures' \in [Jobs -> Nat] /\ failures'[j] = failures[j] + 1
      /\ \A k \in Jobs \ {j} : failures'[k] = failures[k]
  BY <1>1, <1>2
<1> QED BY <1>1, <1>2, <1>3, <1>4, <1>5, <1>6, <1>7, AfterJobType, ExecutionStep

\* The effect is counted when the row becomes SUCCEEDED, in one step.
LEMMA EffectDoneKeeps ==
  ASSUME IInv, NEW w \in Workers, EffectDone(w)
  PROVE  IInv'
<1> DEFINE j == worker[w].job
           row == jobs[j]
           released == Released(row)
           data == [released EXCEPT !.status = "SUCCEEDED", !.retryable = FALSE,
                                    !.dead = FALSE]
<1>1. /\ worker[w].phase = "effect" /\ row.status \in Leased /\ Write(j, data)
      /\ Finish(w) \/ ToSettle(w, TRUE)
      /\ failures' = failures /\ applied' = [applied EXCEPT ![j] = applied[j] + 1]
  BY DEF EffectDone, HoldsLease
<1>2. /\ j \in Jobs /\ row \in Row /\ failures[j] \in Nat /\ now \in Nat
      /\ failures \in [Jobs -> Nat] /\ applied \in [Jobs -> Nat]
      /\ RowInv(j, row, failures[j], applied[j])
  BY <1>1, ExecutedRow
<1>3. RestTyped' /\ TypeOK
  BY DEF EffectDone, IInv, TypeOK, RestTyped
<1>4. \A u \in Workers \ {w} : worker[u].phase = "effect" => worker[u].job # j
  BY <1>1, <1>2, LockExcludes
<1>5. PICK next \in WorkerState :
        /\ worker' = [worker EXCEPT ![w] = next] /\ next.phase # "effect"
        /\ next.phase \in {"poll", "stopped"} <=> next.job = None
        /\ next.job = None \/ (next.job = worker[w].job /\ next.version = worker[w].version)
  <2>1. CASE Finish(w)
    BY <2>1, AfterJobType DEF Finish
  <2>2. CASE ToSettle(w, TRUE)
    <3>1. PICK next \in WorkerState :
            /\ worker' = [worker EXCEPT ![w] = next] /\ next.phase = "settle"
            /\ next.job = worker[w].job /\ next.version = worker[w].version
      BY <1>3, <2>2, ToSettleStep
    <3>2. next.job # None
      BY <1>2, <3>1, ConstantsAssumption
    <3> QED BY <3>1, <3>2
  <2> QED BY <1>1, <2>1, <2>2
<1>6. /\ applied' \in [Jobs -> Nat] /\ applied'[j] = applied[j] + 1
      /\ \A k \in Jobs \ {j} : applied'[k] = applied[k]
  BY <1>1, <1>2
<1> HIDE DEF row
<1>7. /\ released \in Row /\ released.pause = FALSE
      /\ released.leaseVersion = row.leaseVersion
  BY <1>2, ReleasedRow
<1> HIDE DEF released
<1>8. /\ data \in Row /\ data.status = "SUCCEEDED" /\ data.pause = FALSE
      /\ data.leaseVersion = row.leaseVersion /\ data.dead = FALSE
  BY <1>7 DEF Row, Statuses
<1> HIDE DEF data
<1>9. applied[j] = 0 /\ failures[j] <= MaxAttempts[j]
  BY <1>1, <1>2 DEF RowInv, Leased
<1>10. RowInv(j, data, failures'[j], applied'[j])
  BY <1>1, <1>6, <1>8, <1>9 DEF RowInv, Leased
<1>11. data.leaseVersion >= jobs[j].leaseVersion /\ data.status # "ABSENT"
  BY <1>2, <1>8 DEF Row, row
<1>12. failures' \in [Jobs -> Nat] /\ \A k \in Jobs \ {j} : failures'[k] = failures[k]
  BY <1>1, <1>2
<1> HIDE DEF j
<1> QED BY <1>1, <1>2, <1>3, <1>4, <1>5, <1>6, <1>8, <1>10, <1>11, <1>12, ExecutionStep
           DEF j

LEMMA LeaseEndType ==
  ASSUME now \in Nat, NEW j \in Jobs
  PROVE  LeaseEnd(j) \in Nat
<1>1. ExpiresAt[j] \in Nat /\ LeaseTicks \in Nat
  BY ConstantsAssumption
<1> QED BY <1>1 DEF LeaseEnd, Smaller

\* A renewal extends the lease and changes nothing else.
LEMMA RenewalKeeps ==
  ASSUME IInv, NEW w \in Workers, Heartbeat(w) \/ FinalRenew(w)
  PROVE  IInv'
<1> DEFINE j == worker[w].job
           row == jobs[j]
           end == LeaseEnd(j)
           data == [row EXCEPT !.leaseUntil = end]
<1>1. /\ worker[w].phase \in {"prepare", "renew"} /\ ~Locked(j)
      /\ row.status \in Leased /\ Write(j, data)
      /\ UNCHANGED worker \/ Phase(w, "commit")
      /\ UNCHANGED <<applied, failures>>
  BY DEF Heartbeat, FinalRenew, Reaches, Proceeds, HoldsLease, Renewed
<1>2. /\ j \in Jobs /\ row \in Row /\ failures[j] \in Nat /\ now \in Nat
      /\ failures \in [Jobs -> Nat] /\ applied \in [Jobs -> Nat]
      /\ RowInv(j, row, failures[j], applied[j])
  BY <1>1, ExecutedRow
<1>3. RestTyped' /\ TypeOK
  BY DEF Heartbeat, FinalRenew, IInv, TypeOK, RestTyped
<1>4. \A u \in Workers \ {w} : worker[u].phase = "effect" => worker[u].job # j
  BY <1>1, <1>2, LockExcludes
<1>5. PICK next \in WorkerState :
        /\ worker' = [worker EXCEPT ![w] = next] /\ next.phase # "effect"
        /\ next.phase \in {"poll", "stopped"} <=> next.job = None
        /\ next.job = worker[w].job /\ next.version = worker[w].version
  <2>1. worker[w].job # None
    BY <1>2, ConstantsAssumption
  <2>2. CASE UNCHANGED worker
    <3>1. worker[w] \in WorkerState /\ worker' = [worker EXCEPT ![w] = worker[w]]
      BY <1>3, <2>2 DEF TypeOK
    <3> QED BY <1>1, <2>1, <3>1
  <2>3. CASE Phase(w, "commit")
    <3>1. "commit" \in Phases
      BY DEF Phases
    <3>2. PICK next \in WorkerState :
            /\ worker' = [worker EXCEPT ![w] = next] /\ next.phase = "commit"
            /\ next.job = worker[w].job /\ next.version = worker[w].version
      BY <1>3, <2>3, <3>1, PhaseStep
    <3> QED BY <2>1, <3>2
  <2> QED BY <1>1, <2>2, <2>3
<1>6. end \in Nat /\ end # NoTime
  BY <1>2, LeaseEndType DEF NoTime
<1> HIDE DEF row, end
<1>7. /\ data \in Row /\ data.status = row.status /\ data.pause = row.pause
      /\ data.leaseVersion = row.leaseVersion /\ data.dead = row.dead
      /\ data.attempt = row.attempt /\ data.leaseUntil = end
  BY <1>2, <1>6 DEF Row
<1> HIDE DEF data
<1>8. RowInv(j, data, failures'[j], applied'[j]) /\ data.status # "ABSENT"
  BY <1>1, <1>2, <1>6, <1>7 DEF RowInv, Leased
<1>9. data.leaseVersion >= jobs[j].leaseVersion
  BY <1>2, <1>7 DEF Row, row
<1> HIDE DEF j
<1> QED BY <1>1, <1>2, <1>3, <1>4, <1>5, <1>7, <1>8, <1>9, ExecutionStep DEF j

LEMMA ClaimRevokedKeeps ==
  ASSUME IInv, NEW w \in Workers, NEW j \in Jobs, ClaimRevoked(w, j)
  PROVE  IInv'
<1> DEFINE row == jobs[j]
           released == Released(row)
           data == [released EXCEPT !.status = "FAILED", !.retryable = FALSE, !.dead = TRUE]
<1>1. /\ Write(j, data) /\ ~Locked(j) /\ row.status \in {"QUEUED", "FAILED"}
      /\ UNCHANGED <<worker, applied, failures>>
  BY DEF ClaimRevoked, FirstInLine, Claimable
<1>2. RestTyped' /\ row \in Row /\ failures \in [Jobs -> Nat]
      /\ RowInv(j, row, failures[j], applied[j])
  BY DEF ClaimRevoked, IInv, TypeOK, RowsInv, RestTyped
<1> HIDE DEF row
<1>3. /\ released \in Row /\ released.pause = FALSE /\ released.attempt = row.attempt
      /\ released.leaseVersion = row.leaseVersion
  BY <1>2, ReleasedRow
<1> HIDE DEF released
<1>4. /\ data \in Row /\ data.status = "FAILED" /\ data.pause = FALSE /\ data.dead = TRUE
      /\ data.leaseVersion = row.leaseVersion /\ data.attempt = row.attempt
      /\ data.retryable = FALSE
  BY <1>3 DEF Row, Statuses
<1> HIDE DEF data
<1>5. RowInv(j, data, failures[j], applied[j])
  BY <1>1, <1>2, <1>4 DEF RowInv, Leased
<1>6. data.leaseVersion >= jobs[j].leaseVersion
  BY <1>2, <1>4 DEF Row, row
<1> QED BY <1>1, <1>2, <1>4, <1>5, <1>6, RowStep

\* A claim grants a version no process remembers.
LEMMA ClaimKeeps ==
  ASSUME IInv, NEW w \in Workers, NEW j \in Jobs, Claim(w, j)
  PROVE  IInv'
<1> DEFINE row == jobs[j]
           end == LeaseEnd(j)
           version == row.leaseVersion + 1
           tries == row.attempt + 1
           data == [row EXCEPT !.status = "RUNNING", !.attempt = tries,
                        !.leaseVersion = version, !.owner = w, !.leaseUntil = end,
                        !.nextAt = NoTime, !.retryable = FALSE]
           next == [Idle EXCEPT !.phase = "prepare", !.job = j, !.version = version]
<1>1. TypeOK /\ RowsInv /\ LeasesInv /\ UniqueLease
  BY DEF IInv
<1>2. /\ row \in Row /\ now \in Nat /\ RowInv(j, row, failures[j], applied[j])
      /\ failures[j] \in Nat /\ jobs \in [Jobs -> Row]
  BY <1>1 DEF TypeOK, RowsInv
<1>3. /\ Write(j, data) /\ worker' = [worker EXCEPT ![w] = next]
      /\ UNCHANGED <<applied, failures>>
  BY DEF Claim
<1>4. /\ ~Locked(j) /\ row.attempt < MaxAttempts[j] /\ ~row.dead /\ ~row.pause
      /\ row.status \in {"QUEUED", "FAILED"} /\ worker[w].phase = "poll"
  BY DEF Claim, FirstInLine, Claimable
<1>5. RestTyped'
  BY <1>1 DEF Claim, TypeOK, RestTyped
<1>6. end \in Nat /\ end # NoTime
  BY <1>2, LeaseEndType DEF NoTime
<1>7. version \in Nat /\ version > row.leaseVersion /\ tries \in Nat
  BY <1>2 DEF Row
<1>8. /\ next \in WorkerState /\ next.phase = "prepare" /\ next.job = j
      /\ next.version = version
  BY <1>7, IdleType DEF WorkerState, Phases
<1> HIDE DEF row, end, version, tries, next
<1>9. /\ data \in Row /\ data.status = "RUNNING" /\ data.pause = row.pause
      /\ data.leaseVersion = version /\ data.dead = row.dead
      /\ data.attempt = tries /\ data.leaseUntil = end
  BY <1>2, <1>6, <1>7 DEF Row, Statuses, NoTime
<1> HIDE DEF data
<1>10. RowInv(j, data, failures[j], applied[j])
  <2>1. MaxAttempts[j] \in Nat /\ row.attempt \in Nat /\ tries = row.attempt + 1
    BY <1>2, ConstantsAssumption DEF Row, tries
  <2> QED BY <1>2, <1>4, <1>6, <1>9, <2>1 DEF RowInv, Leased
<1>11. data.leaseVersion >= jobs[j].leaseVersion /\ data.status # "ABSENT"
  BY <1>2, <1>7, <1>9 DEF Row, row
<1>12. /\ jobs' \in [Jobs -> Row] /\ RowsInv' /\ jobs'[j].leaseVersion = version
       /\ \A k \in Jobs \ {j} : jobs'[k] = jobs[k]
       /\ \A k \in Jobs : jobs'[k].leaseVersion >= jobs[k].leaseVersion
  BY <1>1, <1>3, <1>9, <1>10, <1>11, WriteStep
<1>13. /\ worker' \in [Workers -> WorkerState] /\ worker'[w] = next
       /\ \A u \in Workers \ {w} : worker'[u] = worker[u]
  BY <1>1, <1>3, <1>8 DEF TypeOK
<1>14. TypeOK'
  BY <1>1, <1>3, <1>5, <1>12, <1>13 DEF TypeOK, RestTyped
<1>15. ASSUME NEW u \in Workers \ {w}
       PROVE  LeaseInv(u)' /\ (worker[u].job = j => worker[u].version < version)
  <2>1. LeaseInv(u) /\ worker[u] \in WorkerState /\ worker'[u] = worker[u]
    BY <1>1, <1>13 DEF LeasesInv, TypeOK
  <2>2. worker[u].job # None => worker[u].job \in Jobs
    BY <2>1 DEF WorkerState
  <2>3. worker[u].job # None => worker[u].version <= jobs'[worker[u].job].leaseVersion
    BY <1>2, <1>12, <2>1, <2>2 DEF LeaseInv, WorkerState, Row
  <2>4. worker[u].phase = "effect" => worker[u].job # None /\ worker[u].job # j
    BY <1>4, <2>1 DEF Locked, LeaseInv
  <2>5. worker[u].phase = "effect" => jobs'[worker[u].job] = jobs[worker[u].job]
    BY <1>12, <2>2, <2>4
  <2>6. LeaseInv(u)'
    BY <2>1, <2>3, <2>5 DEF LeaseInv
  <2>7. worker[u].job = j => worker[u].version < version
    BY <1>2, <1>7, <2>1, ConstantsAssumption DEF LeaseInv, WorkerState, Row, row
  <2> QED BY <2>6, <2>7
<1>16. LeaseInv(w)'
  <2>1. j # None
    BY ConstantsAssumption
  <2> QED BY <1>7, <1>8, <1>12, <1>13, <2>1 DEF LeaseInv
<1>17. LeasesInv'
  BY <1>15, <1>16 DEF LeasesInv
<1>18. UniqueLease'
  <2>1. ASSUME NEW u \in Workers \ {w}
        PROVE  worker'[u].job = j => worker'[u].version # version
    BY <1>1, <1>7, <1>13, <1>15 DEF TypeOK, WorkerState
  <2> QED BY <1>1, <1>8, <1>13, <2>1 DEF UniqueLease
<1> QED BY <1>12, <1>14, <1>17, <1>18 DEF IInv

\* What recovery writes to one selected row.
LEMMA RecoveredRow ==
  ASSUME IInv, NEW j \in Jobs, Recoverable(j)
  PROVE  LET r == Recovered(j) IN
         /\ r \in Row /\ r.leaseVersion = jobs[j].leaseVersion /\ r.status # "ABSENT"
         /\ RowInv(j, r, IF LeaseFailure(j) THEN failures[j] + 1 ELSE failures[j], applied[j])
<1> DEFINE row == jobs[j]
<1>1. /\ row \in Row /\ now \in Nat /\ failures[j] \in Nat
      /\ RowInv(j, row, failures[j], applied[j]) /\ row.status \in Active
  BY DEF IInv, TypeOK, RowsInv, Recoverable
<1>2. CASE ControlPending(row)
  <2>1. Recovered(j) = SettledControl(row) /\ ~LeaseFailure(j)
    BY <1>2 DEF Recovered, LeaseFailure
  <2> HIDE DEF row
  <2>2. LET r == SettledControl(row) IN
        /\ r \in Row /\ r.leaseVersion = row.leaseVersion
        /\ r.status \in {"CANCELLED", "PAUSED"} /\ RowInv(j, r, failures[j], applied[j])
    BY <1>1, <1>2, SettledRow
  <2> QED BY <2>1, <2>2 DEF row
<1>3. CASE ~ControlPending(row) /\ ExpiresAt[j] > now
  <2>1. Recovered(j) = Failed(j, row, TRUE) /\ LeaseFailure(j)
    BY <1>3 DEF Recovered, LeaseFailure
  <2>2. ~(ExpiresAt[j] <= now)
    BY <1>1, <1>3, ConstantsAssumption
  <2>3. row.status \in Leased
    BY <2>2 DEF Recoverable
  <2> HIDE DEF row
  <2>4. LET r == Failed(j, row, TRUE) IN
        /\ r \in Row /\ r.leaseVersion = row.leaseVersion
        /\ r.status = "FAILED" /\ RowInv(j, r, failures[j] + 1, applied[j])
    BY <1>1, <2>3, FailedRow
  <2> QED BY <2>1, <2>4 DEF row
<1>4. CASE ~ControlPending(row) /\ ~(ExpiresAt[j] > now)
  <2>1. Recovered(j) = Expired(row) /\ ~LeaseFailure(j)
    BY <1>4 DEF Recovered, LeaseFailure
  <2>2. ~row.dead
    BY <1>1 DEF Recoverable, RowInv, Leased
  <2> HIDE DEF row
  <2>3. /\ Expired(row) \in Row /\ Expired(row).leaseVersion = row.leaseVersion
        /\ Expired(row).status # "ABSENT"
        /\ RowInv(j, Expired(row), failures[j], applied[j])
    BY <1>1, <2>2, ExpiredRow
  <2> QED BY <2>1, <2>3 DEF row
<1> QED BY <1>2, <1>3, <1>4

\* The batch of one recovery transaction: every row in it keeps its invariant.
LEMMA RecoverKeeps ==
  ASSUME IInv, NEW w \in Workers, Recover(w)
  PROVE  IInv'
<1>1. TypeOK /\ RowsInv /\ LeasesInv /\ UniqueLease /\ now \in Nat
      /\ jobs \in [Jobs -> Row] /\ failures \in [Jobs -> Nat]
  BY DEF IInv, TypeOK
<1>2. UNCHANGED <<worker, applied>> /\ RestTyped'
  BY <1>1 DEF Recover, TypeOK, RestTyped
<1>3. PICK S \in SUBSET {j \in Jobs : Recoverable(j)} :
        /\ jobs' = [j \in Jobs |->
                        IF j \in S THEN Saved(jobs[j], Recovered(j)) ELSE jobs[j]]
        /\ failures' = [j \in Jobs |->
                        IF j \in S /\ LeaseFailure(j) THEN failures[j] + 1 ELSE failures[j]]
  BY DEF Recover
<1>4. ASSUME NEW j \in Jobs
      PROVE  /\ jobs'[j] \in Row /\ failures'[j] \in Nat
             /\ jobs'[j].leaseVersion >= jobs[j].leaseVersion
             /\ RowInv(j, jobs'[j], failures'[j], applied[j])
             /\ Locked(j) => jobs'[j] = jobs[j]
  <2>1. CASE j \notin S
    <3>1. jobs'[j] = jobs[j] /\ failures'[j] = failures[j]
      BY <1>3, <2>1
    <3> QED BY <1>1, <3>1 DEF RowsInv, Row
  <2>2. CASE j \in S
    <3> DEFINE r == Recovered(j)
               f == IF LeaseFailure(j) THEN failures[j] + 1 ELSE failures[j]
               saved == Saved(jobs[j], r)
    <3>1. Recoverable(j)
      BY <1>3, <2>2
    <3>2. jobs'[j] = saved /\ failures'[j] = f
      BY <1>3, <2>2
    <3>3. /\ r \in Row /\ r.leaseVersion = jobs[j].leaseVersion /\ r.status # "ABSENT"
          /\ RowInv(j, r, f, applied[j])
      BY <3>1, RecoveredRow
    <3>4. f \in Nat /\ jobs[j] \in Row
      BY <1>1
    <3> HIDE DEF r, f
    <3>5. /\ saved \in Row /\ saved = [r EXCEPT !.revision = NextRevision(jobs[j])]
      BY <1>1, <3>3, <3>4, SavedRow
    <3>6. RowInv(j, saved, f, applied[j])
      BY <1>1, <3>3, <3>4, SavedInv
    <3>7. saved.leaseVersion = jobs[j].leaseVersion
      BY <3>3, <3>5 DEF Row
    <3> HIDE DEF saved
    <3>8. jobs'[j].leaseVersion >= jobs[j].leaseVersion
      BY <3>2, <3>4, <3>7 DEF Row
    <3>9. ~Locked(j)
      BY <3>1 DEF Recoverable
    <3> QED BY <3>2, <3>4, <3>5, <3>6, <3>8, <3>9
  <2> QED BY <2>1, <2>2
<1>5. TypeOK'
  <2>1. jobs' \in [Jobs -> Row] /\ failures' \in [Jobs -> Nat]
    BY <1>3, <1>4
  <2> QED BY <1>1, <1>2, <2>1 DEF TypeOK, RestTyped
<1>6. RowsInv'
  <2>1. ASSUME NEW j \in Jobs PROVE RowInv(j, jobs'[j], failures'[j], applied'[j])
    BY <1>2, <1>4
  <2> QED BY <2>1 DEF RowsInv, RowInv
<1>7. ASSUME NEW u \in Workers PROVE LeaseInv(u)'
  <2>1. LeaseInv(u) /\ worker[u] \in WorkerState /\ worker'[u] = worker[u]
    BY <1>1, <1>2 DEF LeasesInv, TypeOK
  <2>2. worker[u].job # None => worker[u].job \in Jobs
    BY <2>1 DEF WorkerState
  <2>3. worker[u].job # None => worker[u].version <= jobs'[worker[u].job].leaseVersion
    BY <1>1, <1>4, <2>1, <2>2 DEF LeaseInv, WorkerState, Row
  <2>4. worker[u].phase = "effect" => jobs'[worker[u].job] = jobs[worker[u].job]
    BY <1>4, <2>1, <2>2 DEF LeaseInv, Locked
  <2> QED BY <2>1, <2>3, <2>4 DEF LeaseInv
<1>8. LeasesInv' /\ UniqueLease'
  BY <1>1, <1>2, <1>7 DEF LeasesInv, UniqueLease
<1> QED BY <1>5, <1>6, <1>8 DEF IInv

-----------------------------------------------------------------------------
(* Theorems                                                                *)

LEMMA NextKeeps ==
  ASSUME IInv, [Next]_vars
  PROVE  IInv'
<1>1. CASE UNCHANGED vars
  BY <1>1 DEF vars, IInv, TypeOK, RowsInv, RowInv, LeasesInv, LeaseInv, UniqueLease
<1>2. CASE Tick
  BY <1>2, TickKeeps
<1>3. ASSUME NEW j \in Jobs, RevokeScope(j) \/ RestoreScope(j) \/ Requester(j)
      PROVE  IInv'
  BY <1>3, EnvironmentKeeps, EnqueueKeeps, CancelKeeps, PauseKeeps, ResumeKeeps,
     ReplayKeeps DEF Requester
<1>4. ASSUME NEW w \in Workers, Recover(w)
      PROVE  IInv'
  BY <1>4, RecoverKeeps
<1>5. ASSUME NEW w \in Workers, Execution(w)
      PROVE  IInv'
  BY <1>5, LoseLeaseKeeps, ObserveControlKeeps, ReportKeeps, RenewalKeeps,
     PreparedKeeps, CommitBeginKeeps, EffectDoneKeeps, SettleFailureKeeps DEF Execution
<1>6. ASSUME NEW w \in Workers, Process(w)
      PROVE  IInv'
  BY <1>6, StopKeeps, CrashKeeps DEF Process
<1>7. ASSUME NEW w \in Workers, NEW j \in Jobs, Claim(w, j) \/ ClaimRevoked(w, j)
      PROVE  IInv'
  BY <1>7, ClaimKeeps, ClaimRevokedKeeps
<1> QED BY <1>1, <1>2, <1>3, <1>4, <1>5, <1>6, <1>7 DEF Next

\* The inductive invariant holds in every reachable state of the queue.
THEOREM Invariance == Spec => []IInv
<1>1. Init => IInv
  BY IInvInit
<1>2. IInv /\ [Next]_vars => IInv'
  BY NextKeeps
<1> QED BY <1>1, <1>2, PTL DEF Spec

\* Every variable keeps its type.
THEOREM TypeCorrect == Spec => []TypeOK
<1>1. IInv => TypeOK
  BY DEF IInv
<1> QED BY <1>1, Invariance, PTL

\* The effect of a job is committed once if it SUCCEEDED, and otherwise never.
THEOREM EffectOnceHolds == Spec => []EffectOnce
<1>1. IInv => EffectOnce
  BY DEF IInv, RowsInv, RowInv, EffectOnce
<1> QED BY <1>1, Invariance, PTL

\* The attempt column counts failed attempts, of which there are never more
\* than maxAttempts between two replays.
THEOREM RetryBudgetHolds == Spec => []RetryBudget
<1>1. IInv => RetryBudget
  BY DEF IInv, RowsInv, RowInv, RetryBudget
<1> QED BY <1>1, Invariance, PTL

\* No active job is stranded.
THEOREM NotStrandedHolds == Spec => []NotStranded
<1>1. IInv => NotStranded
  BY DEF IInv, RowsInv, RowInv, NotStranded, Leased
<1> QED BY <1>1, Invariance, PTL

\* Two processes never remember the same lease.
THEOREM UniqueLeaseHolds == Spec => []UniqueLease
<1>1. IInv => UniqueLease
  BY DEF IInv
<1> QED BY <1>1, Invariance, PTL
=============================================================================
