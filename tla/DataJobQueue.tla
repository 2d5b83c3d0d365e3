---------------------------- MODULE DataJobQueue ----------------------------
(***************************************************************************)
(* The durable background-job queue of packages/db/src/data-job-queue*.ts  *)
(* as it is driven by the workers of scripts/workers/data-job-*.ts.        *)
(*                                                                         *)
(* A row of the table DataJob is a record of jobs.  Every queue operation  *)
(* is one PostgreSQL transaction that locks the row (FOR UPDATE), so it is *)
(* one atomic action here.  The exception is commitQueuedDataJob: its      *)
(* business effect runs while the row stays locked and while time goes on, *)
(* so it is two actions (CommitBegin, EffectDone) with the lock held in    *)
(* between.  A worker process keeps the lease it was given in its own      *)
(* memory and may use it arbitrarily late, when another worker already     *)
(* owns the job.                                                           *)
(***************************************************************************)
EXTENDS Integers, FiniteSets

CONSTANTS
    Jobs,          \* one per (requestedByUserId, idempotencyKey)
    Workers,       \* worker processes
    None,          \* leaseOwner = null
    ExpiresAt,     \* ExpiresAt[j]: DataJob.expiresAt
    MaxAttempts,   \* MaxAttempts[j]: DataJob.maxAttempts
    LeaseTicks,    \* leaseMs
    BackoffBase,   \* the 30 s of planDataJobFailure
    BackoffCap,    \* its 1 h
    RecoveryLimit, \* rows one recovery transaction takes
    MaxTime,       \* bound: the clock stops here
    MaxControls,   \* bound: accepted controls per job
    MaxCrashes     \* bound: crashes and stops of worker processes

ASSUME ConstantsAssumption ==
    /\ None \notin Workers \cup Jobs
    /\ ExpiresAt \in [Jobs -> Nat]
    /\ MaxAttempts \in [Jobs -> Nat \ {0}]
    /\ LeaseTicks \in Nat \ {0}
    /\ BackoffBase \in Nat \ {0}
    /\ BackoffCap \in Nat \ {0}
    /\ RecoveryLimit \in Nat \ {0}
    /\ MaxTime \in Nat
    /\ MaxControls \in Nat
    /\ MaxCrashes \in Nat

VARIABLES
    now,       \* clock_timestamp() of the database
    jobs,      \* jobs[j]: the row
    scope,     \* scope[j]: requester, workspace and membership are ACTIVE
    worker,    \* worker[w]: what the process is doing and the lease it holds
    view,      \* view[j]: the row as the requester's client last read it
    applied,   \* applied[j]: committed executions of the business effect
    failures,  \* failures[j]: failed attempts since enqueue or replay
    controls,  \* controls[j]: accepted controls
    crashes    \* crashes and stops so far

vars == <<now, jobs, scope, worker, view, applied, failures, controls, crashes>>

-----------------------------------------------------------------------------
(* Rows                                                                    *)

NoTime == -1

Statuses == {"ABSENT", "QUEUED", "RUNNING", "PAUSED", "CANCEL_REQUESTED",
             "SUCCEEDED", "FAILED", "CANCELLED", "EXPIRED"}

Active == {"QUEUED", "RUNNING", "FAILED", "PAUSED", "CANCEL_REQUESTED"}

Leased == {"RUNNING", "CANCEL_REQUESTED"}

Row == [status: Statuses, attempt: Nat, leaseVersion: Nat,
        owner: Workers \cup {None}, leaseUntil: Nat \cup {NoTime},
        pause: BOOLEAN, nextAt: Nat \cup {NoTime}, retryable: BOOLEAN,
        dead: BOOLEAN, revision: Nat]

NoRow == [status |-> "ABSENT", attempt |-> 0, leaseVersion |-> 0,
          owner |-> None, leaseUntil |-> NoTime, pause |-> FALSE,
          nextAt |-> NoTime, retryable |-> FALSE, dead |-> FALSE,
          revision |-> 0]

Smaller(a, b) == IF a <= b THEN a ELSE b
Larger(a, b) == IF a >= b THEN a ELSE b

\* Seeded bug: two writes in the same millisecond share a revision.
NextRevisionClockOnly(row) == Larger(now, row.revision)

\* updatedAt doubles as the revision: at least one millisecond past the last.
NextRevision(row) == Larger(now, row.revision + 1)

\* updateQueuedDataJob
Saved(row, data) == [data EXCEPT !.revision = NextRevision(row)]

\* releasedQueueLease
Released(row) == [row EXCEPT !.owner = None, !.leaseUntil = NoTime,
                             !.pause = FALSE, !.nextAt = NoTime]

LeaseEnd(j) == Smaller(ExpiresAt[j], now + LeaseTicks)

\* Seeded bug: the delay is subtracted.
BackoffIntoThePast(attempt) ==
    -Smaller(BackoffCap, BackoffBase * 2 ^ Smaller(attempt, 10))

\* The delay of planDataJobFailure.
Backoff(attempt) ==
    Smaller(BackoffCap, BackoffBase * 2 ^ Smaller(attempt - 1, 10))

\* planDataJobFailure: is this failure followed by another automatic attempt?
RetryAllowed(j, row, retry) == retry /\ row.attempt < MaxAttempts[j]

\* persistQueueFailure
Failed(j, row, retry) ==
    LET again == RetryAllowed(j, row, retry)
    IN  [Released(row) EXCEPT
            !.status = "FAILED", !.retryable = again, !.dead = ~again,
            !.nextAt = IF again THEN now + Backoff(row.attempt) ELSE NoTime]

ControlPending(row) == row.status = "CANCEL_REQUESTED" \/ row.pause

\* Seeded bug: a pause costs an attempt.
SettledControlNoRefund(row) ==
    [Released(row) EXCEPT !.retryable = FALSE,
        !.status = IF row.status = "CANCEL_REQUESTED" THEN "CANCELLED" ELSE "PAUSED"]

\* settleQueueControl: a pause gives the attempt back, a cancellation does not.
SettledControl(row) ==
    IF row.status = "CANCEL_REQUESTED"
    THEN [Released(row) EXCEPT !.status = "CANCELLED", !.retryable = FALSE]
    ELSE [Released(row) EXCEPT !.status = "PAUSED", !.retryable = FALSE,
              !.attempt = IF row.status = "RUNNING"
                          THEN Larger(0, row.attempt - 1) ELSE row.attempt]

Expired(row) == [Released(row) EXCEPT !.status = "EXPIRED", !.retryable = FALSE]

-----------------------------------------------------------------------------
(* Worker processes                                                        *)

\* poll: between two jobs; prepare: the handler prepares while a timer sends
\* heartbeats; renew: beforeCommit; commit: about to lock the row; effect:
\* inside the commit transaction; settle: about to report a failure; stopped:
\* the process is gone.
Phases == {"poll", "prepare", "renew", "commit", "effect", "settle", "stopped"}

\* job and version are the lease in the process's memory; retry is how the
\* failure it is about to report was classified; stopping is the abort signal.
WorkerState == [phase: Phases, job: Jobs \cup {None}, version: Nat,
                retry: BOOLEAN, stopping: BOOLEAN]

Idle == [phase |-> "poll", job |-> None, version |-> 0,
         retry |-> FALSE, stopping |-> FALSE]

Gone == [Idle EXCEPT !.phase = "stopped"]

\* The loop of runDataJobWorker after executeDataJob returns.
AfterJob(w) == IF worker[w].stopping THEN Gone ELSE Idle

Phase(w, p) == worker' = [worker EXCEPT ![w].phase = p]

ToSettle(w, retry) ==
    worker' = [worker EXCEPT ![w].phase = "settle", ![w].retry = retry]

Finish(w) == worker' = [worker EXCEPT ![w] = AfterJob(w)]

Executing == {"prepare", "renew", "commit"}

\* The row lock a commit transaction holds while its effect runs.
Locked(j) == \E w \in Workers : worker[w].phase = "effect" /\ worker[w].job = j

\* assertQueueLease for the lease w remembers.
HoldsLease(w) ==
    LET row == jobs[worker[w].job]
    IN  /\ row.owner = w
        /\ row.leaseVersion = worker[w].version
        /\ row.leaseUntil > now
        /\ ExpiresAt[worker[w].job] > now
        /\ row.status \in Leased

\* w has the lease of j in memory, in one of the phases ps, and can lock the row.
Reaches(w, ps) == worker[w].phase \in ps /\ ~Locked(worker[w].job)

Write(j, data) == jobs' = [jobs EXCEPT ![j] = Saved(jobs[j], data)]

-----------------------------------------------------------------------------
Init ==
    /\ now = 0
    /\ jobs = [j \in Jobs |-> NoRow]
    /\ scope = [j \in Jobs |-> TRUE]
    /\ worker = [w \in Workers |-> Idle]
    /\ view = [j \in Jobs |-> NoRow]
    /\ applied = [j \in Jobs |-> 0]
    /\ failures = [j \in Jobs |-> 0]
    /\ controls = [j \in Jobs |-> 0]
    /\ crashes = 0

(* The environment                                                         *)

Tick ==
    /\ now < MaxTime
    /\ now' = now + 1
    /\ UNCHANGED <<jobs, scope, worker, view, applied, failures, controls, crashes>>

\* Account frozen, member removed or workspace archived.  These writers need
\* the rows that assertQueueScope holds FOR SHARE until its commit ends.
RevokeScope(j) ==
    /\ scope[j]
    /\ ~Locked(j)
    /\ scope' = [scope EXCEPT ![j] = FALSE]
    /\ UNCHANGED <<now, jobs, worker, view, applied, failures, controls, crashes>>

RestoreScope(j) ==
    /\ ~scope[j]
    /\ scope' = [scope EXCEPT ![j] = TRUE]
    /\ UNCHANGED <<now, jobs, worker, view, applied, failures, controls, crashes>>

-----------------------------------------------------------------------------
(* The requester                                                           *)

\* enqueueDataJobInTransaction.  A second call with the same key finds the
\* row and changes nothing.
Enqueue(j) ==
    /\ jobs[j].status = "ABSENT"
    /\ scope[j]
    /\ ExpiresAt[j] > now
    /\ jobs' = [jobs EXCEPT ![j] = [NoRow EXCEPT !.status = "QUEUED",
                                        !.nextAt = now, !.revision = now]]
    /\ view' = [view EXCEPT ![j] = jobs'[j]]
    /\ UNCHANGED <<now, scope, worker, applied, failures, controls, crashes>>

\* A client lists its jobs; their updatedAt is what it sends back.
ReadJob(j) ==
    /\ view' = [view EXCEPT ![j] = jobs[j]]
    /\ UNCHANGED <<now, jobs, scope, worker, applied, failures, controls, crashes>>

\* controlQueuedDataJobInTransaction up to controlData, with the row it writes.
Control(j, data) ==
    /\ jobs[j].status # "ABSENT"
    /\ ~Locked(j)
    /\ view[j].revision = jobs[j].revision
    /\ ExpiresAt[j] > now
    /\ scope[j]
    /\ controls[j] < MaxControls
    /\ controls' = [controls EXCEPT ![j] = @ + 1]
    /\ Write(j, data)
    /\ view' = [view EXCEPT ![j] = jobs'[j]]
    /\ UNCHANGED <<now, scope, worker, applied, crashes>>

Cancel(j) ==
    /\ jobs[j].status \in Active
    /\ Control(j, IF jobs[j].status \in Leased
                  THEN [jobs[j] EXCEPT !.status = "CANCEL_REQUESTED", !.pause = FALSE]
                  ELSE [Released(jobs[j]) EXCEPT !.status = "CANCELLED",
                            !.retryable = FALSE, !.dead = FALSE])
    /\ UNCHANGED failures

Pause(j) ==
    /\ jobs[j].status \in {"QUEUED", "RUNNING", "FAILED"}
    /\ ~jobs[j].dead
    /\ Control(j, IF jobs[j].status = "RUNNING"
                  THEN [jobs[j] EXCEPT !.pause = TRUE]
                  ELSE [Released(jobs[j]) EXCEPT !.status = "PAUSED", !.retryable = FALSE])
    /\ UNCHANGED failures

Resume(j) ==
    /\ jobs[j].status = "PAUSED"
    /\ jobs[j].attempt < MaxAttempts[j]
    /\ Control(j, [Released(jobs[j]) EXCEPT !.status = "QUEUED", !.nextAt = now,
                       !.retryable = FALSE])
    /\ UNCHANGED failures

\* A new budget of attempts; the lease version is never reset.
Replay(j) ==
    /\ jobs[j].status = "FAILED"
    /\ Control(j, [Released(jobs[j]) EXCEPT !.status = "QUEUED", !.nextAt = now,
                       !.attempt = 0, !.retryable = FALSE, !.dead = FALSE])
    /\ failures' = [failures EXCEPT ![j] = 0]

-----------------------------------------------------------------------------
(* Polling: recoverQueuedDataJobs, then claimQueuedDataJob                 *)

\* Seeded bug: jobs that nobody runs are not expired.
RecoverableLeases(j) ==
    /\ jobs[j].status \in Leased
    /\ jobs[j].leaseUntil <= now
    /\ ~Locked(j)

\* Seeded bug: only RUNNING rows are looked at.
RecoverableRunning(j) ==
    /\ jobs[j].status \in Active \ {"CANCEL_REQUESTED"}
    /\ \/ jobs[j].status = "RUNNING" /\ jobs[j].leaseUntil <= now
       \/ ExpiresAt[j] <= now /\ ~jobs[j].dead
    /\ ~Locked(j)

\* The rows recoverQueuedDataJobs selects.
Recoverable(j) ==
    /\ jobs[j].status \in Active
    /\ \/ jobs[j].status \in Leased /\ jobs[j].leaseUntil <= now
       \/ ExpiresAt[j] <= now /\ ~jobs[j].dead
    /\ ~Locked(j)

\* One iteration of the loop of recoverQueuedDataJobs.
LeaseFailure(j) == ~ControlPending(jobs[j]) /\ ExpiresAt[j] > now

\* Seeded bug: a pending control is forgotten with the worker.
RecoveredWithoutControl(j) ==
    IF ExpiresAt[j] > now THEN Failed(j, jobs[j], TRUE) ELSE Expired(jobs[j])

\* What recovery writes to a selected row.
Recovered(j) ==
    IF ControlPending(jobs[j]) THEN SettledControl(jobs[j])
    ELSE IF LeaseFailure(j) THEN Failed(j, jobs[j], TRUE)
    ELSE Expired(jobs[j])

\* One transaction takes the recoverable rows, at most RecoveryLimit of them.
Recover(w) ==
    /\ worker[w].phase = "poll"
    /\ \E S \in SUBSET {j \in Jobs : Recoverable(j)} :
        /\ S # {}
        /\ \/ S = {j \in Jobs : Recoverable(j)} /\ Cardinality(S) <= RecoveryLimit
           \/ Cardinality(S) = RecoveryLimit
        /\ jobs' = [j \in Jobs |->
                        IF j \in S THEN Saved(jobs[j], Recovered(j)) ELSE jobs[j]]
        /\ failures' = [j \in Jobs |->
                        IF j \in S /\ LeaseFailure(j) THEN failures[j] + 1
                        ELSE failures[j]]
    /\ UNCHANGED <<now, scope, worker, view, applied, controls, crashes>>

Claimable(j) ==
    /\ ExpiresAt[j] > now
    /\ jobs[j].nextAt # NoTime /\ jobs[j].nextAt <= now
    /\ jobs[j].attempt < MaxAttempts[j]
    /\ ~jobs[j].dead
    /\ ~jobs[j].pause
    /\ \/ jobs[j].status = "QUEUED"
       \/ jobs[j].status = "FAILED" /\ jobs[j].retryable
    /\ ~Locked(j)

\* ORDER BY nextAttemptAt: no other claimable job has waited longer.
FirstInLine(j) ==
    /\ Claimable(j)
    /\ \A k \in Jobs : Claimable(k) => jobs[j].nextAt <= jobs[k].nextAt

Claim(w, j) ==
    /\ worker[w].phase = "poll"
    /\ FirstInLine(j)
    /\ scope[j]
    /\ Write(j, [jobs[j] EXCEPT !.status = "RUNNING", !.attempt = @ + 1,
                     !.leaseVersion = @ + 1, !.owner = w,
                     !.leaseUntil = LeaseEnd(j), !.nextAt = NoTime,
                     !.retryable = FALSE])
    /\ worker' = [worker EXCEPT ![w] = [Idle EXCEPT !.phase = "prepare", !.job = j,
                                            !.version = jobs[j].leaseVersion + 1]]
    /\ UNCHANGED <<now, scope, view, applied, failures, controls, crashes>>

\* claimScopeAllowed: the job whose scope was revoked is dead-lettered.
ClaimRevoked(w, j) ==
    /\ worker[w].phase = "poll"
    /\ FirstInLine(j)
    /\ ~scope[j]
    /\ Write(j, [Released(jobs[j]) EXCEPT !.status = "FAILED", !.retryable = FALSE,
                     !.dead = TRUE])
    /\ UNCHANGED <<now, scope, worker, view, applied, failures, controls, crashes>>

-----------------------------------------------------------------------------
(* Executing: executeDataJob with the lease the process remembers          *)

\* Every queue call first asserts the lease; a lost one ends the execution.
LoseLease(w) ==
    /\ Reaches(w, Executing \cup {"settle"})
    /\ ~HoldsLease(w)
    /\ Finish(w)
    /\ UNCHANGED <<now, jobs, scope, view, applied, failures, controls, crashes>>

\* ... then settles a cancellation or pause the requester asked for ...
ObserveControl(w) ==
    /\ Reaches(w, Executing \cup {"settle"})
    /\ HoldsLease(w)
    /\ ControlPending(jobs[worker[w].job])
    /\ Write(worker[w].job, SettledControl(jobs[worker[w].job]))
    /\ Finish(w)
    /\ UNCHANGED <<now, scope, view, applied, failures, controls, crashes>>

\* ... then, heartbeats and commit only, checks the scope: a revoked one is
\* reported as a failure that is not retried.
ObserveRevoked(w) ==
    /\ Reaches(w, Executing)
    /\ HoldsLease(w)
    /\ ~ControlPending(jobs[worker[w].job])
    /\ ~scope[worker[w].job]
    /\ ToSettle(w, FALSE)
    /\ UNCHANGED <<now, jobs, scope, view, applied, failures, controls, crashes>>

\* Seeded bug: the controls are not read again.
ProceedsUncontrolled(w) == HoldsLease(w) /\ scope[worker[w].job]

Proceeds(w) ==
    /\ HoldsLease(w)
    /\ ~ControlPending(jobs[worker[w].job])
    /\ scope[worker[w].job]

Renewed(w) ==
    Write(worker[w].job, [jobs[worker[w].job] EXCEPT !.leaseUntil = LeaseEnd(worker[w].job)])

\* Seeded bug: heartbeatQueuedDataJob alone does not assert the lease.
HeartbeatUnleased(w) ==
    /\ Reaches(w, {"prepare"})
    /\ ~ControlPending(jobs[worker[w].job])
    /\ scope[worker[w].job]
    /\ jobs[worker[w].job].leaseUntil < LeaseEnd(worker[w].job)
    /\ Renewed(w)
    /\ UNCHANGED <<now, scope, worker, view, applied, failures, controls, crashes>>

\* The timer's heartbeat.  Bound: one that would not extend the lease is left out.
Heartbeat(w) ==
    /\ Reaches(w, {"prepare"})
    /\ Proceeds(w)
    /\ jobs[worker[w].job].leaseUntil < LeaseEnd(worker[w].job)
    /\ Renewed(w)
    /\ UNCHANGED <<now, scope, worker, view, applied, failures, controls, crashes>>

\* handler.prepare resolved; the timer is stopped and drained.
Prepared(w) ==
    /\ worker[w].phase = "prepare"
    /\ Phase(w, "renew")
    /\ UNCHANGED <<now, jobs, scope, view, applied, failures, controls, crashes>>

\* The renewal of beforeCommit.
FinalRenew(w) ==
    /\ Reaches(w, {"renew"})
    /\ Proceeds(w)
    /\ Renewed(w)
    /\ Phase(w, "commit")
    /\ UNCHANGED <<now, scope, view, applied, failures, controls, crashes>>

\* commitQueuedDataJob up to its effect.
CommitBegin(w) ==
    /\ Reaches(w, {"commit"})
    /\ Proceeds(w)
    /\ Phase(w, "effect")
    /\ UNCHANGED <<now, jobs, scope, view, applied, failures, controls, crashes>>

\* The rest of commitQueuedDataJob.  When the answer to COMMIT is lost, the
\* worker takes the finished job for a failed one.
EffectDone(w) ==
    LET j == worker[w].job IN
    /\ worker[w].phase = "effect"
    /\ HoldsLease(w)
    /\ Write(j, [Released(jobs[j]) EXCEPT !.status = "SUCCEEDED",
                     !.retryable = FALSE, !.dead = FALSE])
    /\ applied' = [applied EXCEPT ![j] = @ + 1]
    /\ Finish(w) \/ ToSettle(w, TRUE)
    /\ UNCHANGED <<now, scope, view, failures, controls, crashes>>

\* Seeded bug: the effect was not part of the transaction.
EffectTooLateKept(w) ==
    /\ worker[w].phase = "effect"
    /\ ~HoldsLease(w)
    /\ applied' = [applied EXCEPT ![worker[w].job] = @ + 1]
    /\ Finish(w)
    /\ UNCHANGED <<now, jobs, scope, view, failures, controls, crashes>>

\* The lease ran out while the effect ran: everything is rolled back.
EffectTooLate(w) ==
    /\ worker[w].phase = "effect"
    /\ ~HoldsLease(w)
    /\ Finish(w)
    /\ UNCHANGED <<now, jobs, scope, view, applied, failures, controls, crashes>>

\* The handler or the database throws; an open transaction rolls back.  Only
\* the handler's own code (prepare, effect) can ask for no retry.
HandlerFails(w) ==
    /\ worker[w].phase \in Executing \cup {"effect"}
    /\ \E retry \in BOOLEAN :
        /\ retry \/ worker[w].phase \in {"prepare", "effect"}
        /\ ToSettle(w, retry)
    /\ UNCHANGED <<now, jobs, scope, view, applied, failures, controls, crashes>>

\* failQueuedDataJob
SettleFailure(w) ==
    LET j == worker[w].job IN
    /\ Reaches(w, {"settle"})
    /\ HoldsLease(w)
    /\ ~ControlPending(jobs[j])
    /\ Write(j, Failed(j, jobs[j], worker[w].retry))
    /\ failures' = [failures EXCEPT ![j] = @ + 1]
    /\ Finish(w)
    /\ UNCHANGED <<now, scope, view, applied, controls, crashes>>

-----------------------------------------------------------------------------
(* Processes come and go                                                   *)

\* SIGTERM: a running execution is aborted and reported as a retryable
\* failure, unless its effect is already past the last check of the signal.
Stop(w) ==
    /\ worker[w].phase # "stopped"
    /\ ~worker[w].stopping
    /\ crashes < MaxCrashes
    /\ crashes' = crashes + 1
    /\ \/ worker[w].phase = "poll" /\ worker' = [worker EXCEPT ![w] = Gone]
       \/ /\ worker[w].phase \in Executing \cup {"effect"}
          /\ worker' = [worker EXCEPT ![w].phase = "settle", ![w].retry = TRUE,
                                      ![w].stopping = TRUE]
       \/ /\ worker[w].phase \in {"effect", "settle"}
          /\ worker' = [worker EXCEPT ![w].stopping = TRUE]
    /\ UNCHANGED <<now, jobs, scope, view, applied, failures, controls>>

\* The process dies: its open transaction rolls back, its lease stays.
Crash(w) ==
    /\ worker[w].phase # "stopped"
    /\ crashes < MaxCrashes
    /\ crashes' = crashes + 1
    /\ worker' = [worker EXCEPT ![w] = Gone]
    /\ UNCHANGED <<now, jobs, scope, view, applied, failures, controls>>

Restart(w) ==
    /\ worker[w].phase = "stopped"
    /\ worker' = [worker EXCEPT ![w] = Idle]
    /\ UNCHANGED <<now, jobs, scope, view, applied, failures, controls, crashes>>

-----------------------------------------------------------------------------
Requester(j) == Enqueue(j) \/ ReadJob(j) \/ Cancel(j) \/ Pause(j) \/ Resume(j) \/ Replay(j)

Execution(w) ==
    \/ LoseLease(w) \/ ObserveControl(w) \/ ObserveRevoked(w)
    \/ Heartbeat(w) \/ Prepared(w) \/ FinalRenew(w) \/ CommitBegin(w)
    \/ EffectDone(w) \/ EffectTooLate(w) \/ HandlerFails(w) \/ SettleFailure(w)

Process(w) == Stop(w) \/ Crash(w) \/ Restart(w)

Next ==
    \/ Tick
    \/ \E j \in Jobs : RevokeScope(j) \/ RestoreScope(j) \/ Requester(j)
    \/ \E w \in Workers : Recover(w) \/ Execution(w) \/ Process(w)
    \/ \E w \in Workers, j \in Jobs : Claim(w, j) \/ ClaimRevoked(w, j)

Spec == Init /\ [][Next]_vars

\* Time passes; the supervisor restarts workers; a polling worker recovers;
\* the lease check of the heartbeat timer, the failure report and the commit
\* transaction (which has a timeout) end.  Nothing makes a handler finish.
Fairness ==
    /\ WF_vars(Tick)
    /\ \A w \in Workers :
        /\ WF_vars(Restart(w))
        /\ WF_vars(Recover(w))
        /\ WF_vars(LoseLease(w))
        /\ WF_vars(ObserveControl(w))
        /\ WF_vars(SettleFailure(w))
        /\ WF_vars(EffectDone(w) \/ EffectTooLate(w))

FairSpec == Spec /\ Fairness

-----------------------------------------------------------------------------
(* Properties                                                              *)

\* Every variable has its type (the columns of DataJob and the process state).
TypeOK ==
    /\ now \in Nat
    /\ jobs \in [Jobs -> Row]
    /\ scope \in [Jobs -> BOOLEAN]
    /\ worker \in [Workers -> WorkerState]
    /\ view \in [Jobs -> Row]
    /\ applied \in [Jobs -> Nat]
    /\ failures \in [Jobs -> Nat]
    /\ controls \in [Jobs -> Nat]
    /\ crashes \in Nat

\* The business effect of a job is committed exactly once when the job is
\* SUCCEEDED and never otherwise, through zombies, replays and lost answers.
EffectOnce ==
    \A j \in Jobs : applied[j] = IF jobs[j].status = "SUCCEEDED" THEN 1 ELSE 0

\* The attempt column counts the failed attempts since enqueue or replay, plus
\* the one that runs: pauses are free, nothing else is, and no failure beyond
\* maxAttempts ever happens.
RetryBudget ==
    \A j \in Jobs :
        /\ failures[j] <= MaxAttempts[j]
        /\ jobs[j].status \in {"QUEUED", "PAUSED", "FAILED"}
                => jobs[j].attempt = failures[j]
        /\ jobs[j].status \in Leased => jobs[j].attempt = failures[j] + 1

\* No job is stranded: whatever is active can still be claimed, resumed or
\* recovered, or is a dead letter.
NotStranded ==
    \A j \in Jobs :
        LET row == jobs[j] IN
        /\ row.status = "QUEUED" \/ (row.status = "FAILED" /\ row.retryable)
            => /\ row.nextAt # NoTime /\ row.attempt < MaxAttempts[j]
               /\ ~row.pause /\ ~row.dead
        /\ row.status = "PAUSED" => row.attempt < MaxAttempts[j] /\ ~row.dead
        /\ row.status = "FAILED" => row.retryable = ~row.dead
        /\ row.status \in Leased => row.leaseUntil # NoTime /\ ~row.dead
        /\ row.dead => row.status = "FAILED"

\* Two processes never remember the same lease of the same job, so a lease
\* version identifies one attempt for ever: replays never reset it.
UniqueLease ==
    \A u, w \in Workers :
        u # w /\ worker[u].job # None /\ worker[u].job = worker[w].job
            => worker[u].version # worker[w].version

\* w executes a job that was claimed again after w claimed it.
Overtaken(w) ==
    /\ worker[w].job # None
    /\ worker[w].version < jobs[worker[w].job].leaseVersion

\* A step of the process w, whatever it does.
Acts(w) ==
    \/ Recover(w) \/ Execution(w) \/ Process(w)
    \/ \E j \in Jobs : Claim(w, j) \/ ClaimRevoked(w, j)

\* No step of an overtaken worker changes a row: it neither settles, fails nor
\* completes its successor's attempt, and its timer does not renew its
\* successor's lease.
Fencing ==
    [][\A w \in Workers : Overtaken(w) /\ Acts(w) => jobs' = jobs]_vars

\* Once the requester's cancellation or pause is accepted, the attempt that was
\* running commits nothing.
ControlBeatsCommit ==
    [][\A j \in Jobs : ControlPending(jobs[j]) => applied'[j] = applied[j]]_vars

\* A control is applied only to the row the requester saw, in every column.
ControlSeesRow ==
    [][\A j \in Jobs : controls'[j] # controls[j] => view[j] = jobs[j]]_vars

\* How a row looks to its requester: attempts, leases and retries are hidden.
Standing(row) ==
    CASE row.status = "ABSENT" -> "none"
      [] row.status \in {"QUEUED", "RUNNING"} -> "open"
      [] row.status = "PAUSED" -> "paused"
      [] row.status = "CANCEL_REQUESTED" -> "cancelling"
      [] row.status = "FAILED" -> IF row.dead THEN "dead" ELSE "open"
      [] row.status = "SUCCEEDED" -> "done"
      [] row.status \in {"CANCELLED", "EXPIRED"} -> "closed"

Promise == INSTANCE JobPromise WITH standing <- [j \in Jobs |-> Standing(jobs[j])]

\* The queue implements JobPromise: the effect at most once, only while the
\* job is open, never after an accepted cancellation.
KeepsPromise == Promise!Spec

\* A job that is accepted ends: it succeeds, is cancelled, expires or waits as
\* a dead letter for the requester.
Ended(j) ==
    \/ jobs[j].status \in {"SUCCEEDED", "CANCELLED", "EXPIRED"}
    \/ jobs[j].dead

EveryJobEnds ==
    \A j \in Jobs : jobs[j].status # "ABSENT" ~> Ended(j)

\* A requested cancellation is carried out even when the worker that has to see
\* it is gone, and a requested pause takes effect unless the job ends.
ControlCarriedOut ==
    \A j \in Jobs :
        /\ jobs[j].status = "CANCEL_REQUESTED" ~> jobs[j].status = "CANCELLED"
        /\ jobs[j].pause ~> ~jobs[j].pause
=============================================================================
