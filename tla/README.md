# AreaForge: a TLA+ verification

AreaForge is a self-hosted study planner: a Next.js application over PostgreSQL
(`apps/web`, `packages/*`), background workers (`scripts/workers`) and root-owned
operations tooling (`ops`). Most of its code is single-request business logic. What
is hard to test is concentrated in a few protocols that let several processes work
on the same rows and files, survive crashes and obey a human who changes his mind
meanwhile. This directory models those protocols, checks the models with TLC and
proves the most important facts about them with TLAPS.

## 1. Inventory

`PROJECT.json` lists every component with its sources. The ones with a protocol:

| Component | State it keeps | Operations | Interacts with | Hard behaviour |
|---|---|---|---|---|
| Data-job queue (`packages/db/src/data-job-queue*.ts`, `scripts/workers/data-job-*.ts`) | rows of `DataJob`: status, attempt, lease (owner, version, expiry), pause flag, schedule, revision | enqueue, cancel/pause/resume/replay by the requester; claim, heartbeat, commit, fail, recover by workers | the job handlers (export, search, ranking), whose effect it commits; membership (scope of a job) | leases that run out under a live worker, zombies, stops in the middle of an attempt, controls racing with the commit, lost answers, batch recovery |
| Controlled operations (`packages/core/src/controlled-operation-lifecycle.ts`, `packages/db/src/controlled-operation-store.ts`, `apps/web/lib/system/controlled-operation-request-service.ts`, `ops/controlled-operation-agent/*`) | a row per request; an append-only, fsynced journal per request; the installation; three file locks | create, confirm, approve, hold, resume, cancel, retry by operators; register, expire, claim, heartbeat, admission checks, phases, verdict, write-back by the root process | operators through the web; dispatched scripts (updater, maintenance); other requests of the same root | three stores without a common transaction; a crash anywhere, also in recovery; scripts that outlive their parent; expiry during execution; requests that block each other |
| Data export (`packages/db/src/data-export-*.ts`, `packages/storage/src/data-export-*.ts`) | artifacts, packages, download grants, files | begin, write, publish, reclaim, grant, reserve, consume, release | a queue handler; the reclaimer of every worker | late writers, reclaim racing with heartbeats and downloads, files without rows |
| Data deletion (`packages/db/src/data-delete-*.ts`, `scripts/workers/data-delete-worker.ts`) | intents with a lease and an irreversibility mark, frozen items, files, fences, a hash-chained ledger | request, cancel, restore, claim, file removal, commit, replay after restore | every table; export files | cancel against irreversibility, crash between unlink and record, two workers, replay interrupted |
| Update agent and updater (`ops/update-agent`, `ops/github-release-updater`, `apps/web/lib/system/update-*.ts`) | request files, claims, decisions and status; a phase journal per update; the stream of maintenance holds; image and version of the installation; three file locks | file a request; sweep, claim, decide, publish, clean up; admission, comparison, update or restoration in phases; hold, clear, drain | the update center, the nightly timer, operators; dispatched by controlled operations | a crash between any two steps; a child that outlives its agent; holds against updates on their way; answers when the outcome is unknown |
| Offline focus queue (`apps/web/lib/client/focus-offline-*.ts`, `components/focus-*.ts`) | commands and snapshot in IndexedDB, a lease between tabs, what each page shows | enqueue and post, sync, remap, resolve, defer, retry | session commands of the server | lost answers, the page and a sync loop sending the same command, reads and writes in two transactions |
| Study sessions (`apps/web/lib/study/session-*-service.ts`) | `StudySession` rows with `updatedAt`, one audit event per command key | start, pause, resume, close, context | every device of the user | repeated and late requests, compare-and-swap between devices |
| Persistent idempotency (`apps/web/lib/study/persistent-idempotency.ts`) | claims in audit events | claim, complete, take over | expensive AI calls | takeover of a claim whose owner still runs |
| Accounts (`apps/web/lib/auth`) | sessions, action tokens, throttle buckets | issue, deliver, consume, revoke, count failures | mail | values read before a slow hash and used after it |

Components without a protocol of their own (quotas, membership, ranking,
notifications, plan inbox, reviews, reports, pages, quality gates) are listed in
`PROJECT.json` with the reason. In all of these an operation is one serializable
or row-locked transaction of one request.

What makes each component correct:

- **Queue.** The effect of a job is committed once, by an attempt that holds the
  current lease, and not after an accepted cancellation or pause; attempts stay within
  the budget; a stale page changes nothing; nothing is stranded; accepted jobs end.
- **Controlled operations.** An effect happens at most once, only for an open request, and
  never beside another request in doubt; a confirmed stop or an offered retry means
  that nothing was done; a durable success is never lost or contradicted; stops are answered.
- **Export.** What can be downloaded is on disk and complete; what is reclaimed goes away
  for good in spite of late writers; a grant starts at most one download.
- **Deletion.** A cancelled intent has lost nothing; an irreversible one is finished or
  waits for its requester; each success is one entry of one ledger; a frozen record does not change.
- **Offline focus.** A command takes effect once, in the order it was given, or the user
  hears of it; the queue comes to rest.
- **Updates.** What a request is answered is what was done for it; the installation changes for it only
  from the state that was confirmed, never beside a doubt, never under a drained hold; each is answered.

`PROJECT.json` lists the hazards behind these statements, each at the line where it
bites, with the properties that cover it or the module planned for it.

## 2. Plan

In order of importance; each line is a module with its abstract specification, runs and theorems.

1. `DataJobQueue`, abstract `JobPromise`, proofs `DataJobQueueProofs` (states) and
   `DataJobStepProofs` (steps): **done**, all its safety properties and the refinement included
   (section 3).
2. `OperationAgent`, abstract `OperationPromise`, proofs `OperationAgentProofs`: **done**, all its
   safety properties and the refinement included (section 4). Left: the web service's bridge for
   unbound requests.
3. `DataExport`, abstract `PackagePromise`, proofs `DataExportProofs`: **done**, all its safety and
   action properties and the refinement included (section 5).
4. `DataDelete`, abstract `DeletionPromise`, proofs `DataDeleteProofs`: **done**, refinement
   included (section 6). Left: the replay of the ledger on a restored database.
5. `FocusOffline`, proofs `FocusOfflineProofs`: **done**, all its safety properties included (section 7).
   Left: the localStorage fallback.
6. `UpdateAgent`, proofs `UpdateAgentProofs`: **done**, all its safety properties included (section 8).
   Left: the reconciliation of a journal or a claim by an operator.
7. `IdempotencyClaim`, `ActionToken` and the replay of the deletion ledger: a module and a run each.

Conventions: names of the source; one action per operation, transaction or step between
two transactions; parameters as CONSTANTS with a named assumption; bounds only in guards of
operator commands, faults and the clock; no RECURSIVE operators in modules with theorems; an
operator whose comment says "Seeded bug" is a plausible mistake, used by nothing in the
specification: replacing the definition below it must violate a property.

## 3. The data-job queue

### Model

`DataJobQueue` has a row per job (`jobs`), a process per worker (`worker`), the
database's clock (`now`), the state of the job's requester and membership (`scope`) and
what the requester's page shows (`view`). `applied`, `failures` and `controls` are history.

| Code | Actions |
|---|---|
| `enqueueDataJobInTransaction` | `Enqueue` (a repetition under the same key changes nothing) |
| `controlQueuedDataJobInTransaction` | `Cancel`, `Pause`, `Resume`, `Replay` on `view`, guarded by the revision; `ReadJob` refreshes the page |
| `claimQueuedDataJob` | `Claim`, `ClaimRevoked` (the scope check dead-letters the row) |
| `heartbeatQueuedDataJob`, `startDataJobHeartbeat` | `Heartbeat`, `ObserveControl`, `LoseLease` |
| `executeDataJob` | `Prepared`, `FinalRenew`, `HandlerFails`, `Stop`, `SettleFailure`, `ObserveRevoked` |
| `commitQueuedDataJob` | `CommitBegin`, then `EffectDone` or `EffectTooLate`, with the row locked in between |
| `recoverQueuedDataJobs` | `Recover`: a batch of unlocked rows, each settled by its own rule |
| worker processes | `Crash`, `Stop`, `Restart` |

A transaction locks its row, so it is one action. The commit is the exception: its
business effect takes time, during which the lease may run out and others try the row
(`FOR UPDATE` waits, `SKIP LOCKED` passes by). A process uses the lease it remembers as
late as it likes. An effect whose COMMIT succeeds although its answer is lost is in the model
(the worker goes on to report a failure, which must find no lease).

Abstractions: time is counted in ticks, so lease, delay and expiry are small numbers; a
handler is "prepare, then effect", with any duration and outcome; the busy answer of derived
jobs is a retryable failure; a heartbeat that only reports progress is left out; and so are
payloads, audit rows and partitions, on which no decision about leases depends.

### Properties

- `EffectOnce`: the effect is committed exactly once if the job SUCCEEDED, and never otherwise.
- `RetryBudget`: the attempt column counts failures since enqueue or replay plus the running
  attempt; pauses are free; failures never exceed `maxAttempts`.
- `NotStranded` (proved): whatever is active can be claimed, resumed or recovered, or is a dead letter.
- `UniqueLease` (proved): two processes never remember the same lease version.
- `Fencing`: no step of a process whose job was claimed again changes a row, whatever the step is (`Acts`): not
  a report, not a commit, and not the timer's heartbeat, which would renew its successor's lease.
- `ControlBeatsCommit`: after an accepted cancellation or pause, the running attempt commits nothing.
- `ControlSeesRow`: a control applies only if the page showed the row as it is, in every column,
  although the revision is only a millisecond time.
- `KeepsPromise`: refinement of `JobPromise`, which knows no workers, leases, attempts or time.
- `EveryJobEnds`, `ControlCarriedOut`: liveness under `Fairness`.

### Runs

| Run | Instance | Why it is enough to be interesting |
|---|---|---|
| `queue` | 1 job, 2 workers, 4 ticks, lease of 2, 2 controls, 1 crash or stop | an overtaken worker needs two workers and one lease; a replay or a pause followed by a resume needs two controls; a job that expires under a lease needs `ExpiresAt` within the clock |
| `queue_liveness` | 1 job, 2 workers, 2 ticks, 1 control, 1 crash | fairness |

Jobs do not interact except in the claim's order and a recovery batch, in which each row is
settled by its own rule, so one job reaches every
state of a row; the proofs cover any number of jobs. Workers meet at one row two at a time and are
symmetric; the liveness run uses no symmetry. `MaxTime`, `MaxControls` and `MaxCrashes` are the only bounds.

`Fairness` assumes: time passes; the supervisor restarts a dead worker (container restart
policy); an idle worker keeps polling and recovering (`runDataJobWorker` recovers before each
claim); the timer of a heartbeat fires and sees a lost lease or a control; a failure is
reported; and the commit transaction ends, by its effect or by its timeout. Nothing is assumed
of handlers: a preparation may hang for ever, and jobs end nevertheless because they expire.

### Proofs

`DataJobQueueProofs` holds for any sets of jobs and workers and any limits. The stated
properties are not inductive. `EffectOnce` needs that an effect about to be committed runs
under the row's lock and current lease; `RetryBudget` needs that a leased row has counted
its attempt already and that only running rows carry the pause flag. `IInv` therefore
conjoins `TypeOK`, `RowsInv` (each row agrees with the history of its failures and effects),
`LeasesInv` (a remembered lease is not newer than the row's, and in the effect phase it is
the row's) and `UniqueLease`. Each action has a lemma that it keeps `IInv`; `WriteStep`,
`LeaseStep`, `ProcessStep` and `QuietStep` say what a whole family of actions (a row is
written, a process moves on) can and cannot disturb. `Invariance` combines them; `TypeCorrect`,
`EffectOnceHolds`, `RetryBudgetHolds`, `NotStrandedHolds` and `UniqueLeaseHolds` follow.
The only assumption is `ConstantsAssumption` of `DataJobQueue`.

`DataJobStepProofs` derives what steps may do from the same invariant. Who may commit, act or write is
settled once, action by action: an effect is committed by the holder of the row lock while the row is RUNNING and
has no pause pending (`WhoCommits`, hence `ControlBeatsCommitHolds`); a process changes a
row only with its lease or between two jobs (`WhoActs`), and an overtaken one is in neither case (`OvertakenHoldsNoLease`, hence `FencingHolds`); and every write of a row makes its revision larger
(`WhoWrites`, `WriteIsNewer`). `ControlSeesRowHolds` needs a second invariant, `ViewInv`: no page is newer than its
row, and a page of the same revision is the row. For `Implementation`, `Follows` says which status a
transaction without an effect may give a row; each action is shown to give one that follows, so each job makes
one move of `JobPromise` or none in a step (`NextMoves`), of which a recovery batch makes several at once.

Only model-checked: liveness.

## 4. Controlled operations

### Model

`OperationAgent` keeps the three stores apart, as the code does: the request's row (`row`,
changed by transactions), its journal (`journal`, appended by the process and durable at
once) and the installation (`applied`, changed by a script). `agent` is the memory of the
root process, `child` the script it dispatched, `overdue` and `authority` the facts the
checks look at.

| Code | Actions |
|---|---|
| request service and lifecycle | `Create`, `Confirm`, `Approve`, `Hold`, `Resume`, `RequestCancel`, `Retry`, `ExpireByWeb` |
| `lock-exec.py`, start of `executeRootOperation` | `Start`, `Expire`, `Admit` (with `OtherSettled`) |
| `claimRootOperation`, `canRecoverRootReceipt` | `Claim`, `ClaimRejected`, `RecoversReceipt` |
| after the claim | `WriteReceipt`, `GiveUp`, `RecordAdmission` |
| `runPhases` | `Control`, `CheckPasses`, `CheckFindsControl`, `CheckRefuses`, `CheckFails`, `Announce`, `Dispatch`, `Conclude`, `AnswerControl` |
| the dispatched script | `Act`, then `Succeeds`, `Rejects`, `Wavers` or `Breaks` |
| `finish`, `writeBack`, `settleRootOperation` | `Finish`, `WriteBack`, `WriteBackOvertaken`, `WriteBackFails` |
| `startHeartbeat` | `Pulse` |
| the process | `Crash`, `OrphanEnds` (its script ends later; the inherited locks are free only then) |

The journal is summarised by what the code asks of it: its length, whether an event has
`executionAttempted`, whether one is a reconciliation, and the last event.

Abstractions: there is no clock, leases and times to live run out at any moment (under a
serving process that counts as a fault, for it means a stall); an operator's command acts on
the current row, since the revision binding refuses every other; writing a journal file
succeeds or the process dies; whether the observed installation still is the approved one is
a free choice at each check; a script of a phase without effect changes nothing. Left out: the
web service's claim, heartbeat and completion, which refuse bound requests
(`ROOT_BRIDGE_REQUIRED`), and the detection of truncated or forged journals.

### Properties

- `EffectAtMostOnce`: no effect phase changes the installation twice, whatever is crashed,
  recovered, resumed or retried.
- `WaitingIsUntouched`: a request that waits for a decision or a claim, was cancelled or expired,
  or is offered for retry, has had no effect.
- `SuccessIsKept`: a durable success is final; nothing is appended to its journal and its row
  gets no other end, through any number of crashes in the write-back.
- `KeepsPromise`: refinement of `OperationPromise`: effects only of open requests, one
  request at a time, and a verdict that tells the truth.
- `CancelIsAnswered`, `SuccessIsReported`, `QueuedEnds`: liveness under `Fairness`.

### Runs

| Run | Instance | What it exercises |
|---|---|---|
| `operation` | 2 requests, one of three phases (two effects and their validation) that needs approval, one of one effect phase; 2 commands, 1 fault | the scope barrier between requests, orphaned scripts, holds, resumes and retries, half-done effects |
| `operation_liveness` | 2 requests without effect, 1 command, 1 fault | a stop or success outlives the process that was to answer it; two requests that block each other |
| `operation_doc` | 1 request, 2 commands | the finding below |

Commands are bounded by `MaxControls`, faults (crashes, stalls, failed database calls,
suspensions of an operator) by `MaxFaults`. More than two requests add nothing to a barrier each
request checks against every other one. Two different plans instead of two equal ones let one
run show both the barrier and a stop between two effects.
`CHECK_DEADLOCK FALSE`: the system comes to rest when all requests are over.

`Fairness` assumes that a running process goes on, that leases nobody renews and times to live
run out, and that the agent is started again and again for each unfinished request. The last is
an assumption about operators: nothing in the repository starts the agent by itself, it is run by
hand for one request. Nothing makes a dispatched script end, hence the exceptions in the properties.

`QueuedEnds` deserves a remark. Two requests that were both held after a claim and both
resumed refuse each other (`assertOtherJournalsSettled` accepts a held request and no queued
one). Neither can run any more; both wait until their time to live has passed. The property
holds because `expireRootOperation` comes before the look at other journals.

### Proofs

`OperationAgentProofs` holds for any requests, plans of any length and any bounds, from
`ConstantsAssumption` alone. None of the stated properties is inductive: that an effect happens
once rests on what the journal of a dead process tells the next one, and what a row says rests on
what that process remembered. `IInv` ties the three stores together. `RowInv`: a row without a
lease tells the truth about the effects. `JournalInv`: an effect was announced before it happened,
a verdict that is the last event is true, and a success either is in the row or can be recovered
by the next claim (`Receipt`). `ChildInv`: a script belongs to the process or to a dead one whose
claim nobody has taken over, and has not acted yet unless it says so. `WorkInv`: the
process's memory (`attempted`, `completed`, the phase it is in) agrees with what was done, at
each point of `runPhases`. `ScopeInv`: while a process past its look at other journals, or a
script, serves one request, no other is half done or in doubt.

`QuietKeeps`, `RowKeeps`, `MemoryKeeps`, `VerdictKeeps` and `LogKeeps` say what families of
steps cannot disturb; each action has a lemma that cites them and shows the rest. `NextKeeps` and
`Invariance` combine them. `TypeCorrect`, `EffectAtMostOnceHolds` and `WaitingIsUntouchedHolds`
follow at once; `SuccessIsKeptHolds` from `SuccessIsLast` (no action logs to a journal that ends
with a success) and the invariant after the step. For `Implementation` each step that changes a row
is one turn of `OperationPromise` (`TurnIsStep`), and `Act` is its `Apply` (`ActIsStep`), which
counts one more effect phase.

Only model-checked: liveness.

### A disagreement with the documentation

`docs/modules/controlled-operations.md:28` says that a known absence of effects is an ordinary
end and that unknown effects need reconciliation. `runPhases` logs the started event of an
effect phase with `executionAttempted` *before* its second admission check. A hold that lands
between the two checks is confirmed as `STOP_CONFIRMED` with `executionAttempted = false`; but
when the operator resumes the request, the next run finds the started event and ends it as
`NEEDS_RECONCILIATION`, which blocks the whole root, although nothing was ever executed. The
same happens to a retry after a failure at that point. The run `operation_doc` shows it:
`OnlyUnknownNeedsReconciliation` is violated. It errs on the safe side; all safety properties hold.

## 5. Data export

### Model

`DataExport` follows one EXPORT job over several claims. Each claim is a *generation* with an
artifact row, a random key and files of its own; `job` is what the export code reads of the queue's row
(status, lease version, lease run out or not; the queue itself is section 3). The same worker
processes write and sweep, as in the code, and a web request downloads.

| Code | Actions |
|---|---|
| the queue, as seen from here | `Claim`, `LeaseRunsOut`, `Expire`, `Cancel`, `Recover`, `Settle` |
| `createDataExportHandler`, `createPrivateExportWriter`, `publishExportFile` | `Begin`, `CreatePart`, `CreateSpool`, `LinkArchive`, `UnlinkStaging`, `DropSpool`, `FinalRenew`, `WriterFails` |
| the heartbeat | `BeatBegin`, `BeatEnd`: it locks the row, decides that the lease is valid, and writes later |
| `publishDataExportPackage` in the commit | `PublishBegin`, `Publish` |
| `createDataExportMaintenance`, `listReclaimable…`, `listReclaimed…` | `Sweep`, `SweepDone` |
| `beginDataExportReclaim` | `Consider`, `MarkReclaiming`: row locks with SKIP LOCKED, the job's lease read *without* its lock |
| `removeRegisteredExportFiles`, `finishDataExportReclaim` | `RemoveFile` (one name each), `FinishReclaim`, `RemovalFails` |
| `issueDataExportDownloadGrant`, `revokeDataExportDownloads` | `IssueBegin`, `IssueCommit`, `IssueFails`, `RevokeGrants` |
| `reserve…`, `openVerifiedExportArchive`, `consume…`, `release…` | `Reserve`, `OpenArchive`, `Consume`, `DownloadFails`; `GrantRunsOut`, `ReservationRunsOut` |

A transaction that holds a lock while something else may happen is two actions. Files exist
by name (`part`, `spool`, `zip`); the order of `updatedAt` and, between equal times, of `id` (`age`) decides
which candidates a bounded batch takes. Abstractions: one package per requester, so the export's package is that of
the last generation; time is "has run out or not", at any moment; content, hashes and encryption are data.

### Properties

- `KeepsPromise`: refinement of `PackagePromise`: one package is offered at most once, its copy
  is on disk as long as it is offered, a grant starts at most one download.
- `EverythingGoes` (liveness): nothing is left of any generation, though a late writer links
  its archive after the sweep has removed the key, and one key can never be removed.
- `NoGrantOutlivesPackage`: no redeemable grant, nor one being issued, of a withdrawn package.
- `ReservationIsFenced`: a request whose reservation was taken over neither starts a stream nor
  releases its successor's reservation.
- `RevokedStartsNothing`: not even for a download that has the archive open already.

### Runs

| Run | Instance | What it exercises |
|---|---|---|
| `export` | 2 workers, 2 generations, batches of one, key 1 can never be removed | zombie writers against the sweep and against the next generation; fairness between a stuck key and a good one |
| `export_download` | 2 workers, 1 generation, 2 grants, 2 downloads, 1 fault | grants, reservations and revocation against the reclaim |

Two generations suffice because a generation shares nothing with another except the job's
row and the places of a batch; a batch of one is the hardest case for the stuck key. `MaxGen` and
`MaxFaults` are the bounds. Deadlock is checked: a sweep is always possible.

`Fairness`: the job expires; the worker loop sweeps before each poll (`data-job-worker.ts`) and
works through its batch; transactions end; an expired writer fails, because the snapshot's
transaction ends with the job. No writer is assumed to get anywhere.

### Proofs

`DataExportProofs` holds for any workers, generations, requests, grants, stuck keys and batch
sizes, from `ConstantsAssumption` alone. The stated properties are not inductive: they rest on row locks
that two transactions hold across a decision and its effect. The inductive invariant says what a
lock is worth to its holder.

- `AloneInv`: a generation has one writer, and an artifact's lock one transaction.
- `WorkerInv`: from its link to its commit a writer's archive is in place as long as the
  artifact is STAGING; a commit that publishes holds a STAGING artifact; a reclaim that
  decides holds one that is not offered while no grant is being issued for it.
- `JobInv`, `ArtifactInv`: files are removed only after the artifact was given up, which is never
  taken back.
- `GrantInv`: what a grant says of its job and of its downloads.

The proof that a step keeps them has one lemma per action, which cites the families `MoveKeeps`,
`LeavesKeep`, `JobKeeps` and `GrantsKeep` for the parts an action cannot disturb. The rotation's
cursor is a CHOOSE of a greatest key; `LastIsLast` shows from the library's least-element theorem
that it exists. `WhoStreams` lists the steps that move a download, which gives
`RevokedStartsNothing`; `FencedStep` gives `ReservationIsFenced`. For the refinement,
`WhoOffers` shows that only the publishing commit and the expiry change what the requester can
download, so that a reclaim comes only afterwards. Only model-checked: `EverythingGoes`.

## 6. Data deletion

### Model

`DataDelete` has the intents (`intent`), what they froze (`frozen`, `fence`), the receipts of
their files (`receipt`), the records and files themselves (`row`, `file`), the ledger, the workers,
and ordinary transactions of the application (`writer`), which the database's trigger stops at a fence.

| Code | Actions |
|---|---|
| `createDatabaseDeletion`, `controlDatabaseDeletion` | `Create`, `Undo` (cancel or restore), `Retry` |
| the fence trigger `areaforge_delete_fence_guard` | `WriterBegins`, `WriterWrites`, `WriterCommits`, `WriterRollsBack`; `FenceSeen` says what a snapshot shows |
| `claimDatabaseDeletion` | `Claim`, `RecoverOnly`: lost runs are taken back first |
| `prepareDeletionFiles` | `Prepare`: registers the files and sets the irreversibility mark |
| the worker's loop over files | `Scan`, `FileIntent`, `RemoveBegin`, `Unlink`, `RecordRemoved` |
| `commitDatabaseDeletion` | `Commit`: records, ledger, fences and state in one transaction |
| `failDatabaseDeletion`, the process | `WorkerFails`, `Fail`, `TransactionLost`, `Crash` |
| time and authorization | `BecomesDue`, `LeaseRunsOut`, `AuthorizationChanges` |

An object stands for a record that owns one stored file. Abstractions: which records a plan
includes is data (`Target`), versions stand for row hashes, the ledger's hash chain is its order, and
the wait of a day or a month is longer than any transaction (`BecomesDue`). Left out: the replay of the
ledger on a restored database, and the filtering of frozen rows from reads.

### Properties

- `FreezeHolds`: a record behind a fence is the one that was frozen.
- `FilesMatchReceipts`: after any crash the database knows which files may be gone, and never
  has a receipt for one that is there. That a retry accepts a file that is missing already is modelled
  (`Unlink`), not stated: a retry that refused it would end as a failed request, which no property forbids.
- `OvertakenWorkerIsFenced`: a worker whose lease has passed on changes no intent, receipt or record.
- `KeepsPromise`: refinement of `DeletionPromise`: whoever cancels has lost nothing, no two
  requests work on one object, success means that everything is gone and recorded once.
- `Settles` (liveness): a request is undone, succeeds, or fails and waits for its requester.

### Runs

| Run | Instance | What it exercises |
|---|---|---|
| `delete` | 1 intent (a trashed resource) of 1 object, 1 Read Committed writer, 2 workers, 2 attempts, 1 edit, 1 retry, 1 change of authorization, 2 faults | crashes between unlink and receipt, a second worker, the last attempt lost, a writer at the frozen record |
| `delete_doc` | 1 intent, 1 Serializable writer | the finding below |

Two faults are needed for a crash during the repair of a crash. Requests of several objects, which may be half
removed, and several requests for one object are beyond this instance and covered by the proofs. `CHECK_DEADLOCK FALSE` in
`delete`: it comes to rest when the request is over and retries are used up.

`Fairness`: time passes and leases run out, transactions end (they have timeouts), the worker
loop polls, and a worker that cannot go on throws. That a step succeeds is not assumed.

### Proofs

`DataDeleteProofs` holds for any requests, targets, objects, workers, writers and bounds, from
`ConstantsAssumption` alone. None of the properties is inductive: `FilesMatchReceipts` fails to
survive a worker's `Unlink` unless the worker is known to be at an object of an irreversible
intent with an announced removal; and that the intent stays irreversible needs that `Undo` meets
no marked one. `IInv` therefore says what the database's rows mean for objects (`IntentsInv`: an
active intent has all its objects behind its fences, an undone one was never irreversible;
`FencesInv`: a fence belongs to an active intent that names the object; `FilesInv`: a record without
file is doomed), what a worker may still rely on *without* its lease (`WorkersInv`) and what an
uncommitted write means (`WritersInv`). Every action has a lemma that it keeps `IInv`.
Theorems: `Invariance`, `TypeCorrect`, `FilesMatchReceiptsHolds`; `FreezeHoldsForReadCommitted`, under the
assumption that no writer is Serializable (the finding shows that it is needed); and
`Implementation`: `Spec => KeepsPromise`, where each action that the requester can see is mapped to its step of
`DeletionPromise` and all others are shown invisible; and `OvertakenWorkerIsFencedHolds`, for which
`WhoMoves` shows that only its own steps move a worker and `FencedStep` looks at those
it can take without its lease. `WritersInv` says
that no writer still has an uncommitted change of an object of a due intent; without it `Commit` could be
followed by a write to a deleted record.

### A disagreement with the documentation

`docs/modules/data-deletion.md:23` says that ordinary writers cannot get past a freeze. The trigger's
query uses the transaction's snapshot, and the application has Serializable transactions
(`subject-merge-service.ts:199`): one that began before the freeze and writes after it changes a
frozen record. The run `delete_doc` shows it. Nothing is lost: `verifyFrozenDeletePlan` notices
later and the request fails; but a trashed resource past its retention can then neither be
retried nor restored.

## 7. The offline focus queue

### Model

`FocusOffline` composes three parts, because what matters is between them: the server's session
commands, the pages, and the sync loops of the tabs. A session is `local` for the queue until the server has
created it as `server`; `foreign` is one that another device starts.

| Code | Actions |
|---|---|
| `startStudySession` | `Start`, `ReplayStart`, `RefuseStart` |
| `pause…`, `resume…`, `prepare…`, `endStudySession`, `updateStudySessionContext` | `Unknown`, `Replay`, `Refuse`, `Admit` (the reads and checks), then `Apply` or `Overtaken` (compare-and-swap) |
| launcher `start`, `executeFocusSessionCommand` | `StartSession`, `Command`; `PageApplied`, `PageRefused`, `PageMeetsActive`, `PageUnanswered`, `PageLoggedOut` |
| `useFocusSessionEffects` | `Refresh` (heartbeat), `Hear` (the event of a sync), `Connect` |
| `resolveFocusOfflineConflict`, `retryDeferredFocusCommands` | `Resolve`, `Defer`, `Retry` |
| `syncFocusOfflineQueue` | `Begin` (the lease and the one listing), `End` |
| `syncFocusOfflineQueueInternal` | `Skip`, `StopAtBlocked`, `Prepare`, `Post`, `Succeed`, `Fail`, `Interrupted`, `Drop` |
| `updateCommand`, also in `remapQueuedCommands` | `Get`, `Put`: two IndexedDB transactions, as in the code |
| other devices, network, browser | `OtherStarts`, `OtherActs`, `LoseAnswer`, `RejectCall`, `StopTab`, `LeaseRunsOut` |

The browser's store is a function from commands to records (`queue`), the session a command was
made for (`home`, its `localSessionId`, which no update changes) and the order of creation. A loop works
through a snapshot of the records (`todo`): what other tabs write after the listing it
does not see, except where `updateCommand` reads the record again. The page and the loop send
the same command with the same key; a lost answer leaves the request lost, served
or still on its way. Abstractions: a version stands for `updatedAt`, 0 for the timestamp
of a local projection; of a command's body only the expected version is kept; the
page's conflict dialog is answered at once; `Resolve`, `Defer` and `Retry` are atomic; there
is one start per run. Left out: the saved snapshot and drafts, the localStorage fallback with its
unlocked lease, and logout, which clears the queue after a warning.

### Properties

- `AppliedOnce`: a command takes effect at most once, however often it is sent and although the
  loop rewrites its body, which changes the fingerprint a repeated key is compared by.
- `NothingLost`: a command that is no longer queued took effect or the user was told.
- `OfflineOrder`: the commands of a session started offline take effect in the order given, except
  for those the user has deferred.
- `Settles` (liveness): again and again the queue is empty or has put a command to the user, unless
  a stranded command (the finding) stands in the way.

### Runs

| Run | Instance | What it exercises |
|---|---|---|
| `focus` | start, pause, close; 1 page, 1 synchronising tab, 1 event | the page's own request against the loop's, lost and late answers, a command made while the loop remaps the queue |
| `focus_doc` | the same | the finding below |

The user begins without a network and gets it at any time, so a command may be made locally,
or be sent at once. Three commands are the fewest in which one that fails has both a predecessor, whose answer
moves it, and a successor. `MaxEvents` bounds what other devices do, lost or refused requests, closed tabs
and leases lost by a live tab; each of these alone reaches every error path of the loop. Two
tabs that both believe to hold the lease are not part of the run (more than six million states
for three commands). With two commands they were explored; there a frozen tab that comes back can undo
a concurrent `Retry`, because `updateCommand` writes back what it read; hence the exemption in
`OfflineOrder`. `CHECK_DEADLOCK FALSE`: the user may stop.

Fairness: requests on their way are served; a page handles its answer; a loop goes on; an open tab
polls again (`use-shell-activity-status.ts` synchronises every 15 seconds), the network comes back, and the
lease of a tab that is gone expires. Nothing is assumed of the user.

### Proofs

`FocusOfflineProofs` holds for any commands with at most one start, any number of pages, loops
and faults, from the named assumptions of the module alone; in particular for the two tabs that TLC
could not explore. What must not happen is decided in the server's transactions, but what makes
it right is spread over the records, the snapshots and the requests on their way. The
inductive invariant follows a command through them:

- `OrderInv`, `StartInv`: a command is made once, and the start is the first of the local
  session's commands.
- `RowInv` of every record, in the queue, in a snapshot and in the hands of `updateCommand`: it
  names no session but that of its command, and a deferred one has been put off by the user.
- `EffectInv`: a command took effect if and only if it has its audit event; one of the local
  session not before all earlier ones were *settled* (took effect, told or put off); a command
  that was made is queued, told or took effect.
- `CallInv`: a request was sent when the commands before its own were settled. Between
  its reads and its writes, either the session has moved on or its command has not taken effect:
  this is what the compare-and-swap is worth, and `AppliedOnce` rests on it.
- `SenderInv`, `AnswerInv`: a client has one request, for what it asked, and an "ok" means that the
  command took effect, and for a start that it created `server`.
- `LoopInv`: however old a snapshot is, the commands before a listed one are listed or settled.

`OfflineOrder` thus does not need the lease: a loop that lost it sends from its snapshot in order,
and the server is asked in an order that settles predecessors first. The lemmas `PageKeeps` and
`LoopKeeps` state once what a page's or a loop's step may change; `FirstIsFirst` shows, from the
well-foundedness of the naturals, that the CHOOSE in `First` finds a command. Only model-checked: `Settles`.

### A disagreement with the documentation

`docs/modules/timer.md:66` says that commands are queued first and synchronised in order once
online. `remapQueuedCommands` gives the server's id to the commands it lists. A command that the user
makes on the local session after that listing, and before the page has heard of the server's session, keeps
the local id: each later sync sends it to a session the server does not know, gets 404, leaves it
`pending` and stops. It is never put to the user, because only blocked and deferred commands are, and it holds up all
commands after it. The run `focus_doc` shows it (`Synchronised`); a reload discards nothing, the row stays.

Not stated by a property: when a loop replays a command that had taken effect already, the answer is the *current*
session, and the next command is moved onto it; what another device did in between is then no conflict any
more, although `docs/architecture/api-surface.md:83` promises that other devices' changes are not merged silently.

## 8. Updates of the installation

### Model

`UpdateAgent` composes the request files of the update center (`request`), the root agent that its timer starts
every minute (`agent`), the updater (`updater`), either as the agent's child or on its own (the nightly timer, an
operator's `apply`), the operator's maintenance commands (`hold`, `drained`) and the installation (`production`: image
and version, which are two writes, policy, and the records a rollback goes back to). Three locks order them:

- one agent at a time: its child inherits the lock and keeps it when the agent dies (guard of `Admit`);
- queue-control, for admissions, claims and holds (`QueueControlFree`);
- production-state (`lock`), for changes; agent and child share one open file, so it is free only when both are gone (`LastHolder`).

| Code | Actions |
|---|---|
| `createUpdateRequest` | `File`, bound to the state (`bound`) and time (`since`) of the confirmation |
| `areaforge-updater-maintenance.sh` | `PublishHold`, `ClearHold`, `Drain` |
| `main` of the agent, `reconcile_stale_claims` | `Admit`, `Republish`, `LeaveClaim`, `WriteOff`, `NothingToDo` |
| `claim_request` | `TakeRequest`, `WriteClaim` |
| `process_claim` | `Replay`, `Refuse`, `Check`, `Execute` |
| `process_locked_mutation`, `run_exact_rollback` | `Compare`, `Mutate`, `Settle` |
| `process_apply` | `Execute`, `Judge`: the verdict is made from the child's output (`Judged`) |
| `publish_terminal_decision` | `PublishStatus`, `CleanUp` |
| `updater_admission_barrier`, `acquire_production_state_lock` | `Run`, `TakeLock`, `AdmitChild` |
| `main` of the updater, `validate_request_guard` | `Verify`, `Begin`, `Stillborn` |
| `apply_update` | `Prepare`, `SwitchImage`, `SwitchVersion`, `Health`, `SwitchFails`, `RestoreImage`, `RestoreVersion`, `Record`, `RecordFailure`, `Terminal` |
| `journal_apply_event`, `journal_note_reconciliation` | `Trouble`, `Note`, `PublishFailure` |
| processes | `CrashAgent`, `Crash` |

A journal is summarised by what `journal_scan_all` asks of it: has it a terminal event (`journal`, `abandoned`).
Abstractions: there is one newer release; requests and claims run out at any moment; a status that is out
of date is a request that was filed earlier; backup, images, compose file and migration are one phase; the
health check and the smoke test are one. Left out: legacy V1 requests, corrupt or ambiguous
claims and tampered journals, the verification of a release, hash bindings, and the manual reconciliation of a
journal or a claim, so both stay. Assumed of the configuration: agent, updater and `drain` name the same
production-state lock file. The shipped example sets it; without the setting `areaforge-updater-maintenance.sh:59`
derives the path from its environment and not from the deploy directory in the configuration.

### Properties

- `TypeOK` says also that whoever changes the installation holds the lock, in particular a child whose agent is dead.
- `AnswersAreTrue`: SUCCEEDED means that it took effect, REJECTED that nothing did or all was taken back, whatever
  the agent could hear of its child; a request that was cleaned up was answered.
- `ChangedAsConfirmed`: a request changes the installation only from the state its administrator saw, once per idempotency key.
- `UncertainStopsRequests`: no requested change begins beside a claim in doubt, no requested update beside an open journal.
- `DrainedIsQuiet`: after `drained` nothing is changed or claimed until the hold is cleared.
- `EveryRequestIsAnswered` (liveness): unless a hold or a doubt is in the way.

### Run

| Run | Instance | What it exercises |
|---|---|---|
| `update` | an administrator's update; the same again, a rollback, a policy or a check; 2 controls, 1 fault | child and own updater, replays, holds between confirmation and execution, a crash or failing step anywhere |

`MaxControls` bounds updates of the timer or an operator, holds and clears, together: two are enough for
a hold and its clear around a claim, for an own update and a hold, and for two own updates. `MaxFaults` bounds crashes and failing
steps: one leaves every journal, claim and lock that can be left behind. Two requests are enough
because claims meet only through keys and through what is left over. `CHECK_DEADLOCK FALSE`: it comes to rest when all is answered.

`FairSpec`: the agent's timer fires (`areaforge-update-agent.timer`, every 60 seconds), processes go on until they end or
crash, and a claim that is swept again and again runs out in the end (strong fairness of
`WriteOff`). Nothing is assumed of operators or of the nightly timer.

### Proofs

`UpdateAgentProofs` holds for any requests, whatever may be filed as them, and any bounds, from `ConstantsAssumption`
alone. `AnswersAreTrue` is not inductive: an answer is made from what is remembered of an execution, so
`FateInv` ties each point of the agent, each phase of its child and the child's output to what has been done for the
request, and `AgentInv` and `ChildInv` say for which claim they work, that it is undecided, and that a
child which has outlived its agent still works for an undecided claim that nobody else takes up. That one request
at a time acts is `AloneInv`: the sweep before a claim leaves nothing beside it, unless the claim is a check;
and nothing was done under its key (`NewKey`), because a decision under it would have been repeated.
`LockInv` says which open file holds the production-state lock from admission to the end of an operation. `GuardInv` keeps what a
child has compared true until its first write, since nobody else can hold the lock meanwhile, and `DrainInv`
what `drained` means. `IInv` conjoins them; `PhaseKeeps`, `StepKeeps`, `DieKeeps` and `DecideKeeps` treat families of steps
(an operation goes on, an updater comes or goes, one ends, the agent decides), each other action has a lemma of its own, and
`NextKeeps` and `Invariance` combine them. `TypeCorrect` and `AnswersHold` follow at once; `DrainedStaysQuiet`,
`ConfirmedChanges` and `UncertaintyStops` from the invariant and from who can change the installation (`WhoChanges`)
or begin to (`WhoBegins`).

Only model-checked: `EveryRequestIsAnswered`.

### Observations

The model shows some behaviour that no property forbids, because no line of the repository clearly does:

- A claim in doubt stops later *requests*. An updater of its own looks at the hold and the journals, not at claims,
  and goes on, although the status then says that no change is made before the reconciliation (`areaforge-update-agent.sh:374`).
- The agent's scan takes the open journal of an updater at work for that of a dead one: it publishes
  a hold, which an operator must clear, in the middle of every nightly update that lasts longer than a minute.
- An updater of its own scans before it takes the production-state lock and not again; nothing can begin in between,
  because it keeps queue-control, but an updater that was admitted earlier may die there and leave its journal open.
- Hold and clear between claim and execution are not noticed if the claim was checked before; only the child
  looks again, a rollback or policy does not.

## 9. What is shown, what is not

Proved for all instances: type correctness, all safety and action properties and the whole refinement of the
queue; type correctness, receipts, the fence of an overtaken worker, the freeze (below Serializable) and the whole refinement of
deletion; type correctness, the grants, the reservations and the whole refinement of export; type
correctness and all four safety properties of updates; type correctness, the safety
properties and the whole refinement of controlled operations; type correctness and the three safety
properties of the offline queue. So every invariant, action property and refinement that a passing run
checks is also a theorem. Model-checked on the instances above only: the liveness properties
(liveness under fairness and what speaks of `ENABLED` are out of the prover's reach)
and the runs that show a disagreement with a document. No RECURSIVE operator is used.

Not modelled, with the reasons in `PROJECT.json`: most of the repository. AreaForge is
a large application whose code is for the greater part pages, forms, calculations and
validation scripts that run once, on behalf of one person, in one transaction; these have no
interleavings or failures that a model could add anything to. What does have them and is missing: the takeover of leased idempotency claims, action tokens against
slow hashing, attachments between upload and reconciliation, and the replay of the deletion ledger. Of
the modelled components, what the "abstractions" paragraphs name is left out.
PostgreSQL's row locks, snapshots and clock, POSIX `flock`, `link` and `fsync`, and the transactions
of IndexedDB are assumed to do what they promise.
