------------------------- MODULE DataJobStepProofs -------------------------
(***************************************************************************)
(* What a step of DataJobQueue may and may not do, for any jobs, workers,  *)
(* bounds and limits: its action properties, and that it implements        *)
(* JobPromise.  All rest on the inductive invariant of DataJobQueueProofs, *)
(* and ControlSeesRow on a second one about revisions (ViewInv).           *)
(***************************************************************************)
EXTENDS DataJobQueueProofs

-----------------------------------------------------------------------------
(* Who writes                                                              *)

\* A written row has the columns it was given, and a new revision.
LEMMA SavedColumns ==
  ASSUME NEW row, NEW data, Saved(row, data) \in Row
  PROVE  /\ Saved(row, data).revision = NextRevision(row)
         /\ Saved(row, data).status = data.status
         /\ Saved(row, data).dead = data.dead
BY DEF Saved, Row

\* A written row is newer than the one it replaces.
LEMMA WriteIsNewer ==
  ASSUME IInv, IInv', NEW j \in Jobs, NEW data, jobs'[j] = Saved(jobs[j], data)
  PROVE  /\ jobs'[j].revision > jobs[j].revision
         /\ jobs'[j].status = data.status /\ jobs'[j].dead = data.dead
<1>1. now \in Nat /\ jobs[j] \in Row /\ jobs'[j] \in Row
  BY DEF IInv, TypeOK
<1>2. /\ jobs'[j].revision = NextRevision(jobs[j])
      /\ jobs'[j].status = data.status /\ jobs'[j].dead = data.dead
  BY <1>1, SavedColumns
<1>3. NextRevision(jobs[j]) > jobs[j].revision
  BY <1>1 DEF NextRevision, Larger, Row
<1> QED
  BY <1>2, <1>3

\* Every write of a row goes through updateQueuedDataJob, but for the first one.
LEMMA WhoWrites ==
  ASSUME IInv, Next, NEW j \in Jobs
  PROVE  \/ jobs'[j] = jobs[j]
         \/ \E data : jobs'[j] = Saved(jobs[j], data)
         \/ Enqueue(j)
<1>1. jobs \in [Jobs -> Row]
  BY DEF IInv, TypeOK
<1>2. ASSUME NEW k \in Jobs, NEW data, Write(k, data)
      PROVE  jobs'[j] = jobs[j] \/ jobs'[j] = Saved(jobs[j], data)
  BY <1>1, <1>2 DEF Write
<1>3. ASSUME NEW k \in Jobs, Requester(k)
      PROVE  jobs'[j] = jobs[j] \/ (\E data : jobs'[j] = Saved(jobs[j], data)) \/ Enqueue(j)
  <2>1. CASE Enqueue(k) \/ ReadJob(k)
    BY <1>1, <2>1 DEF Enqueue, ReadJob
  <2>2. CASE Cancel(k) \/ Pause(k) \/ Resume(k) \/ Replay(k)
    <3>1. \E data : Write(k, data)
      BY <2>2 DEF Cancel, Pause, Resume, Replay, Control
    <3> QED BY <1>2, <3>1
  <2> QED BY <1>3, <2>1, <2>2 DEF Requester
<1>4. ASSUME NEW w \in Workers, Recover(w)
      PROVE  jobs'[j] = jobs[j] \/ \E data : jobs'[j] = Saved(jobs[j], data)
  BY <1>4 DEF Recover
<1>5. ASSUME NEW w \in Workers, Execution(w)
      PROVE  jobs'[j] = jobs[j] \/ \E data : jobs'[j] = Saved(jobs[j], data)
  <2>1. CASE UNCHANGED jobs
    BY <2>1
  <2>2. CASE ObserveControl(w) \/ Heartbeat(w) \/ FinalRenew(w) \/ EffectDone(w) \/ SettleFailure(w)
    <3>1. worker[w].job \in Jobs
      BY <2>2, ExecutesJob DEF ObserveControl, Heartbeat, FinalRenew, EffectDone, SettleFailure,
         Reaches, Executing, IInv
    <3>2. \E data : Write(worker[w].job, data)
      BY <2>2 DEF ObserveControl, Heartbeat, FinalRenew, EffectDone, SettleFailure, Renewed
    <3> QED BY <1>2, <3>1, <3>2
  <2> QED
    BY <1>5, <2>1, <2>2 DEF Execution, LoseLease, ObserveRevoked, Prepared, CommitBegin,
       EffectTooLate, HandlerFails
<1>6. ASSUME NEW w \in Workers, NEW k \in Jobs, Claim(w, k) \/ ClaimRevoked(w, k)
      PROVE  jobs'[j] = jobs[j] \/ \E data : jobs'[j] = Saved(jobs[j], data)
  <2>1. \E data : Write(k, data)
    BY <1>6 DEF Claim, ClaimRevoked
  <2> QED BY <1>2, <2>1
<1>7. CASE UNCHANGED jobs
  BY <1>7
<1> QED
  BY <1>3, <1>4, <1>5, <1>6, <1>7
     DEF Next, Tick, RevokeScope, RestoreScope, Process, Stop, Crash, Restart

-----------------------------------------------------------------------------
(* What the requester saw                                                  *)

\* A client has not read a newer row than there is, and a row of the same revision
\* is the same row.
ViewOf(j) ==
    /\ view[j].revision <= jobs[j].revision
    /\ view[j].revision = jobs[j].revision => view[j] = jobs[j]

ViewInv == \A j \in Jobs : ViewOf(j)

\* A client reads rows when it submits, lists or controls them.
LEMMA WhoReads ==
  ASSUME IInv, Next, NEW j \in Jobs
  PROVE  view'[j] = view[j] \/ view'[j] = jobs'[j]
<1>1. view \in [Jobs -> Row]
  BY DEF IInv, TypeOK
<1>2. ASSUME NEW k \in Jobs, RevokeScope(k) \/ RestoreScope(k) \/ Requester(k)
      PROVE  view'[j] = view[j] \/ view'[j] = jobs'[j]
  BY <1>1, <1>2 DEF RevokeScope, RestoreScope, Requester, Enqueue, ReadJob, Cancel, Pause, Resume,
     Replay, Control
<1>3. CASE UNCHANGED view
  BY <1>3
<1>4. \/ \E k \in Jobs : RevokeScope(k) \/ RestoreScope(k) \/ Requester(k)
      \/ UNCHANGED view
  BY DEF Next, Tick, Process, Stop, Crash, Restart, Recover, Claim, ClaimRevoked,
     Execution, ObserveControl, Heartbeat, FinalRenew, EffectDone, SettleFailure,
     LoseLease, ObserveRevoked, Prepared, CommitBegin, EffectTooLate, HandlerFails
<1> QED
  BY <1>2, <1>3, <1>4

\* Reading is reading the row, and every write of it makes it newer.
LEMMA ViewKeeps ==
  ASSUME IInv, IInv', ViewInv, [Next]_vars
  PROVE  ViewInv'
<1>1. CASE UNCHANGED vars
  BY <1>1 DEF vars, ViewInv, ViewOf
<1>2. CASE Next
  <2> SUFFICES ASSUME NEW j \in Jobs PROVE ViewOf(j)'
    BY DEF ViewInv
  <2>1. /\ view[j] \in Row /\ jobs[j] \in Row /\ jobs'[j] \in Row
        /\ ViewOf(j)
    BY DEF IInv, TypeOK, ViewInv
  <2>2. CASE view'[j] = jobs'[j]
    BY <2>1, <2>2 DEF ViewOf, Row
  <2>3. CASE view'[j] = view[j] /\ jobs'[j] = jobs[j]
    BY <2>1, <2>3 DEF ViewOf
  <2>4. CASE view'[j] = view[j] /\ \E data : jobs'[j] = Saved(jobs[j], data)
    <3>1. jobs'[j].revision > jobs[j].revision
      BY <2>4, WriteIsNewer
    <3> QED
      BY <2>1, <2>4, <3>1 DEF ViewOf, Row
  <2>5. CASE Enqueue(j)
    <3>1. view'[j] = jobs'[j]
      BY <2>5 DEF Enqueue, IInv, TypeOK
    <3> QED
      BY <2>1, <3>1 DEF ViewOf, Row
  <2> QED
    BY <1>2, <2>2, <2>3, <2>4, <2>5, WhoReads, WhoWrites
<1> QED
  BY <1>1, <1>2

\* No page is ever newer than its row, and equal revisions mean equal rows: what a
\* client's revision binding (updateQueuedDataJob) relies on.
LEMMA ViewHolds == Spec => []ViewInv
<1>1. Init => ViewInv
  BY DEF Init, ViewInv, ViewOf, NoRow
<1>2. IInv /\ IInv' /\ ViewInv /\ [Next]_vars => ViewInv'
  BY ViewKeeps
<1> QED
  BY <1>1, <1>2, Invariance, PTL DEF Spec

\* Who counts a control.
LEMMA WhoControls ==
  ASSUME IInv, Next, NEW j \in Jobs, controls'[j] # controls[j]
  PROVE  view[j].revision = jobs[j].revision
<1>1. controls \in [Jobs -> Nat]
  BY DEF IInv, TypeOK
<1>2. ASSUME NEW k \in Jobs, NEW data, Control(k, data)
      PROVE  view[j].revision = jobs[j].revision
  BY <1>1, <1>2 DEF Control
<1>3. PICK k \in Jobs : Cancel(k) \/ Pause(k) \/ Resume(k) \/ Replay(k)
  BY DEF Next, Tick, RevokeScope, RestoreScope, Requester, Enqueue, ReadJob,
     Process, Stop, Crash, Restart, Recover, Claim, ClaimRevoked,
     Execution, ObserveControl, Heartbeat, FinalRenew, EffectDone, SettleFailure,
     LoseLease, ObserveRevoked, Prepared, CommitBegin, EffectTooLate, HandlerFails
<1>4. \E data : Control(k, data)
  BY <1>3 DEF Cancel, Pause, Resume, Replay
<1> QED
  BY <1>2, <1>4

\* A control (controlQueuedDataJobInTransaction) counts only if the page showed the row
\* as it is, in every column, although it sends only the revision.
THEOREM ControlSeesRowHolds == Spec => ControlSeesRow
<1>1. IInv /\ ViewInv /\ [Next]_vars
        => [\A j \in Jobs : controls'[j] # controls[j] => view[j] = jobs[j]]_vars
  BY WhoControls DEF ViewInv, ViewOf
<1> QED
  BY <1>1, Invariance, ViewHolds, PTL DEF Spec, ControlSeesRow

-----------------------------------------------------------------------------
(* Who commits, and who may write                                          *)

\* An effect is committed by the worker that holds the row lock, while no control is
\* pending on the row.
LEMMA WhoCommits ==
  ASSUME IInv, Next, NEW j \in Jobs, applied'[j] # applied[j]
  PROVE  /\ \E w \in Workers : worker[w].job = j /\ EffectDone(w)
         /\ jobs[j].status = "RUNNING" /\ ~jobs[j].pause
         /\ applied'[j] = applied[j] + 1
<1>1. applied \in [Jobs -> Nat]
  BY DEF IInv, TypeOK
<1>2. PICK w \in Workers : EffectDone(w)
  BY DEF Next, Tick, RevokeScope, RestoreScope, Requester, Enqueue, ReadJob, Cancel, Pause, Resume,
     Replay, Control, Process, Stop, Crash, Restart, Recover, Claim, ClaimRevoked,
     Execution, ObserveControl, Heartbeat, FinalRenew, SettleFailure,
     LoseLease, ObserveRevoked, Prepared, CommitBegin, EffectTooLate, HandlerFails
<1>3. worker[w].phase = "effect" /\ worker[w].job \in Jobs
  BY <1>2, ExecutesJob DEF EffectDone
<1>4. worker[w].job = j /\ applied'[j] = applied[j] + 1
  BY <1>1, <1>2, <1>3 DEF EffectDone
<1> QED
  BY <1>2, <1>3, <1>4 DEF IInv, LeasesInv, LeaseInv

\* While a cancellation or a pause that was accepted is pending, no effect of the job
\* is committed (commitQueuedDataJob).
THEOREM ControlBeatsCommitHolds == Spec => ControlBeatsCommit
<1>1. IInv /\ [Next]_vars
        => [\A j \in Jobs : ControlPending(jobs[j]) => applied'[j] = applied[j]]_vars
  BY WhoCommits DEF ControlPending
<1> QED
  BY <1>1, Invariance, PTL DEF Spec, ControlBeatsCommit

\* A worker whose job was claimed again is executing it without its lease.
LEMMA OvertakenHoldsNoLease ==
  ASSUME IInv, NEW w \in Workers, Overtaken(w)
  PROVE  ~HoldsLease(w) /\ worker[w].phase # "poll"
<1>1. worker[w].job # None /\ worker[w].version < jobs[worker[w].job].leaseVersion
  BY DEF Overtaken
<1>2. worker[w] \in WorkerState /\ LeaseInv(w) /\ jobs \in [Jobs -> Row]
  BY DEF IInv, TypeOK, LeasesInv
<1>3. worker[w].version \in Nat /\ jobs[worker[w].job].leaseVersion \in Nat
  BY <1>1, <1>2 DEF WorkerState, Row
<1>4. ~HoldsLease(w)
  BY <1>1, <1>3 DEF HoldsLease
<1>5. worker[w].phase # "poll"
  BY <1>1, <1>2 DEF LeaseInv
<1> QED
  BY <1>4, <1>5

\* A step of a process changes a row only with its lease, or between two jobs.
LEMMA WhoActs ==
  ASSUME NEW w \in Workers, Acts(w), jobs' # jobs
  PROVE  HoldsLease(w) \/ worker[w].phase = "poll"
<1>1. CASE Recover(w)
  BY <1>1 DEF Recover
<1>2. ASSUME NEW j \in Jobs, Claim(w, j) \/ ClaimRevoked(w, j)
      PROVE  worker[w].phase = "poll"
  BY <1>2 DEF Claim, ClaimRevoked
<1>3. CASE Process(w)
  BY <1>3 DEF Process, Stop, Crash, Restart
<1>4. CASE Execution(w)
  <2>1. CASE LoseLease(w) \/ ObserveRevoked(w) \/ Prepared(w) \/ CommitBegin(w)
             \/ EffectTooLate(w) \/ HandlerFails(w)
    BY <2>1 DEF LoseLease, ObserveRevoked, Prepared, CommitBegin, EffectTooLate, HandlerFails
  <2>2. CASE Heartbeat(w) \/ FinalRenew(w)
    BY <2>2 DEF Heartbeat, FinalRenew, Proceeds
  <2>3. CASE ObserveControl(w) \/ EffectDone(w) \/ SettleFailure(w)
    BY <2>3 DEF ObserveControl, EffectDone, SettleFailure
  <2> QED
    BY <1>4, <2>1, <2>2, <2>3 DEF Execution
<1> QED
  BY <1>1, <1>2, <1>3, <1>4 DEF Acts

\* No step of a process whose job has been claimed again since changes a row,
\* neither a report, a commit nor a heartbeat (the lease version in
\* assertQueueLease).
THEOREM FencingHolds == Spec => Fencing
<1>1. IInv /\ [Next]_vars
        => [\A w \in Workers : Overtaken(w) /\ Acts(w) => jobs' = jobs]_vars
  <2> SUFFICES ASSUME IInv, NEW w \in Workers, Overtaken(w), Acts(w), jobs' # jobs
               PROVE  FALSE
    OBVIOUS
  <2> QED
    BY OvertakenHoldsNoLease, WhoActs
<1> QED
  BY <1>1, Invariance, PTL DEF Spec, Fencing

-----------------------------------------------------------------------------
(* JobPromise                                                              *)

\* Where a job may go without its effect.
Quiet(a, b) == a = b \/ <<a, b>> \in Promise!Moves \ Promise!Complete

\* What one job does in a step.
Moved(j) ==
    \/ applied'[j] = applied[j] /\ Quiet(Standing(jobs[j]), Standing(jobs[j])')
    \/ /\ applied'[j] = applied[j] + 1
       /\ Standing(jobs[j]) = "open" /\ Standing(jobs[j])' = "done"

\* The moves of JobPromise that need no effect.
LEMMA QuietFacts ==
  /\ \A a : Quiet(a, a)
  /\ Quiet("none", "open") /\ Quiet("open", "paused") /\ Quiet("paused", "open")
  /\ Quiet("open", "cancelling") /\ Quiet("dead", "open") /\ Quiet("open", "dead")
  /\ \A a \in {"open", "paused", "cancelling", "dead"} : Quiet(a, "closed")
BY DEF Quiet, Promise!Moves, Promise!Complete, Promise!Submit, Promise!Controls, Promise!GiveUp,
       Promise!Close

\* How a row of a status looks.
LEMMA StandingFacts ==
  ASSUME NEW row, row.status \in Statuses, row.dead \in BOOLEAN
  PROVE  /\ row.status = "ABSENT" => Standing(row) = "none"
         /\ row.status \in {"QUEUED", "RUNNING"} => Standing(row) = "open"
         /\ row.status = "PAUSED" => Standing(row) = "paused"
         /\ row.status = "CANCEL_REQUESTED" => Standing(row) = "cancelling"
         /\ row.status = "FAILED" => Standing(row) = IF row.dead THEN "dead" ELSE "open"
         /\ row.status = "SUCCEEDED" => Standing(row) = "done"
         /\ row.status \in {"CANCELLED", "EXPIRED"} => Standing(row) = "closed"
BY DEF Standing

\* A status that a transaction may give a row without an effect.
Follows(row, s) ==
    \/ s = row.status /\ s \in {"RUNNING", "CANCEL_REQUESTED"}
    \/ s \in {"CANCELLED", "EXPIRED"} /\ row.status \in Active
    \/ s = "CANCEL_REQUESTED" /\ row.status = "RUNNING"
    \/ s \in {"PAUSED", "FAILED"} /\ row.status \in {"QUEUED", "RUNNING", "FAILED"} /\ ~row.dead
    \/ s = "QUEUED" /\ row.status \in {"PAUSED", "FAILED"}
    \/ s = "RUNNING" /\ row.status \in {"QUEUED", "FAILED"} /\ ~row.dead

\* Such a status lets the job stay where it stands or move quietly.
LEMMA FollowsIsQuiet ==
  ASSUME NEW row \in Row, NEW next \in Row, Follows(row, next.status)
  PROVE  Quiet(Standing(row), Standing(next))
<1> DEFINE a == Standing(row)
           b == Standing(next)
<1>1. /\ row.status \in Statuses /\ row.dead \in BOOLEAN
      /\ next.status \in Statuses /\ next.dead \in BOOLEAN
  BY DEF Row
<1>2. /\ row.status \in {"QUEUED", "RUNNING"} => a = "open"
      /\ row.status = "PAUSED" => a = "paused"
      /\ row.status = "CANCEL_REQUESTED" => a = "cancelling"
      /\ row.status = "FAILED" => a = IF row.dead THEN "dead" ELSE "open"
  BY <1>1, StandingFacts
<1>3. /\ next.status \in {"QUEUED", "RUNNING"} => b = "open"
      /\ next.status = "PAUSED" => b = "paused"
      /\ next.status = "CANCEL_REQUESTED" => b = "cancelling"
      /\ next.status = "FAILED" => b = IF next.dead THEN "dead" ELSE "open"
      /\ next.status \in {"CANCELLED", "EXPIRED"} => b = "closed"
  BY <1>1, StandingFacts
<1> HIDE DEF a, b
<1>4. /\ \A c : Quiet(c, c)
      /\ Quiet("open", "paused") /\ Quiet("paused", "open")
      /\ Quiet("open", "cancelling") /\ Quiet("dead", "open") /\ Quiet("open", "dead")
      /\ Quiet("open", "closed") /\ Quiet("paused", "closed")
      /\ Quiet("cancelling", "closed") /\ Quiet("dead", "closed")
  BY QuietFacts
<1>5. Quiet(a, b)
  BY <1>2, <1>3, <1>4 DEF Follows, Active
<1> QED
  BY <1>5 DEF a, b

\* A transaction that writes one row.
LEMMA WriteMoves ==
  ASSUME IInv, IInv', NEW j \in Jobs, NEW data, Write(j, data),
         Follows(jobs[j], data.status), UNCHANGED applied, NEW k \in Jobs
  PROVE  Moved(k)
<1>1. /\ jobs \in [Jobs -> Row] /\ jobs'[j] = Saved(jobs[j], data)
      /\ jobs[j] \in Row /\ jobs'[j] \in Row
      /\ k # j => jobs'[k] = jobs[k]
  BY DEF IInv, TypeOK, Write
<1>2. jobs'[j].status = data.status
  BY <1>1, WriteIsNewer
<1>3. Quiet(Standing(jobs[j]), Standing(jobs'[j]))
  BY <1>1, <1>2, FollowsIsQuiet
<1>4. CASE k = j
  BY <1>3, <1>4 DEF Moved
<1>5. CASE k # j
  BY <1>1, <1>5, QuietFacts DEF Moved
<1> QED
  BY <1>4, <1>5

\* A pending control is settled by CANCELLED or PAUSED, either of which follows.
LEMMA SettledFollows ==
  ASSUME IInv, NEW j \in Jobs, ControlPending(jobs[j])
  PROVE  Follows(jobs[j], SettledControl(jobs[j]).status)
<1> DEFINE row == jobs[j]
<1>1. row \in Row /\ RowInv(j, row, failures[j], applied[j])
  BY DEF IInv, TypeOK, RowsInv
<1>2. Released(row) \in Row
  BY <1>1, ReleasedRow
<1>3. CASE row.status = "CANCEL_REQUESTED"
  <2>1. SettledControl(row).status = "CANCELLED"
    BY <1>2, <1>3 DEF SettledControl, Row
  <2> QED
    BY <1>3, <2>1 DEF Follows, Active
<1>4. CASE row.status = "RUNNING" /\ ~row.dead
  <2>1. SettledControl(row).status = "PAUSED"
    BY <1>2, <1>4 DEF SettledControl, Row
  <2> QED
    BY <1>4, <2>1 DEF Follows
<1> QED
  BY <1>1, <1>3, <1>4 DEF ControlPending, RowInv

\* A failed attempt leaves a job that is tried again or a dead letter.
LEMMA FailedFollows ==
  ASSUME IInv, NEW j \in Jobs, NEW retry, jobs[j].status = "RUNNING"
  PROVE  Follows(jobs[j], Failed(j, jobs[j], retry).status)
<1>1. jobs[j] \in Row /\ ~jobs[j].dead
  BY DEF IInv, TypeOK, RowsInv, RowInv
<1>2. Released(jobs[j]) \in Row
  BY <1>1, ReleasedRow
<1>3. Failed(j, jobs[j], retry).status = "FAILED"
  BY <1>2 DEF Failed, Row
<1> QED
  BY <1>1, <1>3 DEF Follows

\* Whatever rule settles a row in a recovery batch, its new status follows.
LEMMA RecoveredFollows ==
  ASSUME IInv, NEW j \in Jobs, Recoverable(j)
  PROVE  Follows(jobs[j], Recovered(j).status)
<1> DEFINE row == jobs[j]
<1>1. row \in Row /\ row.status \in Active /\ now \in Nat
  BY DEF IInv, TypeOK, Recoverable
<1>2. CASE ControlPending(row)
  BY <1>2, SettledFollows DEF Recovered
<1>3. CASE ~ControlPending(row) /\ LeaseFailure(j)
  <2>1. ~(ExpiresAt[j] <= now)
    BY <1>1, <1>3, ConstantsAssumption DEF LeaseFailure
  <2>2. row.status = "RUNNING"
    BY <1>3, <2>1 DEF Recoverable, Leased, ControlPending
  <2> QED
    BY <1>3, <2>2, FailedFollows DEF Recovered
<1>4. CASE ~ControlPending(row) /\ ~LeaseFailure(j)
  <2>1. Recovered(j) = Expired(row)
    BY <1>4 DEF Recovered
  <2>2. Released(row) \in Row
    BY <1>1, ReleasedRow
  <2>3. Expired(row).status = "EXPIRED"
    BY <2>2 DEF Expired, Row
  <2> QED
    BY <1>1, <2>1, <2>3 DEF Follows
<1> QED
  BY <1>2, <1>3, <1>4

\* Submitting, reading or controlling a job moves it at most once, without its effect.
LEMMA RequesterMoves ==
  ASSUME IInv, IInv', NEW j \in Jobs, Requester(j), NEW k \in Jobs
  PROVE  Moved(k)
<1> DEFINE row == jobs[j]
<1>1. /\ row \in Row /\ row.dead \in BOOLEAN /\ Released(row) \in Row
      /\ jobs \in [Jobs -> Row] /\ jobs' \in [Jobs -> Row]
      /\ RowInv(j, row, failures[j], applied[j])
  <2>1. row \in Row /\ jobs \in [Jobs -> Row] /\ jobs' \in [Jobs -> Row]
    BY DEF IInv, TypeOK
  <2> QED
    BY <2>1, ReleasedRow DEF Row, IInv, RowsInv
<1>2. UNCHANGED applied
  BY DEF Requester, Enqueue, ReadJob, Cancel, Pause, Resume, Replay, Control
<1>3. CASE Enqueue(j)
  <2>1. /\ row.status = "ABSENT" /\ jobs'[j].status = "QUEUED"
        /\ k # j => jobs'[k] = jobs[k]
    BY <1>1, <1>3 DEF Enqueue, NoRow
  <2>2. Standing(row) = "none" /\ Standing(jobs'[j]) = "open"
    BY <1>1, <2>1 DEF Standing
  <2>3. CASE k = j
    BY <1>2, <2>2, <2>3, QuietFacts DEF Moved
  <2>4. CASE k # j
    BY <1>2, <2>1, <2>4, QuietFacts DEF Moved
  <2> QED BY <2>3, <2>4
<1>4. CASE ReadJob(j)
  BY <1>2, <1>4, QuietFacts DEF ReadJob, Moved
<1>5. CASE Cancel(j)
  <2>1. PICK data : Write(j, data) /\ data = IF row.status \in Leased
            THEN [row EXCEPT !.status = "CANCEL_REQUESTED", !.pause = FALSE]
            ELSE [Released(row) EXCEPT !.status = "CANCELLED", !.retryable = FALSE, !.dead = FALSE]
    BY <1>5 DEF Cancel, Control
  <2>2. data.status = IF row.status \in Leased THEN "CANCEL_REQUESTED" ELSE "CANCELLED"
    BY <1>1, <2>1 DEF Row
  <2>3. row.status \in Active
    BY <1>5 DEF Cancel
  <2>4. Follows(row, data.status)
    BY <2>2, <2>3 DEF Follows, Leased
  <2> QED
    BY <1>2, <2>1, <2>4, WriteMoves
<1>6. CASE Pause(j)
  <2>1. PICK data : Write(j, data) /\ data = IF row.status = "RUNNING"
            THEN [row EXCEPT !.pause = TRUE]
            ELSE [Released(row) EXCEPT !.status = "PAUSED", !.retryable = FALSE]
    BY <1>6 DEF Pause, Control
  <2>2. data.status = IF row.status = "RUNNING" THEN "RUNNING" ELSE "PAUSED"
    BY <1>1, <2>1 DEF Row
  <2>3. row.status \in {"QUEUED", "RUNNING", "FAILED"} /\ ~row.dead
    BY <1>6 DEF Pause
  <2>4. Follows(row, data.status)
    BY <2>2, <2>3 DEF Follows
  <2> QED
    BY <1>2, <2>1, <2>4, WriteMoves
<1>7. CASE Resume(j) \/ Replay(j)
  <2>1. PICK data : Write(j, data) /\
            \/ data = [Released(row) EXCEPT !.status = "QUEUED", !.nextAt = now,
                           !.retryable = FALSE]
            \/ data = [Released(row) EXCEPT !.status = "QUEUED", !.nextAt = now,
                           !.attempt = 0, !.retryable = FALSE, !.dead = FALSE]
    BY <1>7 DEF Resume, Replay, Control
  <2>2. data.status = "QUEUED"
    BY <1>1, <2>1 DEF Row
  <2>3. Follows(row, data.status)
    BY <1>7, <2>2 DEF Follows, Resume, Replay
  <2> QED
    BY <1>2, <2>1, <2>3, WriteMoves
<1> QED
  BY <1>3, <1>4, <1>5, <1>6, <1>7 DEF Requester

\* One recovery transaction may move several jobs, each by a step of its own.
LEMMA RecoverMoves ==
  ASSUME IInv, IInv', NEW w \in Workers, Recover(w), NEW k \in Jobs
  PROVE  Moved(k)
<1>1. /\ UNCHANGED applied
      /\ jobs'[k] = jobs[k] \/ (Recoverable(k) /\ jobs'[k] = Saved(jobs[k], Recovered(k)))
  BY DEF Recover
<1>2. jobs[k] \in Row /\ jobs'[k] \in Row
  BY DEF IInv, TypeOK
<1>3. CASE jobs'[k] = jobs[k]
  BY <1>1, <1>3, QuietFacts DEF Moved
<1>4. CASE Recoverable(k) /\ jobs'[k] = Saved(jobs[k], Recovered(k))
  <2>1. Follows(jobs[k], Recovered(k).status)
    BY <1>4, RecoveredFollows
  <2>2. jobs'[k].status = Recovered(k).status
    BY <1>4, WriteIsNewer
  <2>3. Quiet(Standing(jobs[k]), Standing(jobs'[k]))
    BY <1>2, <2>1, <2>2, FollowsIsQuiet
  <2> QED
    BY <1>1, <2>3 DEF Moved
<1> QED
  BY <1>1, <1>3, <1>4

\* A claim leaves the job open or, if its scope is gone, makes it a dead letter.
LEMMA ClaimMoves ==
  ASSUME IInv, IInv', NEW w \in Workers, NEW j \in Jobs, Claim(w, j) \/ ClaimRevoked(w, j),
         NEW k \in Jobs
  PROVE  Moved(k)
<1> DEFINE row == jobs[j]
<1>1. row \in Row /\ Released(row) \in Row
  BY ReleasedRow DEF IInv, TypeOK
<1>2. /\ UNCHANGED applied
      /\ row.status \in {"QUEUED", "FAILED"} /\ ~row.dead
  BY DEF Claim, ClaimRevoked, FirstInLine, Claimable
<1>3. PICK data : Write(j, data) /\
        \/ data = [row EXCEPT !.status = "RUNNING", !.attempt = row.attempt + 1,
                     !.leaseVersion = row.leaseVersion + 1, !.owner = w,
                     !.leaseUntil = LeaseEnd(j), !.nextAt = NoTime, !.retryable = FALSE]
        \/ data = [Released(row) EXCEPT !.status = "FAILED", !.retryable = FALSE, !.dead = TRUE]
  BY DEF Claim, ClaimRevoked
<1>4. data.status \in {"RUNNING", "FAILED"}
  BY <1>1, <1>3 DEF Row
<1>5. Follows(row, data.status)
  BY <1>2, <1>4 DEF Follows
<1> QED
  BY <1>2, <1>3, <1>5, WriteMoves

\* The committed effect completes an open job, and touches no other.
LEMMA EffectMoves ==
  ASSUME IInv, IInv', NEW w \in Workers, EffectDone(w), NEW k \in Jobs
  PROVE  Moved(k)
<1> DEFINE j == worker[w].job
           row == jobs[j]
           data == [Released(row) EXCEPT !.status = "SUCCEEDED", !.retryable = FALSE,
                       !.dead = FALSE]
<1>1. /\ j \in Jobs /\ row.status = "RUNNING"
      /\ Write(j, data)
      /\ applied' = [applied EXCEPT ![j] = applied[j] + 1]
  BY ExecutesJob DEF EffectDone, IInv, LeasesInv, LeaseInv
<1>2. /\ jobs \in [Jobs -> Row] /\ jobs' \in [Jobs -> Row] /\ applied \in [Jobs -> Nat]
      /\ Released(row) \in Row
  BY <1>1, ReleasedRow DEF IInv, TypeOK
<1>3. data.status = "SUCCEEDED"
  BY <1>2 DEF Row
<1> HIDE DEF data
<1>4. /\ jobs'[j] = Saved(row, data)
      /\ \A i \in Jobs : i # j => jobs'[i] = jobs[i] /\ applied'[i] = applied[i]
      /\ applied'[j] = applied[j] + 1
  BY <1>1, <1>2 DEF Write
<1>5. jobs'[j].status = "SUCCEEDED"
  BY <1>1, <1>3, <1>4, WriteIsNewer
<1>6. Standing(row) = "open" /\ Standing(jobs'[j]) = "done"
  BY <1>1, <1>5 DEF Standing
<1>7. PICK i \in Jobs : i = j
  BY <1>1
<1>8. CASE k = i
  BY <1>4, <1>6, <1>7, <1>8 DEF Moved
<1>9. CASE k # i
  BY <1>4, <1>7, <1>9, QuietFacts DEF Moved
<1> QED
  BY <1>8, <1>9

\* No step of an execution moves a job but by a settlement or by its effect.
LEMMA ExecutionMoves ==
  ASSUME IInv, IInv', NEW w \in Workers, Execution(w), NEW k \in Jobs
  PROVE  Moved(k)
<1> DEFINE j == worker[w].job
           row == jobs[j]
<1>1. CASE EffectDone(w)
  BY <1>1, EffectMoves
<1>2. CASE UNCHANGED <<jobs, applied>>
  BY <1>2, QuietFacts DEF Moved
<1>3. CASE ObserveControl(w) \/ Heartbeat(w) \/ FinalRenew(w) \/ SettleFailure(w)
  <2>1. /\ j \in Jobs /\ row \in Row /\ HoldsLease(w) /\ UNCHANGED applied
    <3>1. worker[w].phase \notin {"poll", "stopped"}
      BY <1>3 DEF ObserveControl, Heartbeat, FinalRenew, SettleFailure, Reaches, Executing
    <3>2. j \in Jobs
      BY <3>1, ExecutesJob
    <3> QED
      BY <1>3, <3>2 DEF ObserveControl, Heartbeat, FinalRenew, SettleFailure, Proceeds, IInv, TypeOK
  <2>2. row.status \in Leased
    BY <2>1 DEF HoldsLease
  <2>3. CASE ObserveControl(w)
    BY <2>1, <2>3, SettledFollows, WriteMoves DEF ObserveControl
  <2>4. CASE Heartbeat(w) \/ FinalRenew(w)
    <3>1. PICK data : Write(j, data) /\ data = [row EXCEPT !.leaseUntil = LeaseEnd(j)]
      BY <2>4 DEF Heartbeat, FinalRenew, Renewed
    <3>2. Follows(row, data.status)
      BY <2>1, <2>2, <3>1 DEF Follows, Row, Leased
    <3> QED
      BY <2>1, <3>1, <3>2, WriteMoves
  <2>5. CASE SettleFailure(w)
    <3>1. row.status = "RUNNING" /\ Write(j, Failed(j, row, worker[w].retry))
      BY <2>2, <2>5 DEF SettleFailure, ControlPending, Leased
    <3> QED
      BY <2>1, <3>1, FailedFollows, WriteMoves
  <2> QED
    BY <1>3, <2>3, <2>4, <2>5
<1> QED
  BY <1>1, <1>2, <1>3 DEF Execution, LoseLease, ObserveRevoked, Prepared, CommitBegin,
     EffectTooLate, HandlerFails

\* In every step of the queue each job makes one move of JobPromise or none.
LEMMA NextMoves ==
  ASSUME IInv, IInv', Next, NEW k \in Jobs
  PROVE  Moved(k)
<1>1. CASE UNCHANGED <<jobs, applied>>
  BY <1>1, QuietFacts DEF Moved
<1>2. \/ UNCHANGED <<jobs, applied>>
      \/ \E j \in Jobs : Requester(j)
      \/ \E w \in Workers : Recover(w) \/ Execution(w)
      \/ \E w \in Workers, j \in Jobs : Claim(w, j) \/ ClaimRevoked(w, j)
  BY DEF Next, Tick, RevokeScope, RestoreScope, Process, Stop, Crash, Restart
<1> QED
  BY <1>1, <1>2, RequesterMoves, RecoverMoves, ExecutionMoves, ClaimMoves

\* So every step of the queue is a step of JobPromise or a stutter.
LEMMA PromiseNext == IInv /\ IInv' /\ [Next]_vars => [Promise!Next]_(Promise!vars)
<1>1. CASE UNCHANGED vars
  BY <1>1 DEF vars, Promise!vars
<1>2. ASSUME IInv, IInv', Next PROVE Promise!Next
  <2> SUFFICES ASSUME NEW j \in Jobs PROVE Promise!Step(j)
    BY DEF Promise!Next
  <2>1. applied[j] \in Nat /\ Moved(j)
    BY <1>2, NextMoves DEF IInv, TypeOK
  <2>2. <<"open", "done">> \in Promise!Moves /\ <<"open", "done">> \in Promise!Complete
    BY DEF Promise!Moves, Promise!Complete
  <2>3. CASE applied'[j] = applied[j] /\ Quiet(Standing(jobs[j]), Standing(jobs[j])')
    BY <2>1, <2>3 DEF Promise!Step, Quiet, Promise!Complete
  <2>4. CASE /\ applied'[j] = applied[j] + 1
             /\ Standing(jobs[j]) = "open" /\ Standing(jobs[j])' = "done"
    BY <2>1, <2>2, <2>4 DEF Promise!Step
  <2> QED
    BY <2>1, <2>3, <2>4 DEF Moved
<1> QED
  BY <1>1, <1>2

\* The queue implements JobPromise: seen without workers, leases, attempts and time, a job
\* is submitted once, takes effect at most once and only when it is open, and moves only
\* as its requester asks, by giving up or by ending.
THEOREM Implementation == Spec => KeepsPromise
<1>1. Init => Promise!Init
  BY DEF Init, Promise!Init, Standing, NoRow
<1> QED
  BY <1>1, PromiseNext, Invariance, PTL DEF Spec, KeepsPromise, Promise!Spec
=============================================================================
