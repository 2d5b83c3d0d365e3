----------------------------- MODULE DataExport -----------------------------
(***************************************************************************)
(* The copies of an EXPORT job: packages/db/src/data-export-*.ts, the      *)
(* files of packages/storage/src/data-export-*.ts, the handler and the     *)
(* maintenance sweep of scripts/workers/data-export-*.ts, and the download *)
(* of apps/web/lib/system/data-export-runtime-service.ts.                  *)
(*                                                                         *)
(* Every claim of the job is a generation with an artifact, a random key   *)
(* and files of its own.  A writer that lost its lease goes on writing     *)
(* until it notices, perhaps after its generation was reclaimed.  The same *)
(* worker processes sweep artifacts between two jobs, and a web request    *)
(* downloads.  A transaction that holds a lock across a decision is two    *)
(* actions: a heartbeat, the commit that publishes, the first transaction  *)
(* of a reclaim, the issue of a grant.  Of the queue (module DataJobQueue) *)
(* this module keeps what export looks at: status, lease version, whether  *)
(* the lease and the job have run out.                                     *)
(***************************************************************************)
EXTENDS Integers, FiniteSets

CONSTANTS
    Workers,      \* worker processes
    Downloads,    \* download requests
    Grants,       \* download grants
    None,
    MaxGen,       \* bound: claims of the job
    Stuck,        \* keys whose files cannot be removed
    ListLimit,    \* candidates of one sweep (20)
    RotationSize, \* reclaimed artifacts a sweep looks at again (5)
    MaxFaults     \* bound: crashes and failed removals

Gens == 1..MaxGen

ASSUME ConstantsAssumption ==
    /\ None \notin Downloads \cup Grants
    /\ MaxGen \in Nat \ {0}
    /\ Stuck \subseteq Gens
    /\ ListLimit \in Nat \ {0}
    /\ RotationSize \in Nat \ {0}
    /\ MaxFaults \in Nat

VARIABLES
    job,       \* the row of the export job
    expired,   \* expiresAt of job, artifacts and package has passed
    artifact,  \* artifact[g]: state of the artifact of generation g
    age,       \* age[g]: place in the order of updatedAt, 1 is the oldest
    files,     \* files[g]: what is on disk under the key of g
    worker,    \* worker[w]: what the process is doing
    grant,     \* grant[r]: a row of DataExportDownloadGrant
    download,  \* download[d]: a download request
    streams,   \* streams[r]: downloads started with grant r
    faults

vars == <<job, expired, artifact, age, files, worker, grant, download, streams, faults>>

-----------------------------------------------------------------------------
(* Rows, files, processes                                                  *)

Leased == {"RUNNING", "CANCEL_REQUESTED"}

Job == [status: {"QUEUED", "SUCCEEDED", "ENDED"} \cup Leased,
        version: 0..MaxGen, live: BOOLEAN]

ArtifactStates == {"NONE", "STAGING", "PUBLISHED", "RECLAIMING", "RECLAIMED"}

\* .zip.part; .central and .manifest, which live and die together; .zip
Suffixes == {"part", "spool", "zip"}

\* In the order in which removeRegisteredExportFiles takes them.
SuffixAt == <<"part", "spool", "zip">>

Writing == {"begin", "create", "spool", "write", "linked", "unlinked", "renew", "commit"}

\* poll: between two jobs; sweep, marking, remove: createDataExportMaintenance;
\* publishing: in the commit transaction; settle: about to report a failure.
Phases == Writing \cup {"poll", "sweep", "marking", "remove", "publishing", "settle"}

\* beat: a heartbeat transaction is under way; todo, key, step: the sweep;
\* after: its rotation cursor.
WorkerState == [phase: Phases, gen: 0..MaxGen, beat: BOOLEAN,
                todo: SUBSET Gens, key: 0..MaxGen, step: 1..4, after: 0..MaxGen]

Idle == [phase |-> "poll", gen |-> 0, beat |-> FALSE, todo |-> {}, key |-> 0,
         step |-> 1, after |-> 0]

\* replaces: the grants an issue in progress has revoked; reservation: the
\* request that holds reservationId; reserved: it has not run out; fresh: the
\* grant has not run out.
Grant == [state: {"none", "issuing", "open", "consumed", "revoked"},
          replaces: SUBSET Grants, reservation: Downloads \cup {None},
          reserved: BOOLEAN, fresh: BOOLEAN]

NoGrant == [state |-> "none", replaces |-> {}, reservation |-> None,
            reserved |-> FALSE, fresh |-> TRUE]

Download == [phase: {"idle", "reserved", "opened", "done"}, grant: Grants \cup {None}]

Goto(w, p) == worker' = [worker EXCEPT ![w].phase = p]

\* Back to the loop; the process keeps its rotation cursor.
Poll(w) == worker' = [worker EXCEPT ![w] = [Idle EXCEPT !.after = worker[w].after]]

\* updatedAt of the artifact of g becomes the latest.
Touched(g) ==
    [h \in Gens |-> IF h = g THEN MaxGen
                    ELSE IF age[h] > age[g] THEN age[h] - 1 ELSE age[h]]

-----------------------------------------------------------------------------
(* Locks and leases                                                        *)

JobLocked == \E w \in Workers : worker[w].beat \/ worker[w].phase = "publishing"

\* FOR UPDATE on the artifact of g: a commit that publishes, a reclaim that decides.
LockedExclusively(g) ==
    \E w \in Workers : \/ worker[w].phase = "publishing" /\ worker[w].gen = g
                       \/ worker[w].phase = "marking" /\ worker[w].key = g

\* Seeded bug: issuing a grant locks nothing.
LockedSharedByNobody(g) == FALSE

\* FOR SHARE on the artifact of the package: a grant being issued.
LockedShared(g) ==
    g = job.version /\ \E r \in Grants : grant[r].state = "issuing"

\* leaseExpiresAt > now; a lease never outlives the job.
Live == job.live /\ ~expired

\* assertQueueLease
HoldsLease(g) == job.status \in Leased /\ job.version = g /\ Live

Released(status) == [job EXCEPT !.status = status, !.live = FALSE]

-----------------------------------------------------------------------------
Init ==
    /\ job = [status |-> "QUEUED", version |-> 0, live |-> FALSE]
    /\ expired = FALSE
    /\ artifact = [g \in Gens |-> "NONE"]
    /\ age = [g \in Gens |-> g]
    /\ files = [g \in Gens |-> {}]
    /\ worker = [w \in Workers |-> Idle]
    /\ grant = [r \in Grants |-> NoGrant]
    /\ download = [d \in Downloads |-> [phase |-> "idle", grant |-> None]]
    /\ streams = [r \in Grants |-> 0]
    /\ faults = 0

-----------------------------------------------------------------------------
(* The job, as the queue moves it                                          *)

Expire ==
    /\ ~expired
    /\ expired' = TRUE
    /\ UNCHANGED <<job, artifact, age, files, worker, grant, download, streams, faults>>

LeaseRunsOut ==
    /\ job.status \in Leased
    /\ job.live
    /\ job' = [job EXCEPT !.live = FALSE]
    /\ UNCHANGED <<expired, artifact, age, files, worker, grant, download, streams, faults>>

\* The requester cancels: at once, or by asking the worker.
Cancel ==
    /\ job.status \in {"QUEUED", "RUNNING"}
    /\ ~expired
    /\ ~JobLocked
    /\ job' = IF job.status = "RUNNING" THEN [job EXCEPT !.status = "CANCEL_REQUESTED"]
              ELSE Released("ENDED")
    /\ UNCHANGED <<expired, artifact, age, files, worker, grant, download, streams, faults>>

\* recoverQueuedDataJobs; the last attempt ends in a dead letter.
Recover ==
    /\ job.status \in Leased
    /\ ~Live
    /\ ~JobLocked
    /\ \E status \in {"QUEUED", "ENDED"} :
        /\ status = "ENDED" \/ (job.status = "RUNNING" /\ ~expired)
        /\ job' = Released(status)
    /\ UNCHANGED <<expired, artifact, age, files, worker, grant, download, streams, faults>>

\* Seeded bug: the lease is built from the updated row and counted up again.
ClaimCountsTwice(w) ==
    /\ worker[w].phase = "poll"
    /\ job.status = "QUEUED"
    /\ ~expired
    /\ job.version < MaxGen
    /\ job' = [status |-> "RUNNING", version |-> job.version + 1, live |-> TRUE]
    /\ worker' = [worker EXCEPT ![w].phase = "begin", ![w].gen = job.version + 2]
    /\ UNCHANGED <<expired, artifact, age, files, grant, download, streams, faults>>

\* claimQueuedDataJob: the process remembers the version the row has now.
Claim(w) ==
    /\ worker[w].phase = "poll"
    /\ job.status = "QUEUED"
    /\ ~expired
    /\ job.version < MaxGen
    /\ job' = [status |-> "RUNNING", version |-> job.version + 1, live |-> TRUE]
    /\ worker' = [worker EXCEPT ![w].phase = "begin", ![w].gen = job.version + 1]
    /\ UNCHANGED <<expired, artifact, age, files, grant, download, streams, faults>>

-----------------------------------------------------------------------------
(* The writer: createDataExportHandler                                     *)

\* beginDataExportArtifact: the intent is in the database before any file is.
Begin(w) ==
    LET g == worker[w].gen IN
    /\ worker[w].phase = "begin"
    /\ ~JobLocked
    /\ HoldsLease(g)
    /\ job.status = "RUNNING"
    /\ artifact' = [artifact EXCEPT ![g] = "STAGING"]
    /\ age' = Touched(g)
    /\ Goto(w, "create")
    /\ UNCHANGED <<job, expired, files, grant, download, streams, faults>>

\* A step of the writer on the file system.
WriteFile(w, from, to, content) ==
    /\ worker[w].phase = from
    /\ files' = [files EXCEPT ![worker[w].gen] = content]
    /\ Goto(w, to)
    /\ UNCHANGED <<job, expired, artifact, age, grant, download, streams, faults>>

\* createPrivateExportWriter: three files, created exclusively.
CreatePart(w) == WriteFile(w, "create", "spool", files[worker[w].gen] \cup {"part"})
CreateSpool(w) == WriteFile(w, "spool", "write", files[worker[w].gen] \cup {"spool"})

\* writer.finish and publishExportFile up to the link: the spool is opened
\* again by name, and the staging file must still have its name.
LinkArchive(w) ==
    /\ WriteFile(w, "write", "linked", files[worker[w].gen] \cup {"zip"})
    /\ {"part", "spool"} \subseteq files[worker[w].gen]

UnlinkStaging(w) ==
    /\ WriteFile(w, "linked", "unlinked", files[worker[w].gen] \ {"part"})
    /\ "part" \in files[worker[w].gen]

\* removeRegisteredExportFiles of the spool: what is missing already is no error.
DropSpool(w) == WriteFile(w, "unlinked", "renew", files[worker[w].gen] \ {"spool"})

\* The last heartbeats: of the handler, then of beforeCommit.
FinalRenew(w) ==
    /\ worker[w].phase = "renew"
    /\ ~JobLocked
    /\ HoldsLease(worker[w].gen)
    /\ job.status = "RUNNING"
    /\ job' = [job EXCEPT !.live = TRUE]
    /\ Goto(w, "commit")
    /\ UNCHANGED <<expired, artifact, age, files, grant, download, streams, faults>>

\* A heartbeat of the timer while the handler prepares: it finds the lease valid ...
BeatBegin(w) ==
    /\ worker[w].phase \in Writing \ {"commit"}
    /\ ~JobLocked
    /\ HoldsLease(worker[w].gen)
    /\ worker' = [worker EXCEPT ![w].beat = TRUE]
    /\ UNCHANGED <<job, expired, artifact, age, files, grant, download, streams, faults>>

\* ... and extends it, or settles a cancellation, perhaps after it ran out.
BeatEnd(w) ==
    /\ worker[w].beat
    /\ worker' = [worker EXCEPT ![w].beat = FALSE]
    /\ job' = IF job.status = "CANCEL_REQUESTED" THEN Released("ENDED")
              ELSE [job EXCEPT !.live = TRUE]
    /\ UNCHANGED <<expired, artifact, age, files, grant, download, streams, faults>>

\* Seeded bug: a package is published although its artifact was given up.
PublishableAnyState(g) == artifact[g] # "PUBLISHED" /\ ~LockedExclusively(g)

\* publishDataExportPackage: FOR UPDATE NOWAIT, then the binding.
Publishable(g) == artifact[g] = "STAGING" /\ ~LockedExclusively(g)

PublishBegin(w) ==
    /\ worker[w].phase = "commit"
    /\ ~JobLocked
    /\ HoldsLease(worker[w].gen)
    /\ job.status = "RUNNING"
    /\ Publishable(worker[w].gen)
    /\ Goto(w, "publishing")
    /\ UNCHANGED <<job, expired, artifact, age, files, grant, download, streams, faults>>

\* Package, artifact and job in one commit.
Publish(w) ==
    LET g == worker[w].gen IN
    /\ worker[w].phase = "publishing"
    /\ HoldsLease(g)
    /\ artifact' = [artifact EXCEPT ![g] = "PUBLISHED"]
    /\ age' = Touched(g)
    /\ job' = Released("SUCCEEDED")
    /\ Poll(w)
    /\ UNCHANGED <<expired, files, grant, download, streams, faults>>

\* Anything throws, or the signal was aborted: handles are closed, files stay,
\* an open transaction rolls back.
WriterFails(w) ==
    /\ worker[w].phase \in Writing \cup {"publishing"}
    /\ ~worker[w].beat
    /\ Goto(w, "settle")
    /\ UNCHANGED <<job, expired, artifact, age, files, grant, download, streams, faults>>

\* failQueuedDataJob, or nothing when the lease is lost.
Settle(w) ==
    /\ worker[w].phase = "settle"
    /\ ~JobLocked
    /\ \/ ~HoldsLease(worker[w].gen) /\ UNCHANGED job
       \/ /\ HoldsLease(worker[w].gen)
          /\ \E status \in {"QUEUED", "ENDED"} :
                /\ status = "ENDED" \/ job.status = "RUNNING"
                /\ job' = Released(status)
    /\ Poll(w)
    /\ UNCHANGED <<expired, artifact, age, files, grant, download, streams, faults>>

-----------------------------------------------------------------------------
(* The sweep: createDataExportMaintenance                                  *)

\* No live lease stands behind the artifact.
Abandoned(g) == ~(job.version = g /\ job.status \in Leased /\ Live)

\* listReclaimableDataExports and the decision of beginDataExportReclaim.
Reclaimable(g) ==
    \/ artifact[g] = "RECLAIMING"
    \/ artifact[g] \in {"STAGING", "PUBLISHED"} /\ expired
    \/ artifact[g] = "STAGING" /\ Abandoned(g)

\* The ListLimit artifacts that nobody touched for longest.
Candidates ==
    {g \in Gens : Reclaimable(g)
        /\ Cardinality({h \in Gens : Reclaimable(h) /\ age[h] < age[g]}) < ListLimit}

\* Seeded bug: what is reclaimed is never looked at again.
RotationOff(after) == {}

\* listReclaimedDataExports
Rotation(after) ==
    {g \in Gens : artifact[g] = "RECLAIMED" /\ g > after
        /\ Cardinality({h \in Gens : artifact[h] = "RECLAIMED" /\ after < h /\ h < g})
            < RotationSize}

Last(S) == CHOOSE g \in S : \A h \in S : h <= g

\* The sweep takes its batch; it works through it in any order.
Sweep(w) ==
    LET previous == Rotation(worker[w].after) IN
    /\ worker[w].phase = "poll"
    /\ worker' = [worker EXCEPT ![w].phase = "sweep",
                    ![w].todo = Candidates \cup previous,
                    ![w].after = IF Cardinality(previous) = RotationSize
                                 THEN Last(previous) ELSE 0]
    /\ UNCHANGED <<job, expired, artifact, age, files, grant, download, streams, faults>>

\* beginDataExportReclaim: FOR UPDATE SKIP LOCKED; the job is read unlocked.
Consider(w) ==
    \E g \in worker[w].todo :
        LET free == ~LockedExclusively(g) /\ ~LockedShared(g)
            go(p) == [worker[w] EXCEPT !.todo = @ \ {g}, !.phase = p, !.key = g, !.step = 1]
        IN
        /\ worker[w].phase = "sweep"
        /\ worker' = [worker EXCEPT ![w] =
                        IF free /\ artifact[g] = "RECLAIMED" THEN go("remove")
                        ELSE IF free /\ Reclaimable(g) THEN go("marking")
                        ELSE [worker[w] EXCEPT !.todo = @ \ {g}]]
        /\ UNCHANGED <<job, expired, artifact, age, files, grant, download, streams, faults>>

SweepDone(w) ==
    /\ worker[w].phase = "sweep"
    /\ worker[w].todo = {}
    /\ Poll(w)
    /\ UNCHANGED <<job, expired, artifact, age, files, grant, download, streams, faults>>

\* updateMany over unconsumed grants: they are revoked and lose their reservation.
GrantsRevoked(S) ==
    [r \in Grants |->
        IF r \in S /\ grant[r].state = "open"
        THEN [grant[r] EXCEPT !.state = "revoked", !.reservation = None, !.reserved = FALSE]
        ELSE grant[r]]

\* ... and its commit.  Only the package of the last generation has grants.
MarkReclaiming(w) ==
    LET g == worker[w].key IN
    /\ worker[w].phase = "marking"
    /\ artifact' = [artifact EXCEPT ![g] = "RECLAIMING"]
    /\ age' = Touched(g)
    /\ grant' = IF g = job.version THEN GrantsRevoked(Grants) ELSE grant
    /\ Goto(w, "remove")
    /\ UNCHANGED <<job, expired, files, download, streams, faults>>

\* removeRegisteredExportFiles, one name after the other.
RemoveFile(w) ==
    LET g == worker[w].key IN
    /\ worker[w].phase = "remove"
    /\ worker[w].step <= 3
    /\ g \notin Stuck
    /\ files' = [files EXCEPT ![g] = @ \ {SuffixAt[worker[w].step]}]
    /\ worker' = [worker EXCEPT ![w].step = @ + 1]
    /\ UNCHANGED <<job, expired, artifact, age, grant, download, streams, faults>>

\* The next of the batch.
NextInSweep(w) == worker' = [worker EXCEPT ![w].phase = "sweep", ![w].key = 0, ![w].step = 1]

\* finishDataExportReclaim.  The order of updatedAt no longer matters.
FinishReclaim(w) ==
    LET g == worker[w].key IN
    /\ worker[w].phase = "remove"
    /\ worker[w].step = 4
    /\ ~LockedExclusively(g)
    /\ artifact' = [artifact EXCEPT ![g] = IF @ = "RECLAIMING" THEN "RECLAIMED" ELSE @]
    /\ NextInSweep(w)
    /\ UNCHANGED <<job, expired, age, files, grant, download, streams, faults>>

\* finishDataExportReclaim with an error code: the attempt counts as a touch.
RemovalFails(w) ==
    LET g == worker[w].key IN
    /\ worker[w].phase = "remove"
    /\ worker[w].step <= 3
    /\ ~LockedExclusively(g)
    /\ \/ g \in Stuck /\ UNCHANGED faults
       \/ g \notin Stuck /\ faults < MaxFaults /\ faults' = faults + 1
    /\ age' = Touched(g)
    /\ NextInSweep(w)
    /\ UNCHANGED <<job, expired, artifact, files, grant, download, streams>>

\* The process dies and is started again: transactions roll back, files stay.
Crash(w) ==
    /\ worker[w] # Idle
    /\ faults < MaxFaults
    /\ faults' = faults + 1
    /\ worker' = [worker EXCEPT ![w] = Idle]
    /\ UNCHANGED <<job, expired, artifact, age, files, grant, download, streams>>

-----------------------------------------------------------------------------
(* Grants and downloads                                                    *)

Package == job.version

\* requirePublishedDataExport without its last lock.
Offered == job.status = "SUCCEEDED" /\ artifact[Package] = "PUBLISHED" /\ ~expired

\* requirePublishedDataExport: the artifact is share-locked until the commit.
RequirePublished == Offered /\ ~LockedExclusively(Package)

\* No issue in progress has updated the row of r.
Settled(r) == \A q \in Grants : grant[q].state = "issuing" => r \notin grant[q].replaces

\* issueDataExportDownloadGrant: older grants are revoked, a new one is created ...
IssueBegin(r) ==
    /\ grant[r].state = "none"
    /\ RequirePublished
    /\ \A q \in Grants : grant[q].state = "open" => Settled(q)
    /\ grant' = [grant EXCEPT ![r].state = "issuing",
                              ![r].replaces = {q \in Grants : grant[q].state = "open"}]
    /\ UNCHANGED <<job, expired, artifact, age, files, worker, download, streams, faults>>

\* ... and committed.
IssueCommit(r) ==
    /\ grant[r].state = "issuing"
    /\ grant' = [GrantsRevoked(grant[r].replaces) EXCEPT ![r] = [NoGrant EXCEPT !.state = "open"]]
    /\ UNCHANGED <<job, expired, artifact, age, files, worker, download, streams, faults>>

\* ... or rolled back.
IssueFails(r) ==
    /\ grant[r].state = "issuing"
    /\ grant' = [grant EXCEPT ![r] = NoGrant]
    /\ UNCHANGED <<job, expired, artifact, age, files, worker, download, streams, faults>>

\* revokeDataExportDownloads
RevokeGrants ==
    /\ \A r \in Grants : grant[r].state = "open" => Settled(r)
    /\ grant' = GrantsRevoked(Grants)
    /\ UNCHANGED <<job, expired, artifact, age, files, worker, download, streams, faults>>

GrantRunsOut(r) ==
    /\ grant[r].fresh
    /\ grant[r].state = "open"
    /\ grant' = [grant EXCEPT ![r].fresh = FALSE, ![r].reserved = FALSE]
    /\ UNCHANGED <<job, expired, artifact, age, files, worker, download, streams, faults>>

ReservationRunsOut(r) ==
    /\ grant[r].reserved
    /\ grant' = [grant EXCEPT ![r].reserved = FALSE]
    /\ UNCHANGED <<job, expired, artifact, age, files, worker, download, streams, faults>>

\* Seeded bug: revocation is not looked at.
RedeemableRevoked(r) == grant[r].state \in {"open", "revoked"} /\ grant[r].fresh

\* consumedAt IS NULL AND revokedAt IS NULL AND expiresAt > now
Redeemable(r) == grant[r].state = "open" /\ grant[r].fresh /\ Settled(r)

\* reserveDataExportDownload
Reserve(d, r) ==
    /\ download[d].phase = "idle"
    /\ RequirePublished
    /\ Redeemable(r)
    /\ ~grant[r].reserved
    /\ grant' = [grant EXCEPT ![r].reservation = d, ![r].reserved = TRUE]
    /\ download' = [download EXCEPT ![d] = [phase |-> "reserved", grant |-> r]]
    /\ UNCHANGED <<job, expired, artifact, age, files, worker, streams, faults>>

\* openVerifiedExportArchive; an open handle survives the removal of the name.
OpenArchive(d) ==
    /\ download[d].phase = "reserved"
    /\ "zip" \in files[Package]
    /\ download' = [download EXCEPT ![d].phase = "opened"]
    /\ UNCHANGED <<job, expired, artifact, age, files, worker, grant, streams, faults>>

\* consumeDataExportDownload, after which the stream is handed out.
Consume(d) ==
    LET r == download[d].grant IN
    /\ download[d].phase = "opened"
    /\ RequirePublished
    /\ Redeemable(r)
    /\ grant[r].reservation = d
    /\ grant[r].reserved
    /\ grant' = [grant EXCEPT ![r].state = "consumed", ![r].reservation = None,
                              ![r].reserved = FALSE]
    /\ download' = [download EXCEPT ![d].phase = "done"]
    /\ streams' = [streams EXCEPT ![r] = @ + 1]
    /\ UNCHANGED <<job, expired, artifact, age, files, worker, faults>>

\* Seeded bug: whoever fails releases the grant.
HoldsReservationOrNot(d) == TRUE

\* reservationId = reserved.reservationId
HoldsReservation(d) == grant[download[d].grant].reservation = d

\* The request fails and releases its reservation, or dies and does not.
DownloadFails(d) ==
    LET r == download[d].grant IN
    /\ download[d].phase \in {"reserved", "opened"}
    /\ download' = [download EXCEPT ![d].phase = "done"]
    /\ \/ UNCHANGED grant
       \/ /\ HoldsReservation(d)
          /\ grant[r].state = "open"
          /\ Settled(r)
          /\ grant' = [grant EXCEPT ![r].reservation = None, ![r].reserved = FALSE]
    /\ UNCHANGED <<job, expired, artifact, age, files, worker, streams, faults>>

-----------------------------------------------------------------------------
Queue == Expire \/ LeaseRunsOut \/ Cancel \/ Recover

Writer(w) ==
    \/ Claim(w) \/ Begin(w) \/ CreatePart(w) \/ CreateSpool(w) \/ LinkArchive(w)
    \/ UnlinkStaging(w) \/ DropSpool(w) \/ FinalRenew(w) \/ BeatBegin(w) \/ BeatEnd(w)
    \/ PublishBegin(w) \/ Publish(w) \/ WriterFails(w) \/ Settle(w) \/ Crash(w)

Maintenance(w) ==
    \/ Consider(w) \/ SweepDone(w) \/ MarkReclaiming(w) \/ RemoveFile(w)
    \/ FinishReclaim(w) \/ RemovalFails(w)

Granting(r) ==
    \/ IssueBegin(r) \/ IssueCommit(r) \/ IssueFails(r)
    \/ GrantRunsOut(r) \/ ReservationRunsOut(r)

Downloading(d) ==
    \/ \E r \in Grants : Reserve(d, r)
    \/ OpenArchive(d) \/ Consume(d) \/ DownloadFails(d)

Next ==
    \/ Queue
    \/ \E w \in Workers : Writer(w) \/ Sweep(w) \/ Maintenance(w)
    \/ RevokeGrants
    \/ \E r \in Grants : Granting(r)
    \/ \E d \in Downloads : Downloading(d)

Spec == Init /\ [][Next]_vars

\* The job expires; the worker loop sweeps before every poll and works through
\* its batch; transactions end; the snapshot's transaction has a timeout at the
\* expiry of the job, after which its writer fails and settles.
Fairness ==
    /\ WF_vars(Expire)
    /\ \A w \in Workers :
        /\ WF_vars(Sweep(w))
        /\ WF_vars(Maintenance(w))
        /\ WF_vars(BeatEnd(w))
        /\ WF_vars(expired /\ WriterFails(w))
        /\ WF_vars(Settle(w))
    /\ \A r \in Grants : WF_vars(IssueCommit(r) \/ IssueFails(r))

FairSpec == Spec /\ Fairness

-----------------------------------------------------------------------------
(* Properties                                                              *)

\* Every variable has its type (the columns of the three tables, the process state).
TypeOK ==
    /\ job \in Job
    /\ expired \in BOOLEAN
    /\ artifact \in [Gens -> ArtifactStates]
    /\ age \in [Gens -> Gens]
    /\ \A g, h \in Gens : age[g] = age[h] => g = h
    /\ files \in [Gens -> SUBSET Suffixes]
    /\ worker \in [Workers -> WorkerState]
    /\ grant \in [Grants -> Grant]
    /\ download \in [Downloads -> Download]
    /\ streams \in [Grants -> Nat]
    /\ faults \in 0..MaxFaults

\* A package that is withdrawn (beginDataExportReclaim revokes its grants) has
\* no grant that could still be redeemed or is about to be, whatever issue was
\* under way when the sweep decided.
NoGrantOutlivesPackage ==
    \A r \in Grants : grant[r].state \in {"issuing", "open"} => artifact[Package] = "PUBLISHED"

\* A reservation that was overtaken neither starts a stream nor ends the
\* reservation of its successor (releaseDataExportDownload, consumeDataExportDownload).
ReservationIsFenced ==
    [][\A d \in Downloads, r \in Grants :
        download'[d] # download[d] /\ download[d].grant = r /\ grant[r].reservation # d
            => grant'[r] = grant[r] /\ streams'[r] = streams[r]]_vars

\* Once its grants are revoked, by the requester or by a newer grant, no
\* download starts with them, even one that has the archive open already.
RevokedStartsNothing ==
    [][\A r \in Grants : grant[r].state = "revoked" => streams'[r] = streams[r]]_vars

Promise == INSTANCE PackagePromise WITH
    stage <- IF job.status # "SUCCEEDED" THEN "none"
             ELSE IF Offered THEN "offered" ELSE "withdrawn",
    copy <- job.version > 0 /\ "zip" \in files[job.version]

\* Export implements PackagePromise: what is offered is on disk, is offered
\* once, by the generation that holds the lease, and grants start one download.
KeepsPromise == Promise!Spec

\* In the end nothing is left of any generation, neither its files nor an
\* unfinished artifact, although writers come late, removals fail and some keys
\* can never be cleaned.
EverythingGoes ==
    \A g \in Gens \ Stuck :
        <>[](artifact[g] \in {"NONE", "RECLAIMED"} /\ files[g] = {})
=============================================================================
