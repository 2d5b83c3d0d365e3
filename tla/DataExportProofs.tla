--------------------------- MODULE DataExportProofs ---------------------------
(***************************************************************************)
(* Theorems about DataExport: its types, that grants do not outlive their  *)
(* package, what an overtaken reservation and a revoked grant can do, and  *)
(* that it implements PackagePromise, for any workers, generations,        *)
(* requests and batches.  All rest on one inductive invariant about the    *)
(* row locks: whoever publishes or reclaims a copy does so alone.          *)
(***************************************************************************)
EXTENDS DataExport, FiniteSetTheorems, WellFoundedInduction, TLAPS

-----------------------------------------------------------------------------
(* The inductive invariant                                                 *)

\* A finished job has a package whose artifact never becomes STAGING again.
JobInv ==
    /\ job.status \in Leased \cup {"SUCCEEDED"} => job.version \in Gens
    /\ job.status = "SUCCEEDED"
        => artifact[job.version] \in {"PUBLISHED", "RECLAIMING", "RECLAIMED"}

\* Nothing exists of a generation that is still to come; what is published is on disk.
ArtifactInv(g) ==
    /\ g > job.version => artifact[g] = "NONE"
    /\ artifact[g] = "PUBLISHED" => "zip" \in files[g]

\* The archive is in place, as far as its writer knows.
Linked == {"linked", "unlinked", "renew", "commit", "publishing"}

Issuing == \E r \in Grants : grant[r].state = "issuing"

\* A writer belongs to a generation that was claimed.  Its archive can only go away by a
\* reclaim, which its commit would notice; and what a reclaim removes was given up.
WorkerInv(w) ==
    LET v == worker[w] IN
    /\ v.phase \in Writing \cup {"publishing", "settle"}
        => v.gen \in Gens /\ v.gen <= job.version
    /\ v.phase \in {"poll", "sweep", "marking", "remove"} => v.gen = 0
    /\ v.phase = "begin" => artifact[v.gen] = "NONE"
    /\ v.phase \in Linked /\ artifact[v.gen] = "STAGING" => "zip" \in files[v.gen]
    /\ v.phase = "publishing" => artifact[v.gen] = "STAGING"
    /\ v.phase = "marking" =>
        /\ v.key \in Gens
        /\ \/ artifact[v.key] \in {"STAGING", "RECLAIMING"}
           \/ artifact[v.key] = "PUBLISHED" /\ expired
        /\ v.key = job.version => ~Issuing
    /\ v.phase = "remove" =>
        /\ v.key \in Gens
        /\ artifact[v.key] \in {"RECLAIMING", "RECLAIMED"}

\* One writer per generation, one transaction per row lock.
AloneInv(u, v) ==
    u # v =>
        /\ worker[u].gen = worker[v].gen => worker[u].gen = 0
        /\ worker[u].phase = "marking" /\ worker[v].phase = "marking"
            => worker[u].key # worker[v].key
        /\ worker[u].phase = "publishing" /\ worker[v].phase = "marking"
            => worker[u].gen # worker[v].key

\* A grant that may start a download belongs to an offered package, and a consumed one
\* has started its only download.
GrantInv(r) ==
    /\ grant[r].state \in {"issuing", "open"}
        => job.status = "SUCCEEDED" /\ artifact[job.version] = "PUBLISHED"
    /\ streams[r] = IF grant[r].state = "consumed" THEN 1 ELSE 0

\* A request that has begun has reserved a grant.
DownloadInv(d) == download[d].phase = "idle" <=> download[d].grant = None

IInv ==
    /\ TypeOK
    /\ JobInv
    /\ \A g \in Gens : ArtifactInv(g)
    /\ \A w \in Workers : WorkerInv(w)
    /\ \A u, v \in Workers : AloneInv(u, v)
    /\ \A r \in Grants : GrantInv(r)
    /\ \A d \in Downloads : DownloadInv(d)

-----------------------------------------------------------------------------
(* Numbers                                                                 *)

\* A set of generations has a last one (the rotation cursor of a sweep).
LEMMA LastIsLast ==
  ASSUME NEW S, S \subseteq Gens, S # {}
  PROVE  Last(S) \in S
<1> DEFINE T == {MaxGen - g : g \in S}
<1>1. MaxGen \in Nat
  BY ConstantsAssumption
<1>2. T \subseteq Nat
  BY <1>1 DEF Gens
<1>3. PICK x \in T : \A y \in T : ~ (<<y, x>> \in OpToRel(<, Nat))
  <2>1. T # {}
    OBVIOUS
  <2> QED
    BY <1>2, <2>1, WFMin, NatLessThanWellFounded
<1>4. \A y \in T : ~(y < x)
  BY <1>2, <1>3 DEF OpToRel
<1>5. PICK g \in S : x = MaxGen - g
  BY <1>3
<1>6. \A h \in S : ~(MaxGen - h < MaxGen - g)
  BY <1>4, <1>5
<1>7. \A h \in S : h <= g
  BY <1>1, <1>6 DEF Gens
<1> QED
  BY <1>7 DEF Last

\* The order of updatedAt stays an order without gaps.
LEMMA TouchedIsOrder ==
  ASSUME TypeOK, NEW g \in Gens
  PROVE  /\ Touched(g) \in [Gens -> Gens]
         /\ \A h, k \in Gens : Touched(g)[h] = Touched(g)[k] => h = k
<1>1. /\ MaxGen \in Nat \ {0} /\ age \in [Gens -> Gens]
      /\ \A h, k \in Gens : age[h] = age[k] => h = k
  BY ConstantsAssumption DEF TypeOK
<1>2. \A h \in Gens : Touched(g)[h] = IF h = g THEN MaxGen
                                      ELSE IF age[h] > age[g] THEN age[h] - 1 ELSE age[h]
  BY DEF Touched
<1>3. ASSUME NEW h \in Gens PROVE Touched(g)[h] \in Gens
  <2>1. age[h] \in 1..MaxGen /\ age[g] \in 1..MaxGen
    BY <1>1 DEF Gens
  <2>2. CASE h # g /\ age[h] > age[g]
    <3>1. age[h] - 1 \in 1..MaxGen
      BY <1>1, <2>1, <2>2
    <3>2. Touched(g)[h] = age[h] - 1
      BY <1>2, <2>2
    <3> QED
      BY <3>1, <3>2 DEF Gens
  <2>3. CASE h = g \/ ~(age[h] > age[g])
    <3>1. Touched(g)[h] \in {MaxGen, age[h]}
      BY <1>2, <2>3
    <3>2. MaxGen \in Gens /\ age[h] \in Gens
      BY <1>1 DEF Gens
    <3> QED
      BY <3>1, <3>2
  <2> QED BY <2>2, <2>3
<1>4. \A h, k \in Gens : h # k => age[h] # age[k]
  BY <1>1
<1>5. ASSUME NEW h \in Gens, NEW k \in Gens, Touched(g)[h] = Touched(g)[k]
      PROVE  h = k
  <2>1. age[h] \in 1..MaxGen /\ age[k] \in 1..MaxGen /\ age[g] \in 1..MaxGen
    BY <1>1 DEF Gens
  <2>2. CASE h = g \/ k = g
    BY <1>1, <1>2, <1>4, <1>5, <2>1, <2>2
  <2>3. CASE h # g /\ k # g
    BY <1>1, <1>2, <1>4, <1>5, <2>1, <2>3
  <2> QED BY <2>2, <2>3
<1> QED
  BY <1>3, <1>5 DEF Touched

-----------------------------------------------------------------------------
(* Families of steps                                                       *)

\* Only the job's row changes, and does not finish.
LEMMA JobKeeps ==
  ASSUME IInv, job' \in Job, job'.version = job.version,
         (job'.status = "SUCCEEDED") <=> (job.status = "SUCCEEDED"),
         job'.status \in Leased => job.status \in Leased,
         expired' \in BOOLEAN, expired => expired',
         UNCHANGED <<artifact, age, files, worker, grant, download, streams, faults>>
  PROVE  IInv'
<1>1. TypeOK'
  BY DEF IInv, TypeOK
<1>2. JobInv'
  BY DEF IInv, JobInv
<1>3. \A g \in Gens : ArtifactInv(g)'
  BY DEF IInv, ArtifactInv
<1>4. \A w \in Workers : WorkerInv(w)'
  BY DEF IInv, WorkerInv, Issuing
<1>5. \A u, v \in Workers : AloneInv(u, v)'
  BY DEF IInv, AloneInv
<1>6. \A r \in Grants : GrantInv(r)'
  BY DEF IInv, GrantInv
<1>7. \A d \in Downloads : DownloadInv(d)'
  BY DEF IInv, DownloadInv
<1> QED
  BY <1>1, <1>2, <1>3, <1>4, <1>5, <1>6, <1>7 DEF IInv

\* A worker moves, perhaps with the job's row or with files that no row relies on.
LEMMA MoveKeeps ==
  ASSUME IInv, NEW w \in Workers, NEW s \in WorkerState, worker' = [worker EXCEPT ![w] = s],
         job' \in Job, job'.version = job.version,
         (job'.status = "SUCCEEDED") <=> (job.status = "SUCCEEDED"),
         job'.status \in Leased => job.status \in Leased,
         files' \in [Gens -> SUBSET Suffixes],
         \A g \in Gens : artifact[g] \in {"STAGING", "PUBLISHED"} /\ "zip" \in files[g]
            => "zip" \in files'[g],
         faults' \in 0..MaxFaults,
         UNCHANGED <<expired, artifact, age, grant, download, streams>>,
         WorkerInv(w)',
         \A u \in Workers : AloneInv(u, w)' /\ AloneInv(w, u)'
  PROVE  IInv'
<1>0. /\ worker \in [Workers -> WorkerState]
      /\ \A u \in Workers : u # w => worker'[u] = worker[u]
  BY DEF IInv, TypeOK
<1>1. TypeOK'
  BY DEF IInv, TypeOK
<1>2. JobInv'
  BY DEF IInv, JobInv
<1>3. \A g \in Gens : ArtifactInv(g)'
  BY DEF IInv, ArtifactInv
<1>4. ASSUME NEW u \in Workers PROVE WorkerInv(u)'
  <2>1. CASE u = w
    BY <2>1
  <2>2. CASE u # w
    <3>1. worker'[u] = worker[u] /\ WorkerInv(u) /\ worker[u].gen = worker[u].gen
      BY <1>0, <2>2 DEF IInv
    <3>2. worker[u].phase \in Linked => worker[u].gen \in Gens
      BY <3>1 DEF WorkerInv, Linked, Writing
    <3> QED
      BY <3>1, <3>2 DEF WorkerInv, Issuing
  <2> QED BY <2>1, <2>2
<1>5. ASSUME NEW u \in Workers, NEW v \in Workers PROVE AloneInv(u, v)'
  <2>1. CASE u = w \/ v = w
    BY <2>1
  <2>2. CASE u # w /\ v # w
    <3>1. worker'[u] = worker[u] /\ worker'[v] = worker[v] /\ AloneInv(u, v)
      BY <1>0, <2>2 DEF IInv
    <3> QED
      BY <3>1 DEF AloneInv
  <2> QED BY <2>1, <2>2
<1>6. \A r \in Grants : GrantInv(r)'
  BY DEF IInv, GrantInv
<1>7. \A d \in Downloads : DownloadInv(d)'
  BY DEF IInv, DownloadInv
<1> QED
  BY <1>1, <1>2, <1>3, <1>4, <1>5, <1>6, <1>7 DEF IInv

\* A worker that takes no new generation and no new lock stays alone.
LEMMA StaysAlone ==
  ASSUME IInv, NEW w \in Workers, NEW s \in WorkerState, worker' = [worker EXCEPT ![w] = s],
         s.gen \in {worker[w].gen, 0},
         s.phase \in {"marking", "publishing"} => s.phase = worker[w].phase /\ s.key = worker[w].key
                                                  /\ s.gen = worker[w].gen
  PROVE  \A u \in Workers : AloneInv(u, w)' /\ AloneInv(w, u)'
<1> SUFFICES ASSUME NEW u \in Workers, u # w PROVE AloneInv(u, w)' /\ AloneInv(w, u)'
  BY DEF AloneInv
<1>1. worker'[w] = s /\ worker'[u] = worker[u]
  BY DEF IInv, TypeOK
<1>2. AloneInv(u, w) /\ AloneInv(w, u)
  BY DEF IInv
<1> QED
  BY <1>1, <1>2 DEF AloneInv

\* A step of grants and downloads.
LEMMA GrantsKeep ==
  ASSUME IInv, grant' \in [Grants -> Grant], download' \in [Downloads -> Download],
         streams' \in [Grants -> Nat],
         UNCHANGED <<job, expired, artifact, age, files, worker, faults>>,
         \A r \in Grants : GrantInv(r)', \A d \in Downloads : DownloadInv(d)',
         Issuing' => Issuing \/ ~LockedExclusively(job.version)
  PROVE  IInv'
<1>1. TypeOK'
  BY DEF IInv, TypeOK
<1>2. JobInv'
  BY DEF IInv, JobInv
<1>3. \A g \in Gens : ArtifactInv(g)'
  BY DEF IInv, ArtifactInv
<1>4. ASSUME NEW w \in Workers PROVE WorkerInv(w)'
  <2>1. WorkerInv(w)
    BY DEF IInv
  <2>2. worker[w].phase = "marking" /\ worker[w].key = job.version => ~Issuing'
    BY <2>1 DEF WorkerInv, LockedExclusively
  <2> QED
    BY <2>1, <2>2 DEF WorkerInv
<1>5. \A u, v \in Workers : AloneInv(u, v)'
  BY DEF IInv, AloneInv
<1> QED
  BY <1>1, <1>2, <1>3, <1>4, <1>5 DEF IInv

-----------------------------------------------------------------------------
(* Every step keeps it                                                     *)

\* A job that is taken back, cancelled, recovered or settled stays well-typed.
LEMMA ReleasedJob ==
  ASSUME TypeOK, NEW status \in {"QUEUED", "ENDED", "SUCCEEDED"}
  PROVE  /\ Released(status) \in Job
         /\ Released(status).version = job.version /\ Released(status).status = status
BY DEF TypeOK, Job, Released

\* Expiry and what the queue does with the row by itself.
LEMMA QueueKeeps == IInv /\ Queue => IInv'
<1> SUFFICES ASSUME IInv, Queue PROVE IInv'
  OBVIOUS
<1>1. /\ job \in Job /\ expired \in BOOLEAN
      /\ \A status \in {"QUEUED", "ENDED"} :
            /\ Released(status) \in Job
            /\ Released(status).version = job.version /\ Released(status).status = status
  BY ReleasedJob DEF IInv, TypeOK
<1>2. CASE Expire
  BY <1>1, <1>2, JobKeeps DEF Expire
<1>3. CASE LeaseRunsOut
  <2>1. /\ job' \in Job /\ job'.version = job.version /\ job'.status = job.status
    BY <1>1, <1>3 DEF LeaseRunsOut, Job
  <2> QED
    BY <1>1, <1>3, <2>1, JobKeeps DEF LeaseRunsOut
<1>4. CASE Cancel
  <2>1. /\ job' \in Job /\ job'.version = job.version
        /\ job'.status \in {"CANCEL_REQUESTED", "ENDED"}
        /\ job'.status \in Leased => job.status \in Leased
        /\ job.status # "SUCCEEDED"
    BY <1>1, <1>4 DEF Cancel, Job, Leased
  <2> QED
    BY <1>1, <1>4, <2>1, JobKeeps DEF Cancel
<1>5. CASE Recover
  <2>1. /\ job' \in Job /\ job'.version = job.version
        /\ job'.status \in {"QUEUED", "ENDED"}
        /\ job.status # "SUCCEEDED"
    BY <1>1, <1>5 DEF Recover, Leased
  <2>2. job'.status \notin Leased
    BY <2>1 DEF Leased
  <2> QED
    BY <1>1, <1>5, <2>1, <2>2, JobKeeps DEF Recover
<1> QED
  BY <1>2, <1>3, <1>4, <1>5 DEF Queue

\* A claim opens a generation of which there is nothing yet.
LEMMA ClaimKeeps ==
  ASSUME IInv, NEW w \in Workers, Claim(w)
  PROVE  IInv'
<1> DEFINE g == job.version + 1
           s == [worker[w] EXCEPT !.phase = "begin", !.gen = g]
<1>1. /\ MaxGen \in Nat /\ job.version \in 0..MaxGen /\ job.version < MaxGen
      /\ worker \in [Workers -> WorkerState] /\ worker[w] \in WorkerState
      /\ job.status = "QUEUED"
  BY ConstantsAssumption DEF IInv, TypeOK, Job, Claim
<1>2. /\ g \in Gens /\ g \in 0..MaxGen /\ g > job.version
  BY <1>1 DEF Gens
<1>3. /\ s \in WorkerState /\ s.phase = "begin" /\ s.gen = g
  BY <1>1, <1>2 DEF WorkerState, Phases, Writing
<1>4. /\ worker' = [worker EXCEPT ![w] = s]
      /\ job' = [status |-> "RUNNING", version |-> g, live |-> TRUE]
      /\ UNCHANGED <<expired, artifact, age, files, grant, download, streams, faults>>
  BY DEF Claim
<1> HIDE DEF s
<1>5. worker'[w] = s /\ \A u \in Workers : u # w => worker'[u] = worker[u]
  BY <1>1, <1>4
<1>6. job' \in Job /\ job'.version = g /\ job'.status = "RUNNING"
  BY <1>2, <1>4 DEF Job, Leased
<1> HIDE DEF g
<1>7. TypeOK'
  BY <1>3, <1>4, <1>6 DEF IInv, TypeOK
<1>8. JobInv'
  BY <1>2, <1>6 DEF JobInv
<1>9. \A h \in Gens : h > g => h > job.version
  BY <1>1, <1>2 DEF Gens
<1>10. \A h \in Gens : ArtifactInv(h)'
  BY <1>4, <1>6, <1>9 DEF IInv, ArtifactInv
<1>11. /\ artifact[g] = "NONE"
       /\ \A r \in Grants : grant[r].state \notin {"issuing", "open"}
  BY <1>1, <1>2 DEF IInv, ArtifactInv, GrantInv
<1>12. ASSUME NEW u \in Workers PROVE WorkerInv(u)'
  <2>1. CASE u = w
    BY <1>2, <1>3, <1>4, <1>5, <1>6, <1>11, <2>1 DEF WorkerInv, Linked, Writing
  <2>2. CASE u # w
    <3>1. worker'[u] = worker[u] /\ WorkerInv(u)
      BY <1>5, <2>2 DEF IInv
    <3>2. worker[u].gen \in Gens /\ worker[u].gen <= job.version => worker[u].gen <= g
      BY <1>1, <1>2 DEF Gens
    <3> QED
      BY <1>4, <1>6, <1>11, <3>1, <3>2 DEF WorkerInv, Issuing
  <2> QED BY <2>1, <2>2
<1>13. ASSUME NEW u \in Workers, u # w PROVE AloneInv(u, w)' /\ AloneInv(w, u)'
  <2>1. worker'[u] = worker[u] /\ WorkerInv(u) /\ worker[u] \in WorkerState
    BY <1>1, <1>5, <1>13 DEF IInv
  <2>2. worker[u].gen # g
    BY <1>1, <1>2, <2>1 DEF WorkerInv, WorkerState, Phases, Writing, Gens
  <2> QED
    BY <1>3, <1>5, <2>1, <2>2 DEF AloneInv
<1>14. ASSUME NEW u \in Workers, NEW v \in Workers PROVE AloneInv(u, v)'
  <2>1. CASE u # w /\ v # w
    BY <1>5, <2>1 DEF IInv, AloneInv
  <2>2. CASE u = v
    BY <2>2 DEF AloneInv
  <2> QED BY <1>13, <2>1, <2>2
<1>15. /\ \A r \in Grants : GrantInv(r)'
       /\ \A d \in Downloads : DownloadInv(d)'
  BY <1>4, <1>11 DEF IInv, GrantInv, DownloadInv
<1> QED
  BY <1>7, <1>8, <1>10, <1>12, <1>14, <1>15 DEF IInv

\* The writer's steps on its own files: no archive of a live artifact disappears.
LEMMA WriteFileKeeps ==
  ASSUME IInv, NEW w \in Workers,
         CreatePart(w) \/ CreateSpool(w) \/ LinkArchive(w) \/ UnlinkStaging(w) \/ DropSpool(w)
  PROVE  IInv'
<1> DEFINE g == worker[w].gen
<1>1. /\ worker \in [Workers -> WorkerState] /\ worker[w] \in WorkerState
      /\ files \in [Gens -> SUBSET Suffixes] /\ job \in Job /\ faults \in 0..MaxFaults
  BY DEF IInv, TypeOK
<1>2. PICK from \in Writing \ {"begin", "commit"}, to \in Writing \ {"begin"},
           content \in SUBSET Suffixes :
        /\ WriteFile(w, from, to, content)
        /\ "zip" \in files[g] => "zip" \in content
        /\ to \in Linked => from \in Linked \/ "zip" \in content
  <2>1. files[g] \in SUBSET Suffixes
    <3>1. worker[w].phase \in Writing
      BY DEF CreatePart, CreateSpool, LinkArchive, UnlinkStaging, DropSpool, WriteFile, Writing
    <3>2. g \in Gens
      BY <3>1 DEF IInv, WorkerInv
    <3> QED BY <1>1, <3>2
  <2>2. CASE CreatePart(w)
    BY <2>1, <2>2 DEF CreatePart, Writing, Suffixes, Linked
  <2>3. CASE CreateSpool(w)
    BY <2>1, <2>3 DEF CreateSpool, Writing, Suffixes, Linked
  <2>4. CASE LinkArchive(w)
    BY <2>1, <2>4 DEF LinkArchive, Writing, Suffixes, Linked
  <2>5. CASE UnlinkStaging(w)
    BY <2>1, <2>5 DEF UnlinkStaging, Writing, Suffixes, Linked
  <2>6. CASE DropSpool(w)
    BY <2>1, <2>6 DEF DropSpool, Writing, Suffixes, Linked
  <2> QED BY <2>2, <2>3, <2>4, <2>5, <2>6
<1> DEFINE s == [worker[w] EXCEPT !.phase = to]
<1>3. /\ s \in WorkerState /\ s.phase = to /\ s.gen = g
  BY <1>1, <1>2 DEF WorkerState, Phases
<1>4. /\ worker' = [worker EXCEPT ![w] = s]
      /\ files' = [files EXCEPT ![g] = content]
      /\ worker[w].phase = from
      /\ UNCHANGED <<job, expired, artifact, age, grant, download, streams, faults>>
  BY <1>2 DEF WriteFile, Goto
<1> HIDE DEF s
<1>5. worker'[w] = s
  BY <1>1, <1>4
<1>6. g \in Gens /\ WorkerInv(w)
  BY <1>2, <1>4 DEF IInv, WorkerInv
<1>7. files' \in [Gens -> SUBSET Suffixes] /\ files'[g] = content
  BY <1>1, <1>4, <1>6
<1>8. \A h \in Gens : "zip" \in files[h] => "zip" \in files'[h]
  BY <1>1, <1>2, <1>4
<1>9. WorkerInv(w)'
  BY <1>2, <1>3, <1>4, <1>5, <1>6, <1>7 DEF WorkerInv, Writing, Linked
<1>10. \A u \in Workers : AloneInv(u, w)' /\ AloneInv(w, u)'
  BY <1>2, <1>3, <1>4, StaysAlone DEF Writing
<1> QED
  BY <1>1, <1>3, <1>4, <1>7, <1>8, <1>9, <1>10, MoveKeeps

\* The last heartbeats and those of the timer.
LEMMA BeatKeeps ==
  ASSUME IInv, NEW w \in Workers, FinalRenew(w) \/ BeatBegin(w) \/ BeatEnd(w)
  PROVE  IInv'
<1>1. /\ worker \in [Workers -> WorkerState] /\ worker[w] \in WorkerState
      /\ files \in [Gens -> SUBSET Suffixes] /\ job \in Job /\ faults \in 0..MaxFaults
      /\ Released("ENDED") \in Job /\ Released("ENDED").version = job.version
      /\ Released("ENDED").status = "ENDED"
  BY ReleasedJob DEF IInv, TypeOK
<1>2. PICK p \in Phases, b \in BOOLEAN :
        /\ worker' = [worker EXCEPT ![w] = [worker[w] EXCEPT !.phase = p, !.beat = b]]
        /\ p = worker[w].phase \/ (worker[w].phase = "renew" /\ p = "commit")
  <2>1. CASE FinalRenew(w)
    <3>1. worker' = [worker EXCEPT
            ![w] = [worker[w] EXCEPT !.phase = "commit", !.beat = worker[w].beat]]
      BY <1>1, <2>1 DEF FinalRenew, Goto, WorkerState
    <3> QED
      BY <1>1, <2>1, <3>1 DEF FinalRenew, Phases, Writing, WorkerState
  <2>2. CASE BeatBegin(w)
    <3>1. worker' = [worker EXCEPT
            ![w] = [worker[w] EXCEPT !.phase = worker[w].phase, !.beat = TRUE]]
      BY <1>1, <2>2 DEF BeatBegin, WorkerState
    <3> QED
      BY <1>1, <3>1 DEF WorkerState
  <2>3. CASE BeatEnd(w)
    <3>1. worker' = [worker EXCEPT
            ![w] = [worker[w] EXCEPT !.phase = worker[w].phase, !.beat = FALSE]]
      BY <1>1, <2>3 DEF BeatEnd, WorkerState
    <3> QED
      BY <1>1, <3>1 DEF WorkerState
  <2> QED BY <2>1, <2>2, <2>3
<1> DEFINE s == [worker[w] EXCEPT !.phase = p, !.beat = b]
<1>3. /\ s \in WorkerState /\ s.phase = p /\ s.gen = worker[w].gen /\ s.key = worker[w].key
      /\ worker' = [worker EXCEPT ![w] = s]
  BY <1>1, <1>2 DEF WorkerState
<1> HIDE DEF s
<1>4. worker'[w] = s /\ WorkerInv(w)
  BY <1>1, <1>3 DEF IInv
<1>5. /\ job' \in Job /\ job'.version = job.version
      /\ (job'.status = "SUCCEEDED") <=> (job.status = "SUCCEEDED")
      /\ job'.status \in Leased => job.status \in Leased
  <2>1. [job EXCEPT !.live = TRUE] \in Job
    BY <1>1 DEF Job
  <2>2. /\ [job EXCEPT !.live = TRUE].status = job.status
        /\ [job EXCEPT !.live = TRUE].version = job.version
    BY <1>1 DEF Job
  <2>3. \/ job' = job \/ job' = [job EXCEPT !.live = TRUE]
        \/ job.status = "CANCEL_REQUESTED" /\ job' = Released("ENDED")
    BY DEF FinalRenew, BeatBegin, BeatEnd
  <2>4. "ENDED" \notin Leased
    BY DEF Leased
  <2> QED BY <1>1, <2>1, <2>2, <2>3, <2>4
<1>6. UNCHANGED <<expired, artifact, age, files, grant, download, streams, faults>>
  BY DEF FinalRenew, BeatBegin, BeatEnd
<1>7. WorkerInv(w)'
  BY <1>2, <1>3, <1>4, <1>5, <1>6 DEF WorkerInv, Issuing, Writing, Linked
<1>8. \A u \in Workers : AloneInv(u, w)' /\ AloneInv(w, u)'
  BY <1>2, <1>3, StaysAlone
<1> QED
  BY <1>1, <1>3, <1>5, <1>6, <1>7, <1>8, MoveKeeps

\* The commit transaction takes the row of an artifact that nobody reclaims.
LEMMA PublishBeginKeeps ==
  ASSUME IInv, NEW w \in Workers, PublishBegin(w)
  PROVE  IInv'
<1> DEFINE s == [worker[w] EXCEPT !.phase = "publishing"]
<1>1. /\ worker \in [Workers -> WorkerState] /\ worker[w] \in WorkerState
      /\ files \in [Gens -> SUBSET Suffixes] /\ job \in Job /\ faults \in 0..MaxFaults
      /\ WorkerInv(w) /\ worker[w].phase = "commit"
  BY DEF IInv, TypeOK, PublishBegin
<1>2. /\ s \in WorkerState /\ s.phase = "publishing" /\ s.gen = worker[w].gen
      /\ worker' = [worker EXCEPT ![w] = s]
  BY <1>1 DEF WorkerState, Phases, PublishBegin, Goto
<1> HIDE DEF s
<1>3. worker'[w] = s /\ \A u \in Workers : u # w => worker'[u] = worker[u]
  BY <1>1, <1>2
<1>4. /\ UNCHANGED <<job, expired, artifact, age, files, grant, download, streams, faults>>
      /\ artifact[s.gen] = "STAGING" /\ ~LockedExclusively(s.gen)
  BY <1>2 DEF PublishBegin, Publishable
<1>5. WorkerInv(w)'
  BY <1>1, <1>2, <1>3, <1>4 DEF WorkerInv, Writing, Linked
<1>6. \A u \in Workers : AloneInv(u, w)' /\ AloneInv(w, u)'
  <2> SUFFICES ASSUME NEW u \in Workers, u # w PROVE AloneInv(u, w)' /\ AloneInv(w, u)'
    BY DEF AloneInv
  <2>1. AloneInv(u, w) /\ AloneInv(w, u)
    BY DEF IInv
  <2>2. ~(worker[u].phase = "marking" /\ worker[u].key = s.gen)
    BY <1>4 DEF LockedExclusively
  <2> QED
    BY <1>2, <1>3, <2>1, <2>2 DEF AloneInv
<1> QED
  BY <1>1, <1>2, <1>4, <1>5, <1>6, MoveKeeps

\* A worker that goes back to its loop, fails, crashes or sweeps holds no lock.
LEMMA LeavesKeep ==
  ASSUME IInv, NEW w \in Workers, NEW s \in WorkerState, worker' = [worker EXCEPT ![w] = s],
         \/ s.phase \in {"poll", "sweep"} /\ s.gen = 0
         \/ s.phase = "settle" /\ s.gen = worker[w].gen
             /\ worker[w].phase \in Writing \cup {"publishing"},
         job' \in Job, job'.version = job.version,
         (job'.status = "SUCCEEDED") <=> (job.status = "SUCCEEDED"),
         job'.status \in Leased => job.status \in Leased,
         faults' \in 0..MaxFaults,
         UNCHANGED <<expired, artifact, age, files, grant, download, streams>>
  PROVE  IInv'
<1>1. worker \in [Workers -> WorkerState] /\ worker'[w] = s /\ WorkerInv(w)
      /\ files' \in [Gens -> SUBSET Suffixes]
  BY DEF IInv, TypeOK
<1>2. WorkerInv(w)'
  BY <1>1 DEF WorkerInv, Writing, Linked
<1>3. \A u \in Workers : AloneInv(u, w)' /\ AloneInv(w, u)'
  BY StaysAlone
<1> QED
  BY <1>1, <1>2, <1>3, MoveKeeps

\* A writer fails, settles or dies; a sweep is done.
LEMMA StopKeeps ==
  ASSUME IInv, NEW w \in Workers, WriterFails(w) \/ Settle(w) \/ Crash(w) \/ SweepDone(w)
  PROVE  IInv'
<1>1. /\ worker \in [Workers -> WorkerState] /\ worker[w] \in WorkerState
      /\ job \in Job /\ faults \in 0..MaxFaults
      /\ \A status \in {"QUEUED", "ENDED"} :
            /\ Released(status) \in Job
            /\ Released(status).version = job.version /\ Released(status).status = status
  BY ReleasedJob DEF IInv, TypeOK
<1>2. MaxGen \in Nat /\ MaxFaults \in Nat
  BY ConstantsAssumption
<1>3. /\ Idle \in WorkerState /\ Idle.phase = "poll" /\ Idle.gen = 0
  BY <1>2 DEF Idle, WorkerState, Phases
<1>4. CASE WriterFails(w)
  <2> DEFINE s == [worker[w] EXCEPT !.phase = "settle"]
  <2>1. s \in WorkerState /\ s.phase = "settle" /\ s.gen = worker[w].gen
    BY <1>1 DEF WorkerState, Phases
  <2>2. worker' = [worker EXCEPT ![w] = s]
    BY <1>4 DEF WriterFails, Goto
  <2> HIDE DEF s
  <2> QED
    BY <1>1, <1>4, <2>1, <2>2, LeavesKeep DEF WriterFails
<1> DEFINE s == [Idle EXCEPT !.after = worker[w].after]
<1>5. s \in WorkerState /\ s.phase = "poll" /\ s.gen = 0
  BY <1>1, <1>3 DEF WorkerState, Idle
<1>6. Poll(w) => worker' = [worker EXCEPT ![w] = s]
  BY DEF Poll
<1> HIDE DEF s
<1>7. CASE Settle(w)
  <2>1. /\ job' \in Job /\ job'.version = job.version
        /\ (job'.status = "SUCCEEDED") <=> (job.status = "SUCCEEDED")
        /\ job'.status \in Leased => job.status \in Leased
    BY <1>1, <1>7 DEF Settle, HoldsLease, Leased
  <2> QED
    BY <1>1, <1>5, <1>6, <1>7, <2>1, LeavesKeep DEF Settle
<1>8. CASE SweepDone(w)
  BY <1>1, <1>5, <1>6, <1>8, LeavesKeep DEF SweepDone
<1>9. CASE Crash(w)
  <2>1. faults' \in 0..MaxFaults
    BY <1>1, <1>2, <1>9 DEF Crash
  <2> QED
    BY <1>1, <1>3, <1>9, <2>1, LeavesKeep DEF Crash
<1> QED
  BY <1>4, <1>7, <1>8, <1>9

\* A sweep takes its batch; the cursor of its rotation stays a generation.
LEMMA SweepKeeps ==
  ASSUME IInv, NEW w \in Workers, Sweep(w)
  PROVE  IInv'
<1> DEFINE previous == Rotation(worker[w].after)
           a == IF Cardinality(previous) = RotationSize THEN Last(previous) ELSE 0
           s == [worker[w] EXCEPT !.phase = "sweep", !.todo = Candidates \cup previous, !.after = a]
<1>1. /\ worker \in [Workers -> WorkerState] /\ worker[w] \in WorkerState
      /\ job \in Job /\ faults \in 0..MaxFaults
      /\ WorkerInv(w) /\ worker[w].phase = "poll"
      /\ MaxGen \in Nat /\ RotationSize \in Nat \ {0}
  BY ConstantsAssumption DEF IInv, TypeOK, Sweep
<1>2. /\ previous \subseteq Gens /\ Candidates \subseteq Gens
  BY DEF Rotation, Candidates
<1>3. a \in 0..MaxGen
  <2>1. CASE Cardinality(previous) = RotationSize
    <3>1. previous # {}
      BY <1>1, <2>1, FS_EmptySet
    <3>2. Last(previous) \in Gens
      BY <1>2, <3>1, LastIsLast
    <3> QED
      BY <1>1, <2>1, <3>2 DEF Gens
  <2> QED
    BY <1>1, <2>1
<1>4. worker' = [worker EXCEPT ![w] = s]
  BY DEF Sweep
<1> HIDE DEF a, previous
<1>5. s \in WorkerState /\ s.phase = "sweep" /\ s.gen = worker[w].gen
  BY <1>1, <1>2, <1>3 DEF WorkerState, Phases
<1>6. s.gen = 0
  BY <1>1, <1>5 DEF WorkerInv
<1> HIDE DEF s
<1> QED
  BY <1>1, <1>4, <1>5, <1>6, LeavesKeep DEF Sweep

\* A reclaim that decides locks a row that nobody else holds.
LEMMA ConsiderKeeps ==
  ASSUME IInv, NEW w \in Workers, Consider(w)
  PROVE  IInv'
<1>1. /\ worker \in [Workers -> WorkerState] /\ worker[w] \in WorkerState
      /\ files \in [Gens -> SUBSET Suffixes] /\ job \in Job /\ faults \in 0..MaxFaults
      /\ WorkerInv(w) /\ worker[w].phase = "sweep" /\ worker[w].gen = 0
  BY DEF IInv, TypeOK, Consider, WorkerInv
<1>2. PICK g \in worker[w].todo :
        LET free == ~LockedExclusively(g) /\ ~LockedShared(g)
            go(p) == [worker[w] EXCEPT !.todo = @ \ {g}, !.phase = p, !.key = g, !.step = 1]
        IN
        /\ worker' = [worker EXCEPT ![w] =
                        IF free /\ artifact[g] = "RECLAIMED" THEN go("remove")
                        ELSE IF free /\ Reclaimable(g) THEN go("marking")
                        ELSE [worker[w] EXCEPT !.todo = @ \ {g}]]
  BY DEF Consider
<1>3. UNCHANGED <<job, expired, artifact, age, files, grant, download, streams, faults>>
  BY DEF Consider
<1>4. g \in Gens /\ worker[w].todo \ {g} \in SUBSET Gens /\ g \in 0..MaxGen
  BY <1>1, ConstantsAssumption DEF WorkerState, Gens
<1> DEFINE free == ~LockedExclusively(g) /\ ~LockedShared(g)
           go(p) == [worker[w] EXCEPT !.todo = @ \ {g}, !.phase = p, !.key = g, !.step = 1]
           pass == [worker[w] EXCEPT !.todo = @ \ {g}]
<1>5. CASE free /\ (artifact[g] = "RECLAIMED" \/ Reclaimable(g))
  <2>1. PICK p \in {"remove", "marking"} :
          /\ worker' = [worker EXCEPT ![w] = go(p)]
          /\ p = "remove" => artifact[g] = "RECLAIMED"
          /\ p = "marking" => Reclaimable(g)
    BY <1>2, <1>5
  <2> DEFINE s == go(p)
  <2>2. s \in WorkerState /\ s.phase = p /\ s.gen = 0 /\ s.key = g
    <3>1. p \in Phases /\ 1 \in 1..4
      BY DEF Phases
    <3>2. s = [worker[w] EXCEPT !.todo = worker[w].todo \ {g}, !.phase = p, !.key = g, !.step = 1]
      BY <1>1 DEF WorkerState
    <3> QED
      BY <1>1, <1>4, <3>1, <3>2 DEF WorkerState
  <2>3. worker' = [worker EXCEPT ![w] = s]
    BY <2>1
  <2> HIDE DEF s, go
  <2>4. worker'[w] = s /\ \A u \in Workers : u # w => worker'[u] = worker[u]
    BY <1>1, <2>3
  <2>5. WorkerInv(w)'
    BY <1>3, <1>4, <1>5, <2>1, <2>2, <2>4
       DEF WorkerInv, Writing, Linked, Reclaimable, Issuing, LockedShared
  <2>6. \A u \in Workers : AloneInv(u, w)' /\ AloneInv(w, u)'
    <3> SUFFICES ASSUME NEW u \in Workers, u # w PROVE AloneInv(u, w)' /\ AloneInv(w, u)'
      BY DEF AloneInv
    <3>1. AloneInv(u, w) /\ AloneInv(w, u)
      BY DEF IInv
    <3>2. /\ ~(worker[u].phase = "marking" /\ worker[u].key = g)
          /\ ~(worker[u].phase = "publishing" /\ worker[u].gen = g)
      BY <1>5 DEF LockedExclusively
    <3> QED
      BY <1>1, <2>2, <2>4, <3>1, <3>2 DEF AloneInv
  <2> QED
    BY <1>1, <1>3, <2>2, <2>3, <2>5, <2>6, MoveKeeps
<1>6. CASE ~(free /\ (artifact[g] = "RECLAIMED" \/ Reclaimable(g)))
  <2> DEFINE s == pass
  <2>1. worker' = [worker EXCEPT ![w] = s]
    BY <1>2, <1>6
  <2>2. s \in WorkerState /\ s.phase = "sweep" /\ s.gen = 0
    BY <1>1, <1>4 DEF WorkerState, Phases
  <2> HIDE DEF s
  <2> QED
    BY <1>1, <1>3, <2>1, <2>2, LeavesKeep
<1> QED
  BY <1>5, <1>6

\* The intent of a generation is written before any of its files.
LEMMA BeginKeeps ==
  ASSUME IInv, NEW w \in Workers, Begin(w)
  PROVE  IInv'
<1> DEFINE g == worker[w].gen
           s == [worker[w] EXCEPT !.phase = "create"]
<1>1. /\ worker \in [Workers -> WorkerState] /\ worker[w] \in WorkerState
      /\ artifact \in [Gens -> ArtifactStates]
      /\ WorkerInv(w) /\ worker[w].phase = "begin" /\ job.version \in Nat
  BY ConstantsAssumption DEF IInv, TypeOK, Begin, Job
<1>2. g \in Gens /\ g <= job.version /\ artifact[g] = "NONE" /\ job.status = "RUNNING"
  BY <1>1 DEF WorkerInv, Writing, Begin
<1>3. /\ s \in WorkerState /\ s.phase = "create" /\ s.gen = g
      /\ worker' = [worker EXCEPT ![w] = s]
  BY <1>1 DEF WorkerState, Phases, Writing, Begin, Goto
<1> HIDE DEF s
<1>4. worker'[w] = s /\ \A u \in Workers : u # w => worker'[u] = worker[u]
  BY <1>1, <1>3
<1>5. /\ artifact' = [artifact EXCEPT ![g] = "STAGING"]
      /\ age' = Touched(g)
      /\ UNCHANGED <<job, expired, files, grant, download, streams, faults>>
  BY DEF Begin
<1> HIDE DEF g
<1>6. /\ artifact'[g] = "STAGING" /\ artifact' \in [Gens -> ArtifactStates]
      /\ \A h \in Gens : h # g => artifact'[h] = artifact[h]
  BY <1>1, <1>2, <1>5 DEF ArtifactStates
<1>7. TypeOK'
  BY <1>2, <1>3, <1>5, <1>6, TouchedIsOrder DEF IInv, TypeOK
<1>8. JobInv'
  BY <1>2, <1>5 DEF IInv, JobInv
<1>9. \A h \in Gens : ArtifactInv(h)'
  <2> SUFFICES ASSUME NEW h \in Gens PROVE ArtifactInv(h)'
    OBVIOUS
  <2>1. ArtifactInv(h) /\ ~(g > job.version)
    BY <1>1, <1>2 DEF IInv, Gens
  <2> QED
    BY <1>5, <1>6, <2>1 DEF ArtifactInv
<1>10. ASSUME NEW u \in Workers PROVE WorkerInv(u)'
  <2>1. CASE u = w
    BY <1>2, <1>3, <1>4, <1>5, <2>1 DEF WorkerInv, Linked, Writing
  <2>2. CASE u # w
    <3>1. worker'[u] = worker[u] /\ WorkerInv(u) /\ AloneInv(u, w)
      BY <1>4, <2>2 DEF IInv
    <3>2. worker[u].gen = g => worker[u].gen = 0
      BY <2>2, <3>1 DEF AloneInv, g
    <3>3. /\ worker[u].phase \in Writing \cup {"publishing"} => worker[u].gen # g
          /\ worker[u].phase \in {"marking", "remove"} => worker[u].key # g
      BY <1>2, <3>1, <3>2 DEF WorkerInv, Gens
    <3> QED
      BY <1>5, <1>6, <3>1, <3>3 DEF WorkerInv, Writing, Linked, Issuing
  <2> QED BY <2>1, <2>2
<1>11. \A u, v \in Workers : AloneInv(u, v)'
  <2>1. \A u \in Workers : AloneInv(u, w)' /\ AloneInv(w, u)'
    BY <1>3, StaysAlone DEF g
  <2> SUFFICES ASSUME NEW u \in Workers, NEW v \in Workers, u # w, v # w PROVE AloneInv(u, v)'
    BY <2>1
  <2> QED
    BY <1>4 DEF IInv, AloneInv
<1>12. /\ \A r \in Grants : GrantInv(r)'
       /\ \A d \in Downloads : DownloadInv(d)'
  BY <1>2, <1>5 DEF IInv, GrantInv, DownloadInv
<1> QED
  BY <1>7, <1>8, <1>9, <1>10, <1>11, <1>12 DEF IInv

\* The commit: package, artifact and job at once, while the archive is on disk.
LEMMA PublishKeeps ==
  ASSUME IInv, NEW w \in Workers, Publish(w)
  PROVE  IInv'
<1> DEFINE g == worker[w].gen
           s == [Idle EXCEPT !.after = worker[w].after]
<1>1. /\ worker \in [Workers -> WorkerState] /\ worker[w] \in WorkerState
      /\ artifact \in [Gens -> ArtifactStates]
      /\ WorkerInv(w) /\ worker[w].phase = "publishing" /\ job.version \in Nat
      /\ MaxGen \in Nat
  BY ConstantsAssumption DEF IInv, TypeOK, Publish, Job
<1>2. /\ g \in Gens /\ g = job.version /\ artifact[g] = "STAGING" /\ "zip" \in files[g]
      /\ job.status \in Leased
  BY <1>1 DEF WorkerInv, Linked, Publish, HoldsLease
<1>3. /\ s \in WorkerState /\ s.phase = "poll" /\ s.gen = 0
      /\ worker' = [worker EXCEPT ![w] = s]
  <2>1. Idle \in WorkerState /\ Idle.phase = "poll" /\ Idle.gen = 0
    BY <1>1 DEF Idle, WorkerState, Phases
  <2>2. worker' = [worker EXCEPT ![w] = s]
    BY DEF Publish, Poll
  <2> QED
    BY <1>1, <2>1, <2>2 DEF WorkerState
<1> HIDE DEF s
<1>4. worker'[w] = s /\ \A u \in Workers : u # w => worker'[u] = worker[u]
  BY <1>1, <1>3
<1>5. /\ artifact' = [artifact EXCEPT ![g] = "PUBLISHED"]
      /\ age' = Touched(g)
      /\ job' = Released("SUCCEEDED")
      /\ UNCHANGED <<expired, files, grant, download, streams, faults>>
  BY DEF Publish
<1>6. job' \in Job /\ job'.version = job.version /\ job'.status = "SUCCEEDED"
  BY <1>5, ReleasedJob DEF IInv
<1> HIDE DEF g
<1>7. /\ artifact'[g] = "PUBLISHED" /\ artifact' \in [Gens -> ArtifactStates]
      /\ \A h \in Gens : h # g => artifact'[h] = artifact[h]
  BY <1>1, <1>2, <1>5 DEF ArtifactStates
<1>8. TypeOK'
  BY <1>2, <1>3, <1>5, <1>6, <1>7, TouchedIsOrder DEF IInv, TypeOK
<1>9. JobInv'
  BY <1>2, <1>6, <1>7 DEF JobInv
<1>10. \A h \in Gens : ArtifactInv(h)'
  <2> SUFFICES ASSUME NEW h \in Gens PROVE ArtifactInv(h)'
    OBVIOUS
  <2>1. ArtifactInv(h) /\ ~(g > job.version)
    BY <1>1, <1>2 DEF IInv
  <2> QED
    BY <1>2, <1>5, <1>6, <1>7, <2>1 DEF ArtifactInv
<1>11. \A r \in Grants : grant[r].state \notin {"issuing", "open"}
  BY <1>2 DEF IInv, GrantInv, Leased
<1>12. ASSUME NEW u \in Workers PROVE WorkerInv(u)'
  <2>1. CASE u = w
    BY <1>3, <1>4, <2>1 DEF WorkerInv, Linked, Writing
  <2>2. CASE u # w
    <3>1. worker'[u] = worker[u] /\ WorkerInv(u) /\ AloneInv(u, w) /\ AloneInv(w, u)
      BY <1>4, <2>2 DEF IInv
    <3>2. /\ worker[u].gen = g => worker[u].gen = 0
          /\ worker[u].phase = "marking" => worker[u].key # g
      BY <1>1, <2>2, <3>1 DEF AloneInv, g
    <3>3. /\ worker[u].phase \in Writing \cup {"publishing"} => worker[u].gen # g
          /\ worker[u].phase = "remove" => worker[u].key # g
      BY <1>2, <3>1, <3>2 DEF WorkerInv, Gens
    <3> QED
      BY <1>5, <1>6, <1>7, <3>1, <3>2, <3>3 DEF WorkerInv, Writing, Linked, Issuing
  <2> QED BY <2>1, <2>2
<1>13. \A u, v \in Workers : AloneInv(u, v)'
  <2>1. \A u \in Workers : AloneInv(u, w)' /\ AloneInv(w, u)'
    BY <1>3, StaysAlone
  <2> SUFFICES ASSUME NEW u \in Workers, NEW v \in Workers, u # w, v # w PROVE AloneInv(u, v)'
    BY <2>1
  <2> QED
    BY <1>4 DEF IInv, AloneInv
<1>14. /\ \A r \in Grants : GrantInv(r)'
       /\ \A d \in Downloads : DownloadInv(d)'
  BY <1>5, <1>11 DEF IInv, GrantInv, DownloadInv
<1> QED
  BY <1>8, <1>9, <1>10, <1>12, <1>13, <1>14 DEF IInv

\* A row of the grants table after its revocation is a row, and not open.
LEMMA RevokedGrants ==
  ASSUME grant \in [Grants -> Grant], NEW S, None \notin Grants
  PROVE  /\ GrantsRevoked(S) \in [Grants -> Grant]
         /\ \A r \in Grants : \/ GrantsRevoked(S)[r] = grant[r]
                              \/ grant[r].state = "open" /\ GrantsRevoked(S)[r].state = "revoked"
         /\ \A r \in Grants \cap S : GrantsRevoked(S)[r].state # "open"
<1>1. ASSUME NEW r \in Grants
      PROVE  /\ GrantsRevoked(S)[r] \in Grant
             /\ \/ GrantsRevoked(S)[r] = grant[r]
                \/ grant[r].state = "open" /\ GrantsRevoked(S)[r].state = "revoked"
             /\ r \in S => GrantsRevoked(S)[r].state # "open"
  <2> DEFINE q == [grant[r] EXCEPT !.state = "revoked", !.reservation = None, !.reserved = FALSE]
  <2>0. grant[r] \in Grant
    OBVIOUS
  <2>1. q \in Grant /\ q.state = "revoked"
    BY <2>0 DEF Grant
  <2>2. GrantsRevoked(S)[r] = IF r \in S /\ grant[r].state = "open" THEN q ELSE grant[r]
    BY DEF GrantsRevoked
  <2> HIDE DEF q
  <2> QED
    BY <2>1, <2>2
<1> QED
  BY <1>1 DEF GrantsRevoked

\* A reclaim gives up an artifact that nobody offers, and takes its grants with it.
LEMMA MarkReclaimingKeeps ==
  ASSUME IInv, NEW w \in Workers, MarkReclaiming(w)
  PROVE  IInv'
<1> DEFINE g == worker[w].key
           s == [worker[w] EXCEPT !.phase = "remove"]
<1>1. /\ worker \in [Workers -> WorkerState] /\ worker[w] \in WorkerState
      /\ artifact \in [Gens -> ArtifactStates] /\ grant \in [Grants -> Grant]
      /\ WorkerInv(w) /\ worker[w].phase = "marking" /\ job.version \in Nat
  BY ConstantsAssumption DEF IInv, TypeOK, MarkReclaiming, Job
<1>2. /\ g \in Gens /\ artifact[g] \in {"STAGING", "PUBLISHED", "RECLAIMING"}
      /\ g = job.version => ~Issuing
      /\ worker[w].gen = 0
  BY <1>1 DEF WorkerInv
<1>3. /\ s \in WorkerState /\ s.phase = "remove" /\ s.key = g /\ s.gen = 0
      /\ worker' = [worker EXCEPT ![w] = s]
  BY <1>1, <1>2 DEF WorkerState, Phases, MarkReclaiming, Goto
<1> HIDE DEF s
<1>4. worker'[w] = s /\ \A u \in Workers : u # w => worker'[u] = worker[u]
  BY <1>1, <1>3
<1>5. /\ artifact' = [artifact EXCEPT ![g] = "RECLAIMING"]
      /\ age' = Touched(g)
      /\ grant' = IF g = job.version THEN GrantsRevoked(Grants) ELSE grant
      /\ UNCHANGED <<job, expired, files, download, streams, faults>>
  BY DEF MarkReclaiming
<1> HIDE DEF g
<1>6. /\ artifact'[g] = "RECLAIMING" /\ artifact' \in [Gens -> ArtifactStates]
      /\ \A h \in Gens : h # g => artifact'[h] = artifact[h]
  BY <1>1, <1>2, <1>5 DEF ArtifactStates
<1>7. /\ GrantsRevoked(Grants) \in [Grants -> Grant]
      /\ \A r \in Grants : \/ GrantsRevoked(Grants)[r] = grant[r]
                           \/ grant[r].state = "open" /\ GrantsRevoked(Grants)[r].state = "revoked"
      /\ \A r \in Grants : GrantsRevoked(Grants)[r].state # "open"
  BY <1>1, RevokedGrants, ConstantsAssumption
<1>8. /\ grant' \in [Grants -> Grant]
      /\ \A r \in Grants : \/ grant'[r] = grant[r]
                           \/ grant[r].state = "open" /\ grant'[r].state = "revoked"
      /\ g = job.version => \A r \in Grants : grant'[r].state \notin {"open", "issuing"}
  BY <1>1, <1>2, <1>5, <1>7 DEF Issuing
<1>9. Issuing' => Issuing
  BY <1>8 DEF Issuing
<1>10. TypeOK'
  BY <1>2, <1>3, <1>5, <1>6, <1>8, TouchedIsOrder DEF IInv, TypeOK
<1>11. JobInv'
  BY <1>2, <1>5, <1>6 DEF IInv, JobInv, Leased
<1>12. \A h \in Gens : ArtifactInv(h)'
  <2> SUFFICES ASSUME NEW h \in Gens PROVE ArtifactInv(h)'
    OBVIOUS
  <2>1. ArtifactInv(h) /\ ArtifactInv(g)
    BY <1>2 DEF IInv
  <2> QED
    BY <1>2, <1>5, <1>6, <2>1 DEF ArtifactInv
<1>13. ASSUME NEW u \in Workers PROVE WorkerInv(u)'
  <2>1. CASE u = w
    BY <1>2, <1>3, <1>4, <1>6, <2>1 DEF WorkerInv, Linked, Writing
  <2>2. CASE u # w
    <3>1. worker'[u] = worker[u] /\ WorkerInv(u) /\ AloneInv(u, w)
      BY <1>4, <2>2 DEF IInv
    <3>2. /\ worker[u].phase = "publishing" => worker[u].gen # g
          /\ worker[u].phase = "marking" => worker[u].key # g
      BY <1>1, <2>2, <3>1 DEF AloneInv, g
    <3>3. worker[u].phase = "begin" => worker[u].gen # g
      BY <1>2, <3>1 DEF WorkerInv
    <3>4. worker[u].phase \in Linked /\ artifact'[worker[u].gen] = "STAGING"
            => artifact[worker[u].gen] = "STAGING"
      BY <1>6, <3>1 DEF WorkerInv, Linked, Writing
    <3>5. worker[u].phase \in {"begin", "publishing"} => worker[u].gen \in Gens
      BY <3>1 DEF WorkerInv, Writing
    <3> QED
      BY <1>5, <1>6, <1>9, <3>1, <3>2, <3>3, <3>4, <3>5 DEF WorkerInv
  <2> QED BY <2>1, <2>2
<1>14. \A u, v \in Workers : AloneInv(u, v)'
  <2>1. \A u \in Workers : AloneInv(u, w)' /\ AloneInv(w, u)'
    BY <1>3, StaysAlone
  <2> SUFFICES ASSUME NEW u \in Workers, NEW v \in Workers, u # w, v # w PROVE AloneInv(u, v)'
    BY <2>1
  <2> QED
    BY <1>4 DEF IInv, AloneInv
<1>15. ASSUME NEW r \in Grants PROVE GrantInv(r)'
  <2>1. GrantInv(r)
    BY DEF IInv
  <2>2. grant'[r].state \in {"issuing", "open"} => grant'[r] = grant[r] /\ g # job.version
    BY <1>8
  <2>3. grant'[r].state = "consumed" <=> grant[r].state = "consumed"
    BY <1>8
  <2>4. job.status = "SUCCEEDED" => job.version \in Gens
    BY DEF IInv, JobInv
  <2> QED
    BY <1>5, <1>6, <2>1, <2>2, <2>3, <2>4 DEF GrantInv
<1>16. \A d \in Downloads : DownloadInv(d)'
  BY <1>5 DEF IInv, DownloadInv
<1> QED
  BY <1>10, <1>11, <1>12, <1>13, <1>14, <1>15, <1>16 DEF IInv

\* The files of a key go while its artifact is given up.
LEMMA RemoveFileKeeps ==
  ASSUME IInv, NEW w \in Workers, RemoveFile(w)
  PROVE  IInv'
<1> DEFINE g == worker[w].key
           s == [worker[w] EXCEPT !.step = @ + 1]
<1>1. /\ worker \in [Workers -> WorkerState] /\ worker[w] \in WorkerState
      /\ files \in [Gens -> SUBSET Suffixes] /\ job \in Job /\ faults \in 0..MaxFaults
      /\ WorkerInv(w) /\ worker[w].phase = "remove" /\ worker[w].step <= 3
  BY DEF IInv, TypeOK, RemoveFile
<1>2. g \in Gens /\ artifact[g] \in {"RECLAIMING", "RECLAIMED"} /\ worker[w].gen = 0
  BY <1>1 DEF WorkerInv
<1>3. /\ s \in WorkerState /\ s.phase = "remove" /\ s.key = g /\ s.gen = 0
      /\ worker' = [worker EXCEPT ![w] = s]
  <2>1. worker[w].step + 1 \in 1..4
    BY <1>1 DEF WorkerState
  <2> QED
    BY <1>1, <1>2, <2>1 DEF WorkerState, RemoveFile
<1> HIDE DEF s
<1>4. worker'[w] = s
  BY <1>1, <1>3
<1>5. /\ files' = [files EXCEPT ![g] = files[g] \ {SuffixAt[worker[w].step]}]
      /\ UNCHANGED <<job, expired, artifact, age, grant, download, streams, faults>>
  BY <1>1, <1>2 DEF RemoveFile
<1>6. /\ files' \in [Gens -> SUBSET Suffixes]
      /\ \A h \in Gens : h # g => files'[h] = files[h]
  <2>1. files[g] \ {SuffixAt[worker[w].step]} \in SUBSET Suffixes
    BY <1>1, <1>2
  <2> QED BY <1>1, <1>2, <1>5, <2>1
<1>7. WorkerInv(w)'
  BY <1>2, <1>3, <1>4, <1>5 DEF WorkerInv, Writing, Linked
<1>8. \A u \in Workers : AloneInv(u, w)' /\ AloneInv(w, u)'
  BY <1>3, StaysAlone
<1>9. \A h \in Gens : artifact[h] \in {"STAGING", "PUBLISHED"} /\ "zip" \in files[h]
        => "zip" \in files'[h]
  BY <1>2, <1>6
<1> QED
  BY <1>1, <1>3, <1>5, <1>6, <1>7, <1>8, <1>9, MoveKeeps

\* The end of a reclaim changes what nobody relies on any more.
LEMMA FinishKeeps ==
  ASSUME IInv, NEW w \in Workers, FinishReclaim(w) \/ RemovalFails(w)
  PROVE  IInv'
<1> DEFINE g == worker[w].key
           s == [worker[w] EXCEPT !.phase = "sweep", !.key = 0, !.step = 1]
<1>1. /\ worker \in [Workers -> WorkerState] /\ worker[w] \in WorkerState
      /\ artifact \in [Gens -> ArtifactStates] /\ job.version \in Nat
      /\ WorkerInv(w) /\ worker[w].phase = "remove" /\ MaxGen \in Nat /\ MaxFaults \in Nat
  BY ConstantsAssumption DEF IInv, TypeOK, FinishReclaim, RemovalFails, Job
<1>2. g \in Gens /\ artifact[g] \in {"RECLAIMING", "RECLAIMED"} /\ worker[w].gen = 0
  BY <1>1 DEF WorkerInv
<1>3. /\ s \in WorkerState /\ s.phase = "sweep" /\ s.gen = 0
      /\ worker' = [worker EXCEPT ![w] = s]
  <2>1. worker' = [worker EXCEPT ![w] = s]
    BY DEF FinishReclaim, RemovalFails, NextInSweep
  <2>2. "sweep" \in Phases /\ 0 \in 0..MaxGen /\ 1 \in 1..4
    BY <1>1 DEF Phases
  <2> QED
    BY <1>1, <1>2, <2>1, <2>2 DEF WorkerState
<1> HIDE DEF s
<1>4. worker'[w] = s /\ \A u \in Workers : u # w => worker'[u] = worker[u]
  BY <1>1, <1>3
<1>5. /\ artifact' \in [Gens -> ArtifactStates]
      /\ \A h \in Gens : artifact'[h] = artifact[h]
           \/ (artifact[h] = "RECLAIMING" /\ artifact'[h] = "RECLAIMED")
      /\ \A h \in Gens : h # g => artifact'[h] = artifact[h]
      /\ UNCHANGED <<job, expired, files, grant, download, streams>>
  <2>1. CASE FinishReclaim(w)
    <3>1. artifact' = [artifact EXCEPT ![g] = IF artifact[g] = "RECLAIMING" THEN "RECLAIMED"
                                              ELSE artifact[g]]
      BY <1>1, <1>2, <2>1 DEF FinishReclaim
    <3> QED
      BY <1>1, <1>2, <2>1, <3>1 DEF FinishReclaim, ArtifactStates
  <2>2. CASE RemovalFails(w)
    BY <1>1, <2>2 DEF RemovalFails
  <2> QED BY <2>1, <2>2
<1>6. /\ age' \in [Gens -> Gens] /\ \A h, k \in Gens : age'[h] = age'[k] => h = k
      /\ faults' \in 0..MaxFaults
  <2>1. CASE FinishReclaim(w)
    BY <2>1 DEF FinishReclaim, IInv, TypeOK
  <2>2. CASE RemovalFails(w)
    <3>1. age' = Touched(g) /\ faults' \in 0..MaxFaults
      BY <1>1, <2>2 DEF RemovalFails, IInv, TypeOK
    <3> QED
      BY <1>2, <3>1, TouchedIsOrder DEF IInv
  <2> QED BY <2>1, <2>2
<1>7. ~LockedExclusively(g)
  BY DEF FinishReclaim, RemovalFails
<1> HIDE DEF g
<1>8. TypeOK'
  BY <1>3, <1>5, <1>6 DEF IInv, TypeOK
<1>9. JobInv'
  BY <1>5 DEF IInv, JobInv
<1>10. \A h \in Gens : ArtifactInv(h)'
  BY <1>5 DEF IInv, ArtifactInv
<1>11. ASSUME NEW u \in Workers PROVE WorkerInv(u)'
  <2>1. CASE u = w
    BY <1>3, <1>4, <2>1 DEF WorkerInv, Linked, Writing
  <2>2. CASE u # w
    <3>1. worker'[u] = worker[u] /\ WorkerInv(u)
      BY <1>4, <2>2 DEF IInv
    <3>2. worker[u].phase = "marking" => worker[u].key # g
      BY <1>7 DEF LockedExclusively
    <3>3. worker[u].phase \in Linked \cup {"begin"} => worker[u].gen \in Gens
      BY <3>1 DEF WorkerInv, Linked, Writing
    <3> QED
      BY <1>5, <3>1, <3>2, <3>3 DEF WorkerInv, Issuing, Linked
  <2> QED BY <2>1, <2>2
<1>12. \A u, v \in Workers : AloneInv(u, v)'
  <2>1. \A u \in Workers : AloneInv(u, w)' /\ AloneInv(w, u)'
    BY <1>3, StaysAlone
  <2> SUFFICES ASSUME NEW u \in Workers, NEW v \in Workers, u # w, v # w PROVE AloneInv(u, v)'
    BY <2>1
  <2> QED
    BY <1>4 DEF IInv, AloneInv
<1>13. /\ \A r \in Grants : GrantInv(r)'
       /\ \A d \in Downloads : DownloadInv(d)'
  BY <1>5 DEF IInv, GrantInv, DownloadInv, JobInv
<1> QED
  BY <1>8, <1>9, <1>10, <1>11, <1>12, <1>13 DEF IInv

\* Issuing, revoking, running out.
LEMMA GrantingKeeps ==
  ASSUME IInv, RevokeGrants \/ \E r \in Grants : Granting(r)
  PROVE  IInv'
<1>1. /\ grant \in [Grants -> Grant] /\ download \in [Downloads -> Download]
      /\ streams \in [Grants -> Nat] /\ None \notin Grants
  BY ConstantsAssumption DEF IInv, TypeOK
<1>2. UNCHANGED <<job, expired, artifact, age, files, worker, download, streams, faults>>
  BY DEF RevokeGrants, Granting, IssueBegin, IssueCommit, IssueFails, GrantRunsOut,
         ReservationRunsOut
<1>3. \A d \in Downloads : DownloadInv(d)'
  BY <1>2 DEF IInv, DownloadInv
<1> DEFINE Kept == \A q \in Grants : \/ grant'[q].state = grant[q].state
                                     \/ /\ grant'[q].state \notin {"issuing", "consumed"}
                                        /\ grant'[q].state = "open" => grant[q].state = "issuing"
                                        /\ grant[q].state # "consumed"
<1>4. ASSUME Kept, grant' \in [Grants -> Grant] PROVE IInv'
  <2>1. \A q \in Grants : GrantInv(q)'
    BY <1>2, <1>4 DEF IInv, GrantInv
  <2>2. Issuing' => Issuing
    BY <1>4 DEF Issuing
  <2> QED
    BY <1>1, <1>2, <1>3, <1>4, <2>1, <2>2, GrantsKeep
<1>5. CASE RevokeGrants
  BY <1>1, <1>4, <1>5, RevokedGrants DEF RevokeGrants
<1>6. ASSUME NEW r \in Grants, IssueBegin(r) PROVE IInv'
  <2> DEFINE q == [grant[r] EXCEPT !.state = "issuing",
                                   !.replaces = {p \in Grants : grant[p].state = "open"}]
  <2>1. grant[r] \in Grant /\ {p \in Grants : grant[p].state = "open"} \in SUBSET Grants
    BY <1>1
  <2>2. q \in Grant /\ q.state = "issuing"
    BY <2>1 DEF Grant
  <2>3. grant' = [grant EXCEPT ![r] = q]
    BY <1>6 DEF IssueBegin
  <2> HIDE DEF q
  <2>4. grant' \in [Grants -> Grant] /\ \A p \in Grants : p # r => grant'[p] = grant[p]
    BY <1>1, <2>2, <2>3
  <2>5. /\ job.status = "SUCCEEDED" /\ artifact[job.version] = "PUBLISHED"
        /\ ~LockedExclusively(job.version) /\ grant[r].state = "none"
    BY <1>6 DEF IssueBegin, RequirePublished, Offered, Package
  <2>6. \A p \in Grants : GrantInv(p)'
    BY <1>1, <1>2, <2>2, <2>3, <2>4, <2>5 DEF IInv, GrantInv
  <2> QED
    BY <1>1, <1>2, <1>3, <2>4, <2>5, <2>6, GrantsKeep
<1>7. ASSUME NEW r \in Grants, IssueCommit(r) PROVE IInv'
  <2> DEFINE q == [NoGrant EXCEPT !.state = "open"]
             G == GrantsRevoked(grant[r].replaces)
  <2>1. q \in Grant /\ q.state = "open"
    BY DEF NoGrant, Grant
  <2>2. /\ G \in [Grants -> Grant]
        /\ \A p \in Grants : G[p] = grant[p] \/ (grant[p].state = "open" /\ G[p].state = "revoked")
    BY <1>1, RevokedGrants
  <2>3. grant' = [G EXCEPT ![r] = q] /\ grant[r].state = "issuing"
    BY <1>7 DEF IssueCommit
  <2> HIDE DEF q, G
  <2>4. grant' \in [Grants -> Grant] /\ grant'[r] = q
        /\ \A p \in Grants : p # r => grant'[p] = G[p]
    BY <2>1, <2>2, <2>3
  <2>5. Kept
    BY <2>1, <2>2, <2>3, <2>4
  <2> QED
    BY <1>4, <2>4, <2>5
<1>8. ASSUME NEW r \in Grants, IssueFails(r) PROVE IInv'
  <2>1. NoGrant \in Grant /\ NoGrant.state = "none"
    BY DEF NoGrant, Grant
  <2>2. grant' = [grant EXCEPT ![r] = NoGrant] /\ grant[r].state = "issuing"
    BY <1>8 DEF IssueFails
  <2>3. grant' \in [Grants -> Grant] /\ Kept
    BY <1>1, <2>1, <2>2
  <2> QED
    BY <1>4, <2>3
<1>9. ASSUME NEW r \in Grants, GrantRunsOut(r) \/ ReservationRunsOut(r) PROVE IInv'
  <2>1. grant[r] \in Grant
    BY <1>1
  <2>2. PICK f \in BOOLEAN :
          grant' = [grant EXCEPT ![r] = [grant[r] EXCEPT !.fresh = f, !.reserved = FALSE]]
    <3>1. CASE GrantRunsOut(r)
      BY <3>1 DEF GrantRunsOut
    <3>2. CASE ReservationRunsOut(r)
      <4>1. grant[r].fresh \in BOOLEAN
        BY <2>1 DEF Grant
      <4>2. [grant[r] EXCEPT !.reserved = FALSE]
              = [grant[r] EXCEPT !.fresh = grant[r].fresh, !.reserved = FALSE]
        BY <2>1 DEF Grant
      <4> QED
        BY <3>2, <4>1, <4>2 DEF ReservationRunsOut
    <3> QED BY <1>9, <3>1, <3>2
  <2> DEFINE q == [grant[r] EXCEPT !.fresh = f, !.reserved = FALSE]
  <2>3. q \in Grant /\ q.state = grant[r].state
    BY <2>1 DEF Grant
  <2> HIDE DEF q
  <2>4. grant' = [grant EXCEPT ![r] = q]
    BY <2>2 DEF q
  <2>5. grant' \in [Grants -> Grant] /\ Kept
    BY <1>1, <2>3, <2>4
  <2> QED
    BY <1>4, <2>5
<1> QED
  BY <1>5, <1>6, <1>7, <1>8, <1>9 DEF Granting

\* A download takes, uses or releases a reservation; only a consumption starts a stream.
LEMMA DownloadingKeeps ==
  ASSUME IInv, NEW d \in Downloads, Downloading(d)
  PROVE  IInv'
<1>1. /\ grant \in [Grants -> Grant] /\ download \in [Downloads -> Download]
      /\ download[d] \in Download
      /\ streams \in [Grants -> Nat] /\ None \notin Grants
  BY ConstantsAssumption DEF IInv, TypeOK
<1>2. UNCHANGED <<job, expired, artifact, age, files, worker, faults>>
  BY DEF Downloading, Reserve, OpenArchive, Consume, DownloadFails
<1> DEFINE r == download[d].grant
<1>3. download[d].phase # "idle" => r \in Grants
  BY <1>1 DEF IInv, DownloadInv, Download
<1>4. ASSUME NEW b \in Download, download' = [download EXCEPT ![d] = b],
             b.phase # "idle", b.grant # None
      PROVE  /\ download' \in [Downloads -> Download]
             /\ \A e \in Downloads : DownloadInv(e)'
  BY <1>1, <1>4 DEF IInv, DownloadInv
<1>5. ASSUME NEW p \in {"opened", "done"}
      PROVE  /\ [download[d] EXCEPT !.phase = p] \in Download
             /\ [download[d] EXCEPT !.phase = p].phase # "idle"
             /\ [download[d] EXCEPT !.phase = p].grant = r
  BY <1>1, <1>5 DEF Download
<1>6. ASSUME NEW k \in Grants, NEW q \in Grant, grant' = [grant EXCEPT ![k] = q],
             q.state = grant[k].state, UNCHANGED streams
      PROVE  /\ grant' \in [Grants -> Grant] /\ streams' \in [Grants -> Nat]
             /\ \A e \in Grants : GrantInv(e)'
             /\ Issuing' => Issuing
  <2>1. /\ grant' \in [Grants -> Grant]
        /\ \A e \in Grants : grant'[e].state = grant[e].state
    BY <1>1, <1>6
  <2> QED
    BY <1>1, <1>2, <1>6, <2>1 DEF IInv, GrantInv, Issuing
<1>7. ASSUME NEW k \in Grants, Reserve(d, k) PROVE IInv'
  <2> DEFINE q == [grant[k] EXCEPT !.reservation = d, !.reserved = TRUE]
             b == [phase |-> "reserved", grant |-> k]
  <2>1. grant[k] \in Grant
    BY <1>1
  <2>2. q \in Grant /\ q.state = grant[k].state
    BY <2>1 DEF Grant
  <2>3. b \in Download /\ b.phase # "idle" /\ b.grant # None
    BY <1>1 DEF Download
  <2>4. /\ grant' = [grant EXCEPT ![k] = q] /\ download' = [download EXCEPT ![d] = b]
        /\ UNCHANGED streams
    BY <1>7 DEF Reserve
  <2> HIDE DEF q, b
  <2> QED
    BY <1>2, <1>4, <1>6, <2>2, <2>3, <2>4, GrantsKeep
<1>8. CASE OpenArchive(d)
  <2> DEFINE b == [download[d] EXCEPT !.phase = "opened"]
  <2>1. b \in Download /\ b.phase # "idle" /\ b.grant # None
    BY <1>1, <1>3, <1>5, <1>8 DEF OpenArchive
  <2>2. download' = [download EXCEPT ![d] = b] /\ UNCHANGED <<grant, streams>>
    BY <1>8 DEF OpenArchive
  <2> HIDE DEF b
  <2>3. /\ \A e \in Grants : GrantInv(e)'
        /\ Issuing' => Issuing
    BY <1>2, <2>2 DEF IInv, GrantInv, Issuing
  <2> QED
    BY <1>1, <1>2, <1>4, <2>1, <2>2, <2>3, GrantsKeep
<1>9. CASE Consume(d)
  <2> DEFINE q == [grant[r] EXCEPT !.state = "consumed", !.reservation = None, !.reserved = FALSE]
             b == [download[d] EXCEPT !.phase = "done"]
  <2>1. /\ r \in Grants /\ grant[r] \in Grant /\ grant[r].state = "open"
        /\ b \in Download /\ b.phase # "idle" /\ b.grant # None
    BY <1>1, <1>3, <1>5, <1>9 DEF Consume, Redeemable
  <2>2. q \in Grant /\ q.state = "consumed"
    BY <2>1 DEF Grant
  <2>3. /\ grant' = [grant EXCEPT ![r] = q]
        /\ download' = [download EXCEPT ![d] = b]
        /\ streams' = [streams EXCEPT ![r] = streams[r] + 1]
    BY <1>1, <1>9, <2>1 DEF Consume
  <2> HIDE DEF q, b
  <2>4. PICK k \in Grants : k = r
    BY <2>1
  <2>5. GrantInv(k)
    BY DEF IInv
  <2>6. /\ grant' \in [Grants -> Grant] /\ grant'[k] = q
        /\ streams' \in [Grants -> Nat] /\ streams'[k] = streams[k] + 1
        /\ \A e \in Grants : e # k => grant'[e] = grant[e] /\ streams'[e] = streams[e]
    BY <1>1, <2>2, <2>3, <2>4
  <2>7. \A e \in Grants : GrantInv(e)'
    BY <1>2, <2>1, <2>2, <2>4, <2>5, <2>6 DEF IInv, GrantInv
  <2>8. Issuing' => Issuing
    BY <2>2, <2>6 DEF Issuing
  <2> QED
    BY <1>2, <1>4, <2>1, <2>3, <2>6, <2>7, <2>8, GrantsKeep
<1>10. CASE DownloadFails(d)
  <2> DEFINE b == [download[d] EXCEPT !.phase = "done"]
  <2>1. b \in Download /\ b.phase # "idle" /\ b.grant # None
    BY <1>1, <1>3, <1>5, <1>10 DEF DownloadFails
  <2>2. download' = [download EXCEPT ![d] = b] /\ UNCHANGED streams
    BY <1>10 DEF DownloadFails
  <2> HIDE DEF b
  <2>3. CASE UNCHANGED grant
    <3>1. /\ \A e \in Grants : GrantInv(e)'
          /\ Issuing' => Issuing
      BY <1>2, <2>2, <2>3 DEF IInv, GrantInv, Issuing
    <3> QED
      BY <1>1, <1>2, <1>4, <2>1, <2>2, <2>3, <3>1, GrantsKeep
  <2>4. CASE grant' = [grant EXCEPT ![r].reservation = None, ![r].reserved = FALSE]
    <3> DEFINE q == [grant[r] EXCEPT !.reservation = None, !.reserved = FALSE]
    <3>1. r \in Grants
      BY <1>3, <1>10 DEF DownloadFails
    <3>2. PICK k \in Grants : k = r
      BY <3>1
    <3>3. q \in Grant /\ q.state = grant[k].state
      <4>1. grant[k] \in Grant
        BY <1>1
      <4> QED BY <3>2, <4>1 DEF Grant
    <3>4. grant' = [grant EXCEPT ![k] = q]
      BY <2>4, <3>2
    <3> HIDE DEF q
    <3> QED
      BY <1>2, <1>4, <1>6, <2>1, <2>2, <3>3, <3>4, GrantsKeep
  <2> QED
    BY <1>10, <2>3, <2>4 DEF DownloadFails
<1> QED
  BY <1>7, <1>8, <1>9, <1>10 DEF Downloading

\* Every step of the system keeps the invariant.
LEMMA NextKeeps == IInv /\ [Next]_vars => IInv'
<1> SUFFICES ASSUME IInv, [Next]_vars PROVE IInv'
  OBVIOUS
<1>1. CASE UNCHANGED vars
  BY <1>1 DEF vars, IInv, TypeOK, JobInv, ArtifactInv, WorkerInv, AloneInv, GrantInv, DownloadInv,
     Issuing
<1>2. CASE Queue
  BY <1>2, QueueKeeps
<1>3. ASSUME NEW w \in Workers, Writer(w) PROVE IInv'
  BY <1>3, ClaimKeeps, BeginKeeps, WriteFileKeeps, BeatKeeps, PublishBeginKeeps, PublishKeeps,
     StopKeeps DEF Writer
<1>4. ASSUME NEW w \in Workers, Sweep(w) \/ Maintenance(w) PROVE IInv'
  BY <1>4, SweepKeeps, ConsiderKeeps, StopKeeps, MarkReclaimingKeeps, RemoveFileKeeps, FinishKeeps
     DEF Maintenance
<1>5. CASE RevokeGrants \/ \E r \in Grants : Granting(r)
  BY <1>5, GrantingKeeps
<1>6. ASSUME NEW d \in Downloads, Downloading(d) PROVE IInv'
  BY <1>6, DownloadingKeeps
<1> QED
  BY <1>1, <1>2, <1>3, <1>4, <1>5, <1>6 DEF Next

\* The locks, the leases and the grants agree with what is on disk, always.
THEOREM Invariance == Spec => []IInv
<1>1. Init => IInv
  <2> SUFFICES ASSUME Init PROVE IInv
    OBVIOUS
  <2>1. MaxGen \in Nat \ {0} /\ MaxFaults \in Nat /\ None \notin Grants
    BY ConstantsAssumption
  <2>2. Idle \in WorkerState /\ Idle.phase = "poll" /\ Idle.gen = 0
    BY <2>1 DEF Idle, WorkerState, Phases
  <2>3. NoGrant \in Grant /\ NoGrant.state = "none"
    BY DEF NoGrant, Grant
  <2>4. TypeOK
    <3>1. job \in Job
      BY <2>1 DEF Init, Job
    <3>2. download \in [Downloads -> Download]
      BY DEF Init, Download
    <3>3. /\ artifact \in [Gens -> ArtifactStates] /\ files \in [Gens -> SUBSET Suffixes]
          /\ age \in [Gens -> Gens] /\ \A g, h \in Gens : age[g] = age[h] => g = h
      BY DEF Init, ArtifactStates
    <3>4. /\ worker \in [Workers -> WorkerState] /\ grant \in [Grants -> Grant]
      BY <2>2, <2>3 DEF Init
    <3>5. streams \in [Grants -> Nat] /\ expired \in BOOLEAN
      BY DEF Init
    <3>6. faults \in 0..MaxFaults
      BY <2>1 DEF Init
    <3> QED
      BY <3>1, <3>2, <3>3, <3>4, <3>5, <3>6 DEF TypeOK
  <2>5. JobInv /\ \A g \in Gens : ArtifactInv(g)
    BY DEF Init, JobInv, ArtifactInv, Leased
  <2>6. \A w \in Workers : WorkerInv(w)
    BY <2>2 DEF Init, WorkerInv, Writing, Linked
  <2>7. \A u, v \in Workers : AloneInv(u, v)
    BY <2>2 DEF Init, AloneInv
  <2>8. /\ \A r \in Grants : GrantInv(r)
        /\ \A d \in Downloads : DownloadInv(d)
    BY <2>3 DEF Init, GrantInv, DownloadInv
  <2> QED
    BY <2>4, <2>5, <2>6, <2>7, <2>8 DEF IInv
<1> QED
  BY <1>1, NextKeeps, PTL DEF Spec

\* Every variable has its type.
THEOREM TypeCorrect == Spec => []TypeOK
<1>1. IInv => TypeOK
  BY DEF IInv
<1> QED
  BY <1>1, Invariance, PTL

\* A package that is withdrawn has no grant that could still start a download, nor one
\* that is being issued (beginDataExportReclaim against issueDataExportDownloadGrant).
THEOREM NoGrantOutlivesPackageHolds == Spec => []NoGrantOutlivesPackage
<1>1. IInv => NoGrantOutlivesPackage
  BY DEF IInv, GrantInv, NoGrantOutlivesPackage, Package
<1> QED
  BY <1>1, Invariance, PTL

-----------------------------------------------------------------------------
(* What a download may do                                                  *)

\* Who starts a stream: a request that consumes the open grant it has reserved.
LEMMA WhoStreams ==
  ASSUME IInv, Next, NEW r \in Grants, streams'[r] # streams[r]
  PROVE  /\ \E d \in Downloads : Consume(d) /\ download[d].grant = r
         /\ grant[r].state = "open" /\ Offered
<1>1. streams \in [Grants -> Nat]
  BY DEF IInv, TypeOK
<1>2. PICK d \in Downloads : Consume(d)
  BY ZenonT(30) DEF Next, Queue, Expire, LeaseRunsOut, Cancel, Recover,
     Writer, Claim, Begin, CreatePart, CreateSpool, LinkArchive, UnlinkStaging, DropSpool,
     WriteFile, FinalRenew, BeatBegin, BeatEnd, PublishBegin, Publish, WriterFails, Settle, Crash,
     Sweep, Maintenance, Consider, SweepDone, MarkReclaiming, RemoveFile, FinishReclaim,
     RemovalFails, RevokeGrants, Granting, IssueBegin, IssueCommit, IssueFails,
     GrantRunsOut, ReservationRunsOut,
     Downloading, Reserve, OpenArchive, DownloadFails
<1>3. download[d].grant = r
  BY <1>1, <1>2 DEF Consume
<1> QED
  BY <1>2, <1>3 DEF Consume, Redeemable, RequirePublished

\* Once its grants are revoked, no download starts with them, even one that has the
\* archive open already (consumeDataExportDownload).
THEOREM RevokedStartsNothingHolds == Spec => RevokedStartsNothing
<1>1. IInv /\ [Next]_vars
        => [\A r \in Grants : grant[r].state = "revoked" => streams'[r] = streams[r]]_vars
  BY WhoStreams
<1> QED
  BY <1>1, Invariance, PTL DEF Spec, RevokedStartsNothing

\* A step of a request whose reservation was overtaken leaves the grant alone.
LEMMA FencedStep ==
  ASSUME IInv, Next, NEW d \in Downloads, NEW r \in Grants,
         download'[d] # download[d], download[d].grant = r, grant[r].reservation # d
  PROVE  grant'[r] = grant[r] /\ streams'[r] = streams[r]
<1>1. /\ download \in [Downloads -> Download] /\ None \notin Grants
      /\ download[d].phase # "idle"
  BY ConstantsAssumption DEF IInv, TypeOK, DownloadInv
<1>2. PICK e \in Downloads : Downloading(e)
  BY ZenonT(30) DEF Next, Queue, Expire, LeaseRunsOut, Cancel, Recover,
     Writer, Claim, Begin, CreatePart, CreateSpool, LinkArchive, UnlinkStaging, DropSpool,
     WriteFile, FinalRenew, BeatBegin, BeatEnd, PublishBegin, Publish, WriterFails, Settle, Crash,
     Sweep, Maintenance, Consider, SweepDone, MarkReclaiming, RemoveFile, FinishReclaim,
     RemovalFails, RevokeGrants, Granting, IssueBegin, IssueCommit, IssueFails,
     GrantRunsOut, ReservationRunsOut
<1>3. e = d
  BY <1>1, <1>2 DEF Downloading, Reserve, OpenArchive, Consume, DownloadFails
<1>4. ~Consume(d) /\ \A k \in Grants : ~Reserve(d, k)
  BY <1>1 DEF Consume, Reserve
<1> QED
  BY <1>2, <1>3, <1>4 DEF Downloading, OpenArchive, DownloadFails, HoldsReservation

\* A request whose reservation was overtaken neither starts a stream nor ends the
\* reservation of its successor (releaseDataExportDownload, consumeDataExportDownload).
THEOREM ReservationIsFencedHolds == Spec => ReservationIsFenced
<1>1. IInv /\ [Next]_vars
        => [\A d \in Downloads, r \in Grants :
              download'[d] # download[d] /\ download[d].grant = r /\ grant[r].reservation # d
                => grant'[r] = grant[r] /\ streams'[r] = streams[r]]_vars
  BY FencedStep
<1> QED
  BY <1>1, Invariance, PTL DEF Spec, ReservationIsFenced

-----------------------------------------------------------------------------
(* PackagePromise                                                          *)

\* What the requester sees of the package.
Stage == IF job.status # "SUCCEEDED" THEN "none"
         ELSE IF Offered THEN "offered" ELSE "withdrawn"

Copy == job.version > 0 /\ "zip" \in files[job.version]

\* What is offered is on disk.
LEMMA OfferedHasCopy ==
  ASSUME IInv, Stage = "offered"
  PROVE  Copy
<1>1. job.status = "SUCCEEDED" /\ artifact[job.version] = "PUBLISHED"
  BY DEF Stage, Offered, Package
<1>2. job.version \in Gens
  BY <1>1 DEF IInv, JobInv
<1> QED
  BY <1>1, <1>2 DEF IInv, ArtifactInv, Copy, Gens

\* ... also after a step.
LEMMA OfferedAfter ==
  ASSUME IInv', Stage' = "offered"
  PROVE  Copy'
<1>1. job'.status = "SUCCEEDED" /\ artifact'[job'.version] = "PUBLISHED"
  BY DEF Stage, Offered, Package
<1>2. job'.version \in Gens
  BY <1>1 DEF IInv, JobInv
<1> QED
  BY <1>1, <1>2 DEF IInv, ArtifactInv, Copy, Gens

\* A package is offered by its publication and withdrawn by its expiry; a reclaim comes
\* only when it is withdrawn already.
LEMMA WhoOffers ==
  ASSUME IInv, Next
  PROVE  Stage' = Stage \/ Expire \/ \E w \in Workers : Publish(w)
<1> DEFINE SameStage == /\ UNCHANGED <<artifact, expired>>
                        /\ job'.status = "SUCCEEDED" <=> job.status = "SUCCEEDED"
                        /\ job.status = "SUCCEEDED" => job'.version = job.version
<1>1. SameStage => Stage' = Stage
  BY DEF Stage, Offered, Package
<1>2. /\ job \in Job /\ artifact \in [Gens -> ArtifactStates]
      /\ \A status \in {"QUEUED", "ENDED"} :
            Released(status).version = job.version /\ Released(status).status = status
  BY ReleasedJob DEF IInv, TypeOK
<1>3. /\ [job EXCEPT !.live = FALSE].status = job.status
      /\ [job EXCEPT !.live = FALSE].version = job.version
      /\ [job EXCEPT !.live = TRUE].status = job.status
      /\ [job EXCEPT !.live = TRUE].version = job.version
      /\ [job EXCEPT !.status = "CANCEL_REQUESTED"].status = "CANCEL_REQUESTED"
  BY <1>2 DEF Job
<1>4. CASE LeaseRunsOut \/ Cancel \/ Recover
  BY <1>1, <1>2, <1>3, <1>4 DEF LeaseRunsOut, Cancel, Recover, Leased
<1>5. ASSUME NEW w \in Workers, Claim(w) \/ FinalRenew(w) \/ BeatEnd(w) \/ Settle(w)
      PROVE  Stage' = Stage
  <2>1. CASE Claim(w)
    BY <1>1, <2>1 DEF Claim
  <2>2. CASE FinalRenew(w) \/ BeatEnd(w)
    BY <1>1, <1>2, <1>3, <2>2 DEF FinalRenew, BeatEnd
  <2>3. CASE Settle(w)
    BY <1>1, <1>2, <2>3 DEF Settle, HoldsLease, Leased
  <2> QED BY <1>5, <2>1, <2>2, <2>3
<1>6. ASSUME NEW w \in Workers, Begin(w) PROVE Stage' = Stage
  BY <1>6 DEF Begin, Stage
<1>7. ASSUME NEW w \in Workers, MarkReclaiming(w) \/ FinishReclaim(w) PROVE Stage' = Stage
  <2> DEFINE g == worker[w].key
  <2>1. /\ UNCHANGED <<job, expired>>
        /\ g \in Gens /\ \A h \in Gens : h # g => artifact'[h] = artifact[h]
        /\ artifact'[g] # "PUBLISHED"
        /\ artifact[g] = "PUBLISHED" => expired
    <3>1. WorkerInv(w)
      BY DEF IInv
    <3>2. CASE MarkReclaiming(w)
      BY <1>2, <3>1, <3>2 DEF MarkReclaiming, WorkerInv
    <3>3. CASE FinishReclaim(w)
      BY <1>2, <3>1, <3>3 DEF FinishReclaim, WorkerInv
    <3> QED BY <1>7, <3>2, <3>3
  <2>2. job.status = "SUCCEEDED" => job.version \in Gens
    BY DEF IInv, JobInv
  <2>3. job.status = "SUCCEEDED" => Offered' = Offered
    BY <2>1, <2>2 DEF Offered, Package
  <2> QED
    BY <2>1, <2>3 DEF Stage
<1>8. UNCHANGED <<job, artifact, expired>> => Stage' = Stage
  BY <1>1
<1>9. ASSUME NEW w \in Workers, Writer(w) PROVE Stage' = Stage \/ Publish(w)
  <2>1. CASE CreatePart(w) \/ CreateSpool(w) \/ LinkArchive(w) \/ UnlinkStaging(w) \/ DropSpool(w)
    BY <2>1, <1>8 DEF CreatePart, CreateSpool, LinkArchive, UnlinkStaging, DropSpool, WriteFile
  <2>2. CASE BeatBegin(w) \/ PublishBegin(w) \/ WriterFails(w) \/ Crash(w)
    BY <2>2, <1>8 DEF BeatBegin, PublishBegin, WriterFails, Crash
  <2> QED BY <1>5, <1>6, <1>9, <2>1, <2>2 DEF Writer
<1>10. ASSUME NEW w \in Workers, Sweep(w) \/ Maintenance(w) PROVE Stage' = Stage
  <2>1. CASE Sweep(w) \/ Consider(w) \/ SweepDone(w) \/ RemoveFile(w) \/ RemovalFails(w)
    BY <2>1, <1>8 DEF Sweep, Consider, SweepDone, RemoveFile, RemovalFails
  <2> QED BY <1>7, <1>10, <2>1 DEF Maintenance
<1>11. ASSUME NEW r \in Grants, Granting(r) PROVE Stage' = Stage
  BY <1>8, <1>11 DEF Granting, IssueBegin, IssueCommit, IssueFails, GrantRunsOut,
     ReservationRunsOut
<1>12. ASSUME NEW d \in Downloads, Downloading(d) PROVE Stage' = Stage
  BY <1>8, <1>12 DEF Downloading, Reserve, OpenArchive, Consume, DownloadFails
<1>13. RevokeGrants => Stage' = Stage
  BY <1>8 DEF RevokeGrants
<1> QED
  BY <1>4, <1>9, <1>10, <1>11, <1>12, <1>13 DEF Next, Queue

\* The publishing commit offers a package that was never offered, with its copy.
LEMMA PublishOffers ==
  ASSUME IInv, NEW w \in Workers, Publish(w)
  PROVE  Stage = "none" /\ Copy /\ Stage' = "offered" /\ Copy' = Copy /\ streams' = streams
<1> DEFINE g == worker[w].gen
<1>1. /\ WorkerInv(w) /\ worker[w].phase = "publishing" /\ HoldsLease(g)
      /\ job \in Job /\ artifact \in [Gens -> ArtifactStates]
  BY DEF IInv, TypeOK, Publish
<1>2. /\ g \in Gens /\ job.version = g /\ artifact[g] = "STAGING" /\ "zip" \in files[g]
      /\ job.status \in Leased /\ ~expired
  BY <1>1 DEF WorkerInv, HoldsLease, Live, Linked
<1>3. job'.status = "SUCCEEDED" /\ job'.version = job.version
  BY ReleasedJob DEF Publish, IInv
<1>4. artifact'[g] = "PUBLISHED" /\ UNCHANGED <<expired, files, streams>>
  BY <1>1, <1>2 DEF Publish
<1> QED
  BY <1>2, <1>3, <1>4 DEF Stage, Copy, Offered, Package, Leased, Gens

\* A consumption is a download with a grant that has started none.
LEMMA ConsumeDownloads ==
  ASSUME IInv, NEW d \in Downloads, Consume(d)
  PROVE  /\ \E r \in Grants : streams[r] = 0 /\ streams' = [streams EXCEPT ![r] = 1]
         /\ Stage = "offered" /\ Stage' = Stage /\ Copy' = Copy
<1> DEFINE r == download[d].grant
<1>1. r \in Grants
  BY DEF IInv, TypeOK, DownloadInv, Download, Consume
<1>2. streams[r] = 0
  BY <1>1 DEF IInv, GrantInv, Consume, Redeemable
<1>3. streams' = [streams EXCEPT ![r] = 1]
  BY <1>1, <1>2 DEF Consume
<1>4. Offered /\ UNCHANGED <<job, artifact, expired, files>>
  BY DEF Consume, RequirePublished
<1> QED
  BY <1>1, <1>2, <1>3, <1>4 DEF Stage, Copy, Offered, Package

\* Every step keeps the promise or does not concern it.
LEMMA PromiseStep ==
  ASSUME IInv, IInv', [Next]_vars
  PROVE  [Promise!Next]_(Promise!vars)
<1> DEFINE Store == Stage # "offered" /\ Copy' \in BOOLEAN /\ Stage' = Stage /\ streams' = streams
           Offer == Stage = "none" /\ Copy /\ Stage' = "offered" /\ Copy' = Copy
                      /\ streams' = streams
           Withdraw == Stage = "offered" /\ Stage' = "withdrawn" /\ Copy' = Copy
                         /\ streams' = streams
           Load(r) == Stage = "offered" /\ streams[r] = 0 /\ streams' = [streams EXCEPT ![r] = 1]
                        /\ Stage' = Stage /\ Copy' = Copy
           Same == Stage' = Stage /\ Copy' = Copy /\ streams' = streams
<1>1. Store \/ Offer \/ Withdraw \/ (\E r \in Grants : Load(r)) \/ Same
        => [Promise!Next]_(Promise!vars)
  BY DEF Stage, Copy, Promise!Next, Promise!vars, Promise!Store, Promise!Offer, Promise!Withdraw,
         Promise!Download
<1>2. CASE UNCHANGED vars
  <2>1. Same
    BY <1>2 DEF vars, Stage, Copy, Offered, Package
  <2> QED BY <1>1, <2>1
<1>3. CASE Next /\ \E w \in Workers : Publish(w)
  <2>1. Offer
    BY <1>3, PublishOffers
  <2> QED BY <1>1, <2>1
<1>4. CASE Expire
  <2>1. /\ Copy' = Copy /\ streams' = streams
        /\ Stage' = IF Stage = "offered" THEN "withdrawn" ELSE Stage
    BY <1>4 DEF Expire, Stage, Copy, Offered, Package
  <2>2. Withdraw \/ Same
    BY <2>1
  <2> QED BY <1>1, <2>2
<1>5. CASE \E d \in Downloads : Consume(d)
  <2>1. \E r \in Grants : Load(r)
    BY <1>5, ConsumeDownloads
  <2> QED BY <1>1, <2>1
<1>6. CASE /\ Next /\ ~(\E w \in Workers : Publish(w)) /\ ~Expire
           /\ ~(\E d \in Downloads : Consume(d))
  <2>1. Stage' = Stage
    BY <1>6, WhoOffers
  <2>2. streams' = streams
    <3>1. \A r \in Grants : streams'[r] = streams[r]
      BY <1>6, WhoStreams
    <3> QED
      BY <3>1 DEF IInv, TypeOK
  <2>3. CASE Stage = "offered"
    <3>1. Copy /\ Copy'
      BY <2>1, <2>3, OfferedHasCopy, OfferedAfter
    <3>2. Copy' = Copy
      BY <3>1 DEF Copy
    <3> QED BY <1>1, <2>1, <2>2, <3>2
  <2>4. CASE Stage # "offered"
    <3>1. Copy' \in BOOLEAN
      BY DEF Copy
    <3> QED BY <1>1, <2>1, <2>2, <2>4, <3>1
  <2> QED BY <2>3, <2>4
<1> QED
  BY <1>2, <1>3, <1>4, <1>5, <1>6

\* Export implements PackagePromise: one package is offered at most once, its copy is on
\* disk as long as it is offered, and each grant starts at most one download.
THEOREM Implementation == Spec => KeepsPromise
<1>1. Init => Promise!Init
  BY DEF Init, Promise!Init
<1>2. IInv /\ IInv' /\ [Next]_vars => [Promise!Next]_(Promise!vars)
  BY PromiseStep
<1> QED
  BY <1>1, <1>2, Invariance, PTL DEF Spec, KeepsPromise, Promise!Spec
=============================================================================
