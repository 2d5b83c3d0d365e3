----------------------------- MODULE UpdateAgent -----------------------------
(***************************************************************************)
(* Updates of the installation: requests that an administrator files in    *)
(* the update center, the root agent that claims and answers them, and the *)
(* updater, which changes the running version, either as the agent's child *)
(* or on its own (the nightly timer, an operator's apply).  An operator may *)
(* stop all of them with a maintenance hold.                               *)
(*                                                                         *)
(* Three file locks order them: one agent at a time (its child inherits    *)
(* the lock and keeps it when the agent dies), the queue-control lock of    *)
(* admissions and holds, and the production-state lock of changes, which   *)
(* agent and child share through one open file.  A process may die between *)
(* any two steps.                                                          *)
(*                                                                         *)
(* There is one newer release: the installation runs release 0 or 1.  Time *)
(* is not counted: a request or a claim may run out at any moment.         *)
(***************************************************************************)
EXTENDS Naturals, FiniteSets

CONSTANTS
    Requests,
    Shapes,      \* Shapes[r]: what the administrator may file as r
    None,        \* no request
    MaxControls, \* bound: updates started by the timer or an operator, and his
                 \* holds and clears
    MaxFaults    \* bound: crashes and failing steps

Actions == {"check", "apply", "rollback", "set_auto_apply"}

ASSUME ConstantsAssumption ==
    /\ None \notin Requests
    /\ \A r \in Requests : Shapes[r] \subseteq [action: Actions, key: Nat] /\ Shapes[r] # {}
    /\ MaxControls \in Nat
    /\ MaxFaults \in Nat

VARIABLES
    request,    \* request[r]: the file, its claim, its decision
    fate,       \* fate[r]: what has been done to the installation for r
    agent,      \* memory of the agent
    updater,    \* updater[u]: memory of the agent's child and of the timer's updater
    lock,       \* the open file that holds the production-state lock
    abandoned,  \* a dead updater left a journal without terminal event
    hold,       \* last event of the maintenance stream
    drained,    \* drain has answered "drained" under this hold
    production, \* what runs
    bounds      \* controls and faults so far

vars == <<request, fate, agent, updater, lock, abandoned, hold, drained, production, bounds>>

-----------------------------------------------------------------------------
(* State                                                                   *)

\* AREAFORGE_IMAGE and APP_VERSION are two writes; record counts the update
\* records, the latest of which names the version a rollback returns to.
Production == [image: {0, 1}, version: {0, 1}, policy: BOOLEAN, record: Nat]

\* queued: in the request directory; bare: in a claim directory without
\* claim.json; claimed: with it; gone: cleaned up.
Places == {"unfiled", "queued", "bare", "claimed", "gone"}

Verdicts == {"none", "SUCCEEDED", "REJECTED", "NEEDS_RECONCILIATION"}

\* attempted: executionAttempted.  source: the request whose decision was
\* returned again (IDEMPOTENT_REPLAY).
Decision == [verdict: Verdicts, attempted: {"false", "true", "null"},
             source: Requests \cup {None}]

Undecided == [verdict |-> "none", attempted |-> "null", source |-> None]

\* bound: expectedBefore; since: the hold generation when it was filed;
\* told: the decision has been published as the status' last operation.
Request == [place: Places, action: Actions, key: Nat, bound: Production, since: Nat,
            decision: Decision, told: BOOLEAN]

Fates == {"none", "begun", "done", "undone"}

\* sweep: reconcile_stale_claims; made: the next request's file is moved;
\* process .. settle: process_claim; status, clean: publish_terminal_decision.
Points == {"off", "sweep", "made", "process", "compare", "await", "mutate",
           "settle", "status", "clean"}

AgentState == [at: Points, req: Requests \cup {None}, todo: SUBSET Requests, active: BOOLEAN]

Off == [at |-> "off", req |-> None, todo |-> {}, active |-> FALSE]

Updaters == {"child", "own"}

Phases == {"off", "admit", "lock", "verify", "begin", "prepare", "switch", "version",
           "health", "record", "terminal", "restore", "revert", "rerecord", "note", "publish"}

\* An operation has begun and has not ended.
Acting == {"prepare", "switch", "version", "health", "record", "terminal", "restore",
           "revert", "rerecord"}

\* What the output of a child shows: refused by the guard, nothing, execution
\* without an end, one of the three ends.
Evidence == {"none", "refused", "silent", "begun", "applied", "rolled_back", "uncertain"}

\* journal: this updater's operation has events and no terminal one.
UpdaterState == [at: Phases, req: Requests \cup {None}, journal: BOOLEAN,
                 migrated: BOOLEAN, out: Evidence]

Idle == [at |-> "off", req |-> None, journal |-> FALSE, migrated |-> FALSE, out |-> "none"]

Hold == [kind: {"null", "hold", "clear"}, generation: Nat]

Bounds == [controls: 0 .. MaxControls, faults: 0 .. MaxFaults]

InClaim(r) == request[r].place \in {"bare", "claimed"}

Decided(r) == request[r].decision.verdict # "none"

Uncertain(r) == request[r].decision.verdict = "NEEDS_RECONCILIATION"

Req == agent.req

Goto(p) == agent' = [agent EXCEPT !.at = p]

Fault == /\ bounds.faults < MaxFaults
         /\ bounds' = [bounds EXCEPT !.faults = @ + 1]

-----------------------------------------------------------------------------
(* Locks, holds and journals                                               *)

\* Seeded bug: the updater gives queue-control back before it has the other lock.
QueueControlFreeEarly == agent.at \notin {"sweep", "made"}

\* maintenance_acquire_queue_control succeeds: neither a sweeping agent nor an
\* updater that waits for the production-state lock holds it.
QueueControlFree == /\ agent.at \notin {"sweep", "made"}
                    /\ updater["own"].at # "lock"

\* journal_scan_all: every operation has ended.  The journal of an updater at
\* work is no different from that of a dead one.
ScanClean == ~abandoned /\ \A u \in Updaters : ~updater[u].journal

HoldActive == hold.kind = "hold"

\* maintenance_publish_hold: nothing if there is one.
Published == IF HoldActive THEN hold
             ELSE [kind |-> "hold", generation |-> hold.generation + 1]

\* The fail-closed hold of an updater: not if queue-control stays busy.
FailClosed == \/ QueueControlFree /\ hold' = Published
              \/ ~QueueControlFree /\ UNCHANGED hold

-----------------------------------------------------------------------------
(* The update center and the operator                                      *)

\* createUpdateRequest: the file is bound to the published status; a status that
\* is out of date is a request that was filed earlier.
File(r) ==
    /\ request[r].place = "unfiled"
    /\ \E s \in Shapes[r] :
          /\ s.action = "apply" => production.image = 0 /\ production.version = 0
          /\ s.action = "rollback" => production.record > 0
          /\ request' = [request EXCEPT ![r] =
                [@ EXCEPT !.place = "queued", !.action = s.action, !.key = s.key,
                          !.bound = production, !.since = hold.generation]]
    /\ UNCHANGED <<fate, agent, updater, lock, abandoned, hold, drained, production, bounds>>

Controlled == /\ bounds.controls < MaxControls
              /\ bounds' = [bounds EXCEPT !.controls = @ + 1]

Control == /\ Controlled
           /\ QueueControlFree
           /\ UNCHANGED <<request, fate, agent, updater, lock, abandoned, production>>

PublishHold == /\ ~HoldActive
               /\ hold' = Published
               /\ UNCHANGED drained
               /\ Control

\* maintenance_clear_hold: names the hold it has read, and wants a clean scan.
ClearHold == /\ HoldActive
             /\ ScanClean
             /\ hold' = [kind |-> "clear", generation |-> hold.generation + 1]
             /\ drained' = FALSE
             /\ Control

\* maintenance_drain_status under the queue-control lock
Quiet == /\ HoldActive
         /\ \A r \in Requests : ~InClaim(r)
         /\ lock = "free"

Drain == /\ QueueControlFree
         /\ Quiet
         /\ ~drained
         /\ drained' = TRUE
         /\ UNCHANGED <<request, fate, agent, updater, lock, abandoned, hold, production, bounds>>

-----------------------------------------------------------------------------
(* The agent: admission, left-over claims, the next claim                  *)

\* main up to reconcile_stale_claims.  The child of a dead agent still holds
\* the single-instance lock.
Admit ==
    /\ agent.at = "off"
    /\ updater["child"].at = "off"
    /\ QueueControlFree
    /\ ~HoldActive
    /\ \/ /\ ~ScanClean
          /\ hold' = Published
          /\ UNCHANGED agent
       \/ /\ ScanClean
          /\ agent' = [Off EXCEPT !.at = "sweep", !.todo = {r \in Requests : InClaim(r)}]
          /\ UNCHANGED hold
    /\ UNCHANGED <<request, fate, updater, lock, abandoned, drained, production, bounds>>

Swept(r, active) ==
    agent' = [agent EXCEPT !.todo = @ \ {r}, !.active = @ \/ active]

AfterSweep == UNCHANGED <<fate, updater, lock, abandoned, hold, drained, production, bounds>>

\* A claim that is decided is published again; if nothing is left to
\* reconcile it is cleaned up.
Republish(r) ==
    /\ agent.at = "sweep" /\ r \in agent.todo
    /\ Decided(r)
    /\ request' = [request EXCEPT ![r].told = TRUE,
                                  ![r].place = IF Uncertain(r) THEN @ ELSE "gone"]
    /\ Swept(r, Uncertain(r))
    /\ AfterSweep

\* A claim that may still be at work is left alone.
LeaveClaim(r) ==
    /\ agent.at = "sweep" /\ r \in agent.todo
    /\ ~Decided(r)
    /\ request[r].place = "claimed"
    /\ Swept(r, TRUE)
    /\ UNCHANGED request
    /\ AfterSweep

\* Seeded bug: a claim without metadata is passed over.
WriteOffClaimed(r) ==
    /\ agent.at = "sweep" /\ r \in agent.todo
    /\ ~Decided(r)
    /\ request[r].place = "claimed"
    /\ request' = [request EXCEPT ![r].told = TRUE,
                                  ![r].decision.verdict = "NEEDS_RECONCILIATION"]
    /\ Swept(r, TRUE)
    /\ AfterSweep

\* A claim that has run out, or lacks its metadata, is never executed.
WriteOff(r) ==
    /\ agent.at = "sweep" /\ r \in agent.todo
    /\ ~Decided(r)
    /\ request' = [request EXCEPT ![r].place = "claimed", ![r].told = TRUE,
                                  ![r].decision.verdict = "NEEDS_RECONCILIATION"]
    /\ Swept(r, TRUE)
    /\ AfterSweep

\* While a claim is left over only checks are taken.
Claimable(r) == /\ request[r].place = "queued"
                /\ agent.active => request[r].action = "check"

\* claim_request: the file is moved, then claim.json is written.
TakeRequest(r) ==
    /\ agent.at = "sweep" /\ agent.todo = {}
    /\ Claimable(r)
    /\ request' = [request EXCEPT ![r].place = "bare"]
    /\ agent' = [agent EXCEPT !.at = "made", !.req = r]
    /\ AfterSweep

WriteClaim ==
    /\ agent.at = "made"
    /\ request' = [request EXCEPT ![Req].place = "claimed"]
    /\ Goto("process")
    /\ AfterSweep

NothingToDo ==
    /\ agent.at = "sweep" /\ agent.todo = {}
    /\ ~\E r \in Requests : Claimable(r)
    /\ agent' = Off
    /\ UNCHANGED request
    /\ AfterSweep

-----------------------------------------------------------------------------
(* The agent: process_claim                                                *)

\* write_decision
Decide(verdict, attempted, source) ==
    /\ request' = [request EXCEPT ![Req].decision =
                      [verdict |-> verdict, attempted |-> attempted, source |-> source]]
    /\ Goto("status")

Reject == Decide("REJECTED", "false", None)

\* history_idempotency_source: decisions under this key that are no answer to
\* a repetition themselves
Sources(r) == {q \in Requests : /\ q # r
                                /\ Decided(q)
                                /\ request[q].key = request[r].key
                                /\ request[q].decision.source = None}

\* The semantic hash: same action, same expected state.
SameIntent(q, r) == /\ request[q].action = request[r].action
                    /\ request[q].bound = request[r].bound

AfterProcess == UNCHANGED <<fate, updater, lock, abandoned, hold, drained, production, bounds>>

\* check_duplicate_or_idempotency
Replay ==
    /\ agent.at = "process"
    /\ \E q \in Sources(Req) :
          Decide(IF SameIntent(q, Req) THEN request[q].decision.verdict ELSE "REJECTED", "false", q)
    /\ AfterProcess

\* maintenance_stale_after_clear, of a change filed before the last event, a clear
StaleAfterClear(r) == hold.kind = "clear" /\ request[r].since < hold.generation

\* Any request may be too old when it is looked at.  A change is also refused
\* if it is older than the last clear or the production-state lock is taken.
Refuse ==
    /\ agent.at = "process"
    /\ Sources(Req) = {}
    /\ Reject
    /\ AfterProcess

Accepted == agent.at = "process" /\ Sources(Req) = {}

\* process_check
Check ==
    /\ Accepted
    /\ request[Req].action = "check"
    /\ \E v \in {"SUCCEEDED", "REJECTED"} : Decide(v, "false", None)
    /\ AfterProcess

\* process_apply and process_locked_mutation: take the production-state lock.
Execute ==
    /\ Accepted
    /\ request[Req].action # "check"
    /\ ~StaleAfterClear(Req)
    /\ lock = "free"
    /\ lock' = "request"
    /\ IF request[Req].action = "apply"
       THEN /\ updater' = [updater EXCEPT !["child"] = [Idle EXCEPT !.at = "admit", !.req = Req]]
            /\ Goto("await")
       ELSE Goto("compare") /\ UNCHANGED updater
    /\ UNCHANGED <<request, fate, abandoned, hold, drained, production, bounds>>

\* Seeded bug: what the request was confirmed for is not compared with what is.
MatchesAnything(r) == TRUE

\* expected_matches: a rollback ignores the policy; a policy ignores the version,
\* and nobody minds what runs when it is switched off.
Matches(r) ==
    LET bound == request[r].bound
    IN  CASE request[r].action = "apply" -> production = bound
          [] request[r].action = "rollback" -> production = [bound EXCEPT !.policy = production.policy]
          [] OTHER -> /\ production.policy = bound.policy
                      /\ ~bound.policy => production.image = bound.image

\* The first comparison; other conditions of the action may fail as well.
Compare ==
    /\ agent.at = "compare"
    /\ \/ Reject
       \/ /\ Matches(Req)
          /\ Goto("mutate")
          /\ UNCHANGED request
    /\ AfterProcess

\* The second comparison, then config_set or run_exact_rollback up to the mv,
\* which may fail with an unknown outcome.
Mutate ==
    /\ agent.at = "mutate"
    /\ \/ /\ Reject
          /\ UNCHANGED <<fate, production, bounds>>
       \/ /\ Matches(Req)
          /\ fate' = [fate EXCEPT ![Req] = "begun"]
          /\ production' = IF request[Req].action = "rollback"
                           THEN [production EXCEPT !.image = 0, !.version = 0]
                           ELSE [production EXCEPT !.policy = ~request[Req].bound.policy]
          /\ Goto("settle")
          /\ UNCHANGED <<request, bounds>>
       \/ /\ Matches(Req)
          /\ fate' = [fate EXCEPT ![Req] = "begun"]
          /\ Decide("NEEDS_RECONCILIATION", "null", None)
          /\ Fault
          /\ UNCHANGED production
    /\ UNCHANGED <<updater, lock, abandoned, hold, drained>>

\* It took effect, or was taken back, or nobody knows.
Settle ==
    /\ agent.at = "settle"
    /\ \/ /\ fate' = [fate EXCEPT ![Req] = "done"]
          /\ Decide("SUCCEEDED", "true", None)
          /\ UNCHANGED <<production, bounds>>
       \/ /\ request[Req].action = "rollback"
          /\ fate' = [fate EXCEPT ![Req] = "undone"]
          /\ production' = [production EXCEPT !.image = request[Req].bound.image,
                                              !.version = request[Req].bound.version]
          /\ Decide("REJECTED", "true", None)
          /\ Fault
       \/ /\ Decide("NEEDS_RECONCILIATION", "true", None)
          /\ Fault
          /\ UNCHANGED <<fate, production>>
    /\ UNCHANGED <<updater, lock, abandoned, hold, drained>>

\* Seeded bug: an updater that did not fail has succeeded.
JudgedByStatus(out) ==
    IF out \in {"applied", "uncertain"} THEN [verdict |-> "SUCCEEDED", attempted |-> "true"]
    ELSE [verdict |-> "REJECTED", attempted |-> IF out = "rolled_back" THEN "true" ELSE "false"]

\* process_apply: the verdict follows from the markers in the child's output.
Judged(out) ==
    CASE out = "applied" -> [verdict |-> "SUCCEEDED", attempted |-> "true"]
      [] out = "rolled_back" -> [verdict |-> "REJECTED", attempted |-> "true"]
      [] out = "refused" -> [verdict |-> "REJECTED", attempted |-> "false"]
      [] out = "silent" -> [verdict |-> "NEEDS_RECONCILIATION", attempted |-> "null"]
      [] OTHER -> [verdict |-> "NEEDS_RECONCILIATION", attempted |-> "true"]

Judge ==
    /\ agent.at = "await"
    /\ updater["child"].at = "off"
    /\ LET j == Judged(updater["child"].out) IN Decide(j.verdict, j.attempted, None)
    /\ updater' = [updater EXCEPT !["child"] = Idle]
    /\ UNCHANGED <<fate, lock, abandoned, hold, drained, production, bounds>>

\* flock -u 8: of the agent's open file, which need not hold the lock any more.
Unlock == lock' = IF lock = "request" THEN "free" ELSE lock

\* A claim stays if its execution is in doubt.
Stays(r) == Uncertain(r) /\ request[r].decision.source = None

\* merge_status
PublishStatus ==
    /\ agent.at = "status"
    /\ request' = [request EXCEPT ![Req].told = TRUE]
    /\ IF Stays(Req) THEN agent' = Off /\ Unlock ELSE Goto("clean") /\ UNCHANGED lock
    /\ UNCHANGED <<fate, updater, abandoned, hold, drained, production, bounds>>

\* cleanup_claim: claim.json is removed before the request.
CleanUp ==
    /\ agent.at = "clean"
    /\ \/ /\ request[Req].place = "claimed"
          /\ request' = [request EXCEPT ![Req].place = "bare"]
          /\ UNCHANGED <<agent, lock>>
       \/ /\ request[Req].place = "bare"
          /\ request' = [request EXCEPT ![Req].place = "gone"]
          /\ agent' = Off
          /\ Unlock
    /\ UNCHANGED <<fate, updater, abandoned, hold, drained, production, bounds>>

\* Seeded bug: the lock dies with the agent although its child goes on.
AgentIsLast == TRUE

\* The lock goes with the last process that has the file open.
LastHolder == updater["child"].at = "off"

CrashAgent ==
    /\ agent.at # "off"
    /\ Fault
    /\ agent' = Off
    /\ lock' = IF lock = "request" /\ LastHolder THEN "free" ELSE lock
    /\ updater' = [updater EXCEPT !["child"].out = "none"]
    /\ UNCHANGED <<request, fate, abandoned, hold, drained, production>>

-----------------------------------------------------------------------------
(* The updater                                                             *)

Move(u, p) == updater' = [updater EXCEPT ![u].at = p]

\* The open file through which u holds the production-state lock.
FileOf(u) == IF u = "own" THEN "own" ELSE "request"

\* u exits or dies; its operation is left without an end, or is not.
Die(u, out, open) ==
    /\ updater' = [updater EXCEPT ![u] =
          [Idle EXCEPT !.out = IF u = "child" /\ agent.at = "await" THEN out ELSE "none"]]
    /\ abandoned' = (abandoned \/ open)
    /\ lock' = IF lock = FileOf(u) /\ (u = "own" \/ agent.at # "await") THEN "free" ELSE lock

End(u, out) == Die(u, out, updater[u].journal)

AfterUpdater == UNCHANGED <<request, agent, drained>>

\* updater_admission_barrier of a run by the timer, or of an operator's apply
Run ==
    /\ updater["own"].at = "off"
    /\ Controlled
    /\ QueueControlFree
    /\ ~HoldActive
    /\ \/ /\ ~ScanClean
          /\ hold' = Published
          /\ UNCHANGED updater
       \/ /\ ScanClean
          /\ Move("own", "lock")
          /\ UNCHANGED hold
    /\ UNCHANGED <<fate, lock, abandoned, production>>
    /\ AfterUpdater

\* It takes the production-state lock, and then gives queue-control back.
TakeLock ==
    /\ updater["own"].at = "lock"
    /\ IF lock = "free" THEN lock' = "own" /\ Move("own", "verify") /\ UNCHANGED abandoned
       ELSE End("own", "silent")
    /\ UNCHANGED <<fate, hold, production, bounds>>
    /\ AfterUpdater

\* Seeded bug: the child relies on the agent's admission.
ChildTrustsAgent == TRUE

\* The barrier of a child
AdmittedAgain == ~HoldActive /\ ScanClean

AdmitChild ==
    /\ updater["child"].at = "admit"
    /\ IF AdmittedAgain THEN Move("child", "verify") /\ UNCHANGED <<lock, abandoned>>
       ELSE End("child", "silent")
    /\ UNCHANGED <<fate, hold, production, bounds>>
    /\ AfterUpdater

Torn == production.image # production.version

\* validate_request_guard; it may also reject a request that has run out.
GuardPasses(u) == u = "child" => ~Torn /\ Matches(updater[u].req)

\* The release is downloaded and verified, the guard compares a first time; an
\* update of its own wants an identified and older version, and the timer's the
\* policy.
Verify(u) ==
    /\ updater[u].at = "verify"
    /\ \/ u = "child" /\ End(u, "refused") /\ UNCHANGED bounds
       \/ u = "own" /\ End(u, "silent") /\ UNCHANGED bounds
       \/ /\ GuardPasses(u)
          /\ u = "own" => ~Torn /\ production.image = 0
          /\ Move(u, "begin")
          /\ UNCHANGED <<lock, abandoned, bounds>>
       \/ End(u, "silent") /\ Fault
    /\ UNCHANGED <<fate, hold, production>>
    /\ AfterUpdater

\* The guard compares again, the journal is opened, execution is announced.
Begin(u) ==
    /\ updater[u].at = "begin"
    /\ \/ /\ u = "child"
          /\ End(u, "refused")
          /\ UNCHANGED fate
       \/ /\ GuardPasses(u)
          /\ updater' = [updater EXCEPT ![u].at = "prepare", ![u].journal = TRUE]
          /\ fate' = [r \in Requests |-> IF r = updater[u].req THEN "begun" ELSE fate[r]]
          /\ UNCHANGED <<lock, abandoned>>
    /\ UNCHANGED <<hold, production, bounds>>
    /\ AfterUpdater

\* The journal's first events cannot be written: nothing was done, but what is
\* there counts as an operation without an end.
Stillborn(u) ==
    /\ updater[u].at = "begin"
    /\ GuardPasses(u)
    /\ Fault
    /\ Die(u, "silent", TRUE)
    /\ UNCHANGED <<fate, hold, production>>
    /\ AfterUpdater

AfterPhase == UNCHANGED <<fate, lock, abandoned, hold>> /\ AfterUpdater

\* Backup, images, compose file, and migration if the release has one.  A
\* failing backup ends the updater where it is (Crash).
Prepare(u) ==
    /\ updater[u].at = "prepare"
    /\ \E migrates \in BOOLEAN :
          \/ /\ updater' = [updater EXCEPT ![u].at = "switch", ![u].migrated = migrates]
             /\ UNCHANGED bounds
          \/ /\ updater' = [updater EXCEPT ![u].at = "restore", ![u].migrated = migrates]
             /\ Fault
    /\ UNCHANGED production
    /\ AfterPhase

\* switch_web and rollback_application: one setting after the other.
Step(u, from, to, new) ==
    /\ updater[u].at = from
    /\ production' = new
    /\ Move(u, to)
    /\ UNCHANGED bounds
    /\ AfterPhase

SwitchImage(u) == Step(u, "switch", "version", [production EXCEPT !.image = 1])

SwitchVersion(u) == Step(u, "version", "health", [production EXCEPT !.version = 1])

RestoreImage(u) == Step(u, "restore", "revert", [production EXCEPT !.image = 0])

RestoreVersion(u) == Step(u, "revert", "rerecord", [production EXCEPT !.version = 0])

\* The service is started and examined.
Health(u) == Step(u, "health", "record", production)

\* A setting cannot be written, the service does not start or is not healthy.
SwitchFails(u) ==
    /\ updater[u].at \in {"switch", "version", "health"}
    /\ Move(u, "restore")
    /\ Fault
    /\ UNCHANGED production
    /\ AfterPhase

\* write_record, of an update
Record(u) == Step(u, "record", "terminal", [production EXCEPT !.record = @ + 1])

\* write_record, of a failed one; a migration is not undone.
RecordFailure(u) ==
    Step(u, "rerecord", IF updater[u].migrated THEN "note" ELSE "terminal",
         [production EXCEPT !.record = @ + 1])

\* journal_terminal_event, and the exit, of which the agent need not hear.
Terminal(u) ==
    /\ updater[u].at = "terminal"
    /\ fate' = [r \in Requests |-> IF r # updater[u].req THEN fate[r]
                                   ELSE IF production.image = 1 THEN "done" ELSE "undone"]
    /\ \/ Die(u, IF production.image = 1 THEN "applied" ELSE "rolled_back", FALSE) /\ UNCHANGED bounds
       \/ Die(u, "begun", FALSE) /\ Fault
    /\ UNCHANGED <<hold, production>>
    /\ AfterUpdater

\* A phase event cannot be written, the record cannot, the settings cannot be
\* restored (which is recorded): the outcome is uncertain.  The terminal event may
\* be there all the same.
Trouble(u) ==
    /\ updater[u].at \in Acting
    /\ \E journal \in BOOLEAN :
          /\ ~journal => updater[u].at = "terminal"
          /\ updater' = [updater EXCEPT ![u].at = "note", ![u].journal = journal]
    /\ \/ UNCHANGED production
       \/ /\ updater[u].at \in {"restore", "revert"}
          /\ production' = [production EXCEPT !.record = @ + 1]
    /\ Fault
    /\ AfterPhase

\* journal_note_reconciliation; the lock is released before the hold is published.
Note(u) ==
    /\ updater[u].at = "note"
    /\ \/ /\ updater' = [updater EXCEPT ![u].at = "publish", ![u].journal = TRUE]
          /\ UNCHANGED bounds
       \/ /\ Move(u, "publish")
          /\ Fault
    /\ lock' = IF lock = FileOf(u) THEN "free" ELSE lock
    /\ UNCHANGED <<fate, abandoned, hold, production>>
    /\ AfterUpdater

PublishFailure(u) ==
    /\ updater[u].at = "publish"
    /\ FailClosed
    /\ End(u, "uncertain")
    /\ UNCHANGED <<fate, production, bounds>>
    /\ AfterUpdater

\* Killed, or, at the backup and before, a failing command.
Crash(u) ==
    /\ updater[u].at # "off"
    /\ Fault
    /\ End(u, IF updater[u].at \in {"admit", "lock", "verify", "begin"} THEN "silent" ELSE "begun")
    /\ UNCHANGED <<fate, hold, production>>
    /\ AfterUpdater

-----------------------------------------------------------------------------
(* Specification                                                           *)

Init ==
    /\ request = [r \in Requests |->
          [place |-> "unfiled", action |-> "check", key |-> 0,
           bound |-> [image |-> 0, version |-> 0, policy |-> FALSE, record |-> 0],
           since |-> 0, decision |-> Undecided, told |-> FALSE]]
    /\ fate = [r \in Requests |-> "none"]
    /\ agent = Off
    /\ updater = [u \in Updaters |-> Idle]
    /\ lock = "free"
    /\ abandoned = FALSE
    /\ hold = [kind |-> "null", generation |-> 0]
    /\ drained = FALSE
    /\ production = [image |-> 0, version |-> 0, policy |-> FALSE, record |-> 0]
    /\ bounds = [controls |-> 0, faults |-> 0]

Operator == (\E r \in Requests : File(r)) \/ PublishHold \/ ClearHold \/ Drain

AgentStep ==
    \/ Admit
    \/ \E r \in Requests : Republish(r) \/ LeaveClaim(r) \/ WriteOff(r) \/ TakeRequest(r)
    \/ WriteClaim \/ NothingToDo
    \/ Replay \/ Refuse \/ Check \/ Execute
    \/ Compare \/ Mutate \/ Settle \/ Judge
    \/ PublishStatus \/ CleanUp

UpdaterStep(u) ==
    \/ Verify(u) \/ Begin(u) \/ Prepare(u)
    \/ SwitchImage(u) \/ SwitchVersion(u) \/ Health(u) \/ Record(u)
    \/ RestoreImage(u) \/ RestoreVersion(u) \/ RecordFailure(u)
    \/ Terminal(u) \/ Note(u) \/ PublishFailure(u)

Next ==
    \/ Operator
    \/ AgentStep
    \/ CrashAgent
    \/ Run \/ TakeLock \/ AdmitChild
    \/ \E u \in Updaters : UpdaterStep(u) \/ Stillborn(u) \/ SwitchFails(u) \/ Trouble(u) \/ Crash(u)

Spec == Init /\ [][Next]_vars

\* The agent's timer fires every minute and its processes run; a claim that is
\* swept again and again runs out in the end.
FairSpec ==
    /\ Spec
    /\ WF_vars(AgentStep)
    /\ WF_vars(TakeLock)
    /\ WF_vars(AdmitChild)
    /\ \A u \in Updaters : WF_vars(UpdaterStep(u))
    /\ \A r \in Requests : SF_vars(WriteOff(r))

-----------------------------------------------------------------------------
(* Properties                                                              *)

\* Types, and that whoever changes the installation holds the lock, also an
\* updater that has outlived its agent.
TypeOK ==
    /\ request \in [Requests -> Request]
    /\ fate \in [Requests -> Fates]
    /\ agent \in AgentState
    /\ updater \in [Updaters -> UpdaterState]
    /\ lock \in {"free", "request", "own"}
    /\ abandoned \in BOOLEAN
    /\ hold \in Hold
    /\ drained \in BOOLEAN
    /\ production \in Production
    /\ bounds \in Bounds
    /\ \A u \in Updaters : updater[u].at \in Acting => lock = FileOf(u)
    /\ agent.at \in {"compare", "mutate", "settle"} => lock = "request"

\* What an answer says is what was done: SUCCEEDED means that the request, or
\* the one it repeats, took effect; REJECTED that nothing was done or all of it
\* taken back; executionAttempted = false that nothing was done.  A request that
\* was cleaned up has been answered, whatever crashed meanwhile.
AnswersAreTrue ==
    \A r \in Requests :
        LET d == request[r].decision
            q == IF d.source = None THEN r ELSE d.source
        IN  /\ d.verdict = "SUCCEEDED" => request[r].action = "check" \/ fate[q] = "done"
            /\ d.verdict = "REJECTED" => fate[r] \in {"none", "undone"}
            /\ d.attempted = "false" => fate[r] = "none"
            /\ request[r].place = "gone" => d.verdict # "none" /\ request[r].told

\* What starts to change the installation for r.
ActsFor(r) == \/ updater["child"].req = r /\ updater["child"].at = "switch"
              \/ agent.req = r /\ agent.at = "mutate"

\* The installation is changed for a request only while it is what the
\* administrator saw, and for one request per idempotency key.
ChangedAsConfirmed ==
    [][\A r \in Requests :
          (ActsFor(r) /\ production' # production) =>
              /\ request[r].action # "set_auto_apply" =>
                     /\ production.image = request[r].bound.image
                     /\ production.version = request[r].bound.version
                     /\ production.record = request[r].bound.record
              /\ request[r].action # "rollback" => production.policy = request[r].bound.policy
              /\ \A q \in Requests \ {r} : request[q].key = request[r].key => fate[q] = "none"]_vars

\* No requested change begins while another request waits for reconciliation,
\* and no requested update while the journal of a dead updater lacks its end,
\* whenever that one died.  (An updater of its own may: it neither looks at the
\* claims nor scans again once it has the lock.)
UncertainStopsRequests ==
    [][\A r \in Requests : (fate[r] = "none" /\ fate'[r] = "begun") =>
          /\ ~\E q \in Requests : InClaim(q) /\ Uncertain(q)
          /\ request[r].action = "apply" => ~abandoned]_vars

\* Once drain has answered "drained" nothing is changed and no request is taken
\* until the hold is cleared.
DrainedIsQuiet ==
    [][(drained /\ drained') =>
          /\ UNCHANGED production
          /\ \A r \in Requests : ~InClaim(r)']_vars

\* Every request is answered, unless a hold is put in its way or a request
\* waits for its reconciliation.
EveryRequestIsAnswered ==
    \A r \in Requests :
        (request[r].place # "unfiled") ~>
            (request[r].told \/ HoldActive \/ \E q \in Requests : Uncertain(q))
=============================================================================
