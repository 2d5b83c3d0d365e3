--------------------------- MODULE OperationAgent ---------------------------
(***************************************************************************)
(* Controlled operations: requests that platform operators confirm,        *)
(* approve, hold, cancel and retry in the web application, and that the    *)
(* root process of ops/controlled-operation-agent executes.                *)
(*                                                                         *)
(* Three stores outlive a process: the request's row in the database, its  *)
(* append-only journal of fsynced files, and the installation the effect   *)
(* phases change.  The process holds three file locks which its children   *)
(* inherit, so there is one process at a time and none while a script      *)
(* dispatched by a dead process still runs.  It may die between any two    *)
(* steps.  A transaction is one action, an appended file is another.       *)
(*                                                                         *)
(* Time is not counted: a lease and a request's time to live run out at    *)
(* any moment, which contains every order real clocks produce.             *)
(***************************************************************************)
EXTENDS Naturals, Sequences, FiniteSets

CONSTANTS
    Requests,
    Plan,          \* Plan[r]: the kinds of driver.phases(claim), in order
    NeedsApproval, \* the HIGH_RISK requests
    None,          \* no request
    MaxControls,   \* bound: operator commands
    MaxFaults      \* bound: crashes, stalls, failed database calls, suspensions

PhaseKinds == {"plain", "effect", "verify"}

ASSUME ConstantsAssumption ==
    /\ None \notin Requests
    /\ Plan \in [Requests -> Seq(PhaseKinds)]
    /\ \A r \in Requests : Plan[r] # <<>>
    /\ NeedsApproval \subseteq Requests
    /\ MaxControls \in Nat
    /\ MaxFaults \in Nat

VARIABLES
    row,       \* row[r]: ControlledOperationRequest
    overdue,   \* overdue[r]: expiresAt has passed
    authority, \* the requesting and approving operators are ACTIVE
    journal,   \* journal[r]: summary of the event files of r
    applied,   \* applied[r][i]: how often phase i changed the installation
    agent,     \* memory of the root process
    child,     \* the script it dispatched
    controls,  \* operator commands so far
    faults     \* faults so far

vars == <<row, overdue, authority, journal, applied, agent, child, controls, faults>>

-----------------------------------------------------------------------------
(* Rows and journals                                                       *)

Terminal == {"SUCCEEDED", "FAILED", "CANCELLED", "EXPIRED"}

Leased == {"RUNNING", "HELD", "CANCEL_REQUESTED"}

Statuses == Terminal \cup Leased \cup
    {"ABSENT", "PREVIEWED", "CONFIRMATION_REQUIRED", "APPROVAL_REQUIRED", "QUEUED"}

\* The result codes the code branches on; OTHER is any other.
Codes == {"NONE", "STOP_CONFIRMED", "EXECUTOR_FAILED", "NEEDS_RECONCILIATION", "OTHER"}

Outcomes == {"NONE", "SUCCEEDED", "FAILED", "HELD", "CANCELLED"}

\* lease: workerId and leaseToken are null, or leaseExpiresAt lies ahead, or
\* it has passed.  receipt: the journal length recorded as recoveryReceipt by
\* the claim that started this attempt, 0 for null.
Row == [status: Statuses, lease: {"none", "live", "out"}, attempt: Nat,
        receipt: Nat, code: Codes, retryable: BOOLEAN]

NoRow == [status |-> "ABSENT", lease |-> "none", attempt |-> 0,
          receipt |-> 0, code |-> "NONE", retryable |-> FALSE]

Kinds == {"none", "admission", "started", "complete", "terminal", "reconciliation"}

Event == [kind: Kinds, gen: Nat, attempted: BOOLEAN, outcome: Outcomes, code: Codes]

NoEvent == [kind |-> "none", gen |-> 0, attempted |-> FALSE,
            outcome |-> "NONE", code |-> "NONE"]

\* What the code asks of a journal: its length, whether some event has
\* executionAttempted, whether some event is a reconciliation, the last event.
Journal == [length: Nat, attempted: BOOLEAN, uncertain: BOOLEAN, last: Event]

Empty == [length |-> 0, attempted |-> FALSE, uncertain |-> FALSE, last |-> NoEvent]

\* appendOperationEvent
Appended(j, e) ==
    [length |-> j.length + 1, attempted |-> j.attempted \/ e.attempted,
     uncertain |-> j.uncertain \/ e.kind = "reconciliation", last |-> e]

IsEffect(r, i) == Plan[r][i] = "effect"

-----------------------------------------------------------------------------
(* The process                                                             *)

\* read: row and journal read; claim: other journals found settled; admit:
\* claimed; control .. conclude: the loop of runPhases; stop: its handling of
\* CONTROL_PENDING; finish: the verdict is to be made durable; writeback.
Points == {"off", "read", "claim", "admit", "control", "check", "announce",
           "recheck", "execute", "conclude", "stop", "finish", "writeback"}

\* recover: the row read was not QUEUED; receipt: the claim is made to write
\* the journal's last event back; attempted, completed: those of runPhases.
AgentState == [at: Points, req: Requests \cup {None}, recover: BOOLEAN, receipt: BOOLEAN,
               step: Nat, attempted: BOOLEAN, completed: BOOLEAN, verdict: Event]

Off == [at |-> "off", req |-> None, recover |-> FALSE, receipt |-> FALSE, step |-> 0,
        attempted |-> FALSE, completed |-> FALSE, verdict |-> NoEvent]

\* done: the script has changed the installation.
Child == [req: Requests \cup {None}, step: Nat, done: BOOLEAN]

NoChild == [req |-> None, step |-> 0, done |-> FALSE]

Req == agent.req

Goto(p) == agent' = [agent EXCEPT !.at = p]

Exit == agent' = Off

\* assertLease for the live process: nobody else can have claimed.
HoldsLease == row[Req].lease = "live" /\ row[Req].status \in Leased

Log(e) == journal' = [journal EXCEPT ![Req] = Appended(journal[Req], e)]

Entry(kind, attempted) ==
    [kind |-> kind, gen |-> row[Req].attempt, attempted |-> attempted,
     outcome |-> "NONE", code |-> "NONE"]

\* The event finish() writes.
Verdict(outcome, code, attempted) ==
    [kind |-> IF code = "NEEDS_RECONCILIATION" THEN "reconciliation" ELSE "terminal",
     gen |-> row[Req].attempt, attempted |-> attempted, outcome |-> outcome, code |-> code]

\* Seeded bug: a stop is confirmed although effects have started.
StopVerdictAlways(status) ==
    Verdict(IF status = "HELD" THEN "HELD" ELSE "CANCELLED", "STOP_CONFIRMED", FALSE)

\* How runPhases answers a status that is no longer RUNNING.
StopVerdict(status) ==
    IF agent.attempted THEN Verdict("FAILED", "NEEDS_RECONCILIATION", TRUE)
    ELSE Verdict(IF status = "HELD" THEN "HELD" ELSE "CANCELLED", "STOP_CONFIRMED", FALSE)

ToFinish(v) == agent' = [agent EXCEPT !.at = "finish", !.verdict = v]

\* Seeded bug: a failure counts as clean until an effect has returned.
ThrowUnlessCompleted(code) ==
    ToFinish(Verdict("FAILED", IF agent.completed THEN "NEEDS_RECONCILIATION" ELSE code,
                     agent.completed))

\* The catch block of runPhases.
Throw(code) ==
    ToFinish(Verdict("FAILED", IF agent.attempted THEN "NEEDS_RECONCILIATION" ELSE code,
                     agent.attempted))

\* A database call fails although the lease is good.
DatabaseFails == faults < MaxFaults /\ faults' = faults + 1

-----------------------------------------------------------------------------
Init ==
    /\ row = [r \in Requests |-> NoRow]
    /\ overdue = [r \in Requests |-> FALSE]
    /\ authority = TRUE
    /\ journal = [r \in Requests |-> Empty]
    /\ applied = [r \in Requests |-> [i \in DOMAIN Plan[r] |-> 0]]
    /\ agent = Off
    /\ child = NoChild
    /\ controls = 0
    /\ faults = 0

-----------------------------------------------------------------------------
(* Clocks and accounts                                                     *)

\* expiresAt passes.
Overdue(r) ==
    /\ row[r].status # "ABSENT"
    /\ ~overdue[r]
    /\ overdue' = [overdue EXCEPT ![r] = TRUE]
    /\ UNCHANGED <<row, authority, journal, applied, agent, child, controls, faults>>

\* r's lease is renewed by a timer of the process.
Serving(r) == agent.req = r /\ agent.at \notin {"read", "claim"}

\* leaseExpiresAt passes.  While the process serves r that is a fault: it
\* stalled, or its heartbeats did not get through.
LeaseRunsOut(r) ==
    /\ row[r].lease = "live"
    /\ row' = [row EXCEPT ![r].lease = "out"]
    /\ IF Serving(r) THEN faults < MaxFaults /\ faults' = faults + 1
                     ELSE UNCHANGED faults
    /\ UNCHANGED <<overdue, authority, journal, applied, agent, child, controls>>

\* An operator of the request is suspended ...
Suspend ==
    /\ authority
    /\ faults < MaxFaults
    /\ faults' = faults + 1
    /\ authority' = FALSE
    /\ UNCHANGED <<row, overdue, journal, applied, agent, child, controls>>

\* ... or reinstated.
Reinstate ==
    /\ ~authority
    /\ authority' = TRUE
    /\ UNCHANGED <<row, overdue, journal, applied, agent, child, controls, faults>>

-----------------------------------------------------------------------------
(* The web application                                                     *)

\* createControlledOperationRequest; a second call with the key changes nothing.
Create(r) ==
    /\ row[r].status = "ABSENT"
    /\ row' = [row EXCEPT ![r].status =
                   IF r \in NeedsApproval THEN "CONFIRMATION_REQUIRED" ELSE "PREVIEWED"]
    /\ UNCHANGED <<overdue, authority, journal, applied, agent, child, controls, faults>>

Confirm(r) ==
    /\ row[r].status \in {"PREVIEWED", "CONFIRMATION_REQUIRED"}
    /\ ~overdue[r]
    /\ row' = [row EXCEPT ![r].status =
                   IF @ = "PREVIEWED" THEN "QUEUED" ELSE "APPROVAL_REQUIRED"]
    /\ UNCHANGED <<overdue, authority, journal, applied, agent, child, controls, faults>>

Approve(r) ==
    /\ row[r].status = "APPROVAL_REQUIRED"
    /\ ~overdue[r]
    /\ row' = [row EXCEPT ![r].status = "QUEUED"]
    /\ UNCHANGED <<overdue, authority, journal, applied, agent, child, controls, faults>>

\* hasControlledOperationLease: whether or not the lease has run out.
Executing(r) == row[r].lease # "none"

\* mutateOperatorRequest: a command bound to the row's current revision.
Command(r, data) ==
    /\ controls < MaxControls
    /\ controls' = controls + 1
    /\ row' = [row EXCEPT ![r] = data]
    /\ UNCHANGED <<overdue, authority, journal, applied, agent, child, faults>>

Hold(r) ==
    /\ row[r].status \in {"QUEUED", "RUNNING"}
    /\ overdue[r] => Executing(r)
    /\ Command(r, [row[r] EXCEPT !.status = "HELD"])

\* Seeded bug: a hold nobody has acknowledged yet is lifted.
ResumeUnacknowledged(r) ==
    /\ row[r].status = "HELD"
    /\ ~overdue[r]
    /\ Command(r, [row[r] EXCEPT !.status = "QUEUED"])

Resume(r) ==
    /\ row[r].status = "HELD"
    /\ ~Executing(r)
    /\ ~overdue[r]
    /\ Command(r, [row[r] EXCEPT !.status = "QUEUED"])

RequestCancel(r) ==
    /\ row[r].status \notin Terminal \cup {"ABSENT", "CANCEL_REQUESTED"}
    /\ overdue[r] => Executing(r)
    /\ Command(r, [row[r] EXCEPT
           !.status = IF Executing(r) THEN "CANCEL_REQUESTED" ELSE "CANCELLED"])

\* FAILED is terminal, so the time to live is not looked at.
Retry(r) ==
    /\ row[r].status = "FAILED"
    /\ row[r].retryable
    /\ Command(r, [row[r] EXCEPT !.status = "QUEUED", !.retryable = FALSE])

\* Any other command on an overdue request turns into EXPIRE.
ExpireByWeb(r) ==
    /\ overdue[r]
    /\ row[r].status \notin Terminal \cup {"CANCEL_REQUESTED"}
    /\ row' = [row EXCEPT ![r].status =
                   IF Executing(r) THEN "CANCEL_REQUESTED" ELSE "EXPIRED"]
    /\ UNCHANGED <<overdue, authority, journal, applied, agent, child, controls, faults>>

-----------------------------------------------------------------------------
(* executeRootOperation up to the claim                                    *)

\* lock-exec.py takes the locks; the row and its journal are read.
Start(r) ==
    /\ agent.at = "off"
    /\ child = NoChild
    /\ row[r].status \notin Terminal \cup {"ABSENT"}
    /\ agent' = [Off EXCEPT !.at = "read", !.req = r,
                            !.recover = row[r].status # "QUEUED"]
    /\ UNCHANGED <<row, overdue, authority, journal, applied, child, controls, faults>>

\* assertOtherJournalsSettled for another request of the same root.
OtherSettled(q) ==
    \/ journal[q].length = 0 /\ row[q].attempt = 0
    \/ /\ journal[q].last.kind = "terminal"
       /\ ~Executing(q)
       /\ row[q].status \in Terminal \cup {"HELD"}

Expirable(r) ==
    /\ overdue[r]
    /\ ~Executing(r)
    /\ row[r].status \notin Terminal

\* Seeded bug: the other journals are looked at first.
ExpireWhenAlone ==
    /\ agent.at = "read"
    /\ Expirable(Req)
    /\ \A q \in Requests \ {Req} : OtherSettled(q)
    /\ row' = [row EXCEPT ![Req].status = "EXPIRED", ![Req].retryable = FALSE]
    /\ Exit
    /\ UNCHANGED <<overdue, authority, journal, applied, child, controls, faults>>

\* expireRootOperation
Expire ==
    /\ agent.at = "read"
    /\ Expirable(Req)
    /\ row' = [row EXCEPT ![Req].status = "EXPIRED", ![Req].retryable = FALSE]
    /\ Exit
    /\ UNCHANGED <<overdue, authority, journal, applied, child, controls, faults>>

Admit ==
    /\ agent.at = "read"
    /\ ~Expirable(Req)
    /\ IF \A q \in Requests \ {Req} : OtherSettled(q) THEN Goto("claim") ELSE Exit
    /\ UNCHANGED <<row, overdue, authority, journal, applied, child, controls, faults>>

\* Seeded bug: any last event passes for a receipt.
RecoversAnything ==
    /\ agent.recover
    /\ journal[Req].length > 0
    /\ Executing(Req)
    /\ \/ journal[Req].last.gen = row[Req].attempt
       \/ row[Req].receipt = journal[Req].length

\* canRecoverRootReceipt: the journal ends with the verdict of the latest
\* claim, or with the one the latest claim was made to write back.
RecoversReceipt ==
    /\ agent.recover
    /\ journal[Req].last.kind = "terminal"
    /\ Executing(Req)
    /\ \/ journal[Req].last.gen = row[Req].attempt
       \/ row[Req].receipt = journal[Req].length

\* Seeded bug: recovery takes only RUNNING requests.
ClaimableRunning ==
    IF agent.recover
    THEN row[Req].status = "RUNNING" /\ row[Req].lease = "out"
    ELSE row[Req].status = "QUEUED" /\ ~overdue[Req] /\ authority

Claimable ==
    IF agent.recover
    THEN row[Req].status \in Leased /\ row[Req].lease = "out"
    ELSE row[Req].status = "QUEUED" /\ ~overdue[Req] /\ authority

\* Seeded bug: started effects are not looked for.
MayHaveActedUnlogged(r) == journal[r].uncertain

\* An effect phase was started, or an earlier attempt could not tell.
MayHaveActed(r) == journal[r].attempted \/ journal[r].uncertain

\* claimRootOperation
Claim ==
    /\ agent.at = "claim"
    /\ Claimable
    /\ row' = [row EXCEPT
           ![Req].status = IF agent.recover THEN @ ELSE "RUNNING",
           ![Req].lease = "live",
           ![Req].attempt = @ + 1,
           ![Req].receipt = IF RecoversReceipt THEN journal[Req].length ELSE 0]
    /\ agent' = [agent EXCEPT !.at = "admit", !.step = 1, !.receipt = RecoversReceipt]
    /\ UNCHANGED <<overdue, authority, journal, applied, child, controls, faults>>

ClaimRejected ==
    /\ agent.at = "claim"
    /\ ~Claimable
    /\ Exit
    /\ UNCHANGED <<row, overdue, authority, journal, applied, child, controls, faults>>

-----------------------------------------------------------------------------
(* executeRootOperation from the claim on, runPhases                       *)

\* projectRootOperationEvent refuses, so record() throws.
NotProjected == (~HoldsLease /\ UNCHANGED faults) \/ DatabaseFails

\* ... inside the try of runPhases.
NotProjectedThrow ==
    \/ ~HoldsLease /\ Throw("OTHER") /\ UNCHANGED faults
    \/ DatabaseFails /\ Throw("EXECUTOR_FAILED")

\* Only the result of an earlier attempt is to be written back.
WriteReceipt ==
    /\ agent.at = "admit"
    /\ agent.receipt
    /\ agent' = [agent EXCEPT !.at = "writeback", !.verdict = journal[Req].last]
    /\ UNCHANGED <<row, overdue, authority, journal, applied, child, controls, faults>>

\* What an earlier attempt did is unknown; nothing is executed again.
GiveUp ==
    /\ agent.at = "admit"
    /\ ~agent.receipt
    /\ MayHaveActed(Req)
    /\ ToFinish(Verdict("FAILED", "NEEDS_RECONCILIATION", TRUE))
    /\ UNCHANGED <<row, overdue, authority, journal, applied, child, controls, faults>>

RecordAdmission ==
    /\ agent.at = "admit"
    /\ ~agent.receipt
    /\ ~MayHaveActed(Req)
    /\ Log(Entry("admission", FALSE))
    /\ \/ HoldsLease /\ Goto("control") /\ UNCHANGED faults
       \/ NotProjected /\ Exit
    /\ UNCHANGED <<row, overdue, authority, applied, child, controls>>

\* The status heartbeatRootOperation leaves behind.
Beaten(r) == IF overdue[r] \/ ~authority THEN "CANCEL_REQUESTED" ELSE row[r].status

\* The heartbeat at the head of the loop.
Control ==
    /\ agent.at = "control"
    /\ HoldsLease
    /\ row' = [row EXCEPT ![Req].status = Beaten(Req)]
    /\ IF Beaten(Req) # "RUNNING" /\ ~(agent.attempted /\ Plan[Req][agent.step] = "verify")
       THEN ToFinish(StopVerdict(Beaten(Req)))
       ELSE Goto(IF agent.attempted THEN "announce" ELSE "check")
    /\ UNCHANGED <<overdue, authority, journal, applied, child, controls, faults>>

InTime(r) == row[r].status = "RUNNING" /\ ~overdue[r]

\* The first assertRootExecutionAllowed.
CheckPasses ==
    /\ agent.at = "check"
    /\ HoldsLease /\ InTime(Req) /\ authority
    /\ Goto("announce")
    /\ UNCHANGED <<row, overdue, authority, journal, applied, child, controls, faults>>

\* Either one finds the request held, cancelled or overdue ...
CheckFindsControl ==
    /\ agent.at = "check" \/ (agent.at = "recheck" /\ ~agent.attempted)
    /\ HoldsLease
    /\ ~InTime(Req)
    /\ Goto("stop")
    /\ UNCHANGED <<row, overdue, authority, journal, applied, child, controls, faults>>

\* ... or refuses: the lease is lost (this the timer's heartbeat may notice
\* first), the operator is suspended, or the installation is not the one the
\* request was approved for, which may be so at any time.
CheckRefuses ==
    /\ agent.at \in {"control", "check", "recheck"}
    /\ \/ ~HoldsLease
       \/ InTime(Req) /\ agent.at # "control" /\ ~agent.attempted
    /\ Throw("OTHER")
    /\ UNCHANGED <<row, overdue, authority, journal, applied, child, controls, faults>>

\* A query or an observation fails.
CheckFails ==
    /\ agent.at \in {"control", "check", "recheck"}
    /\ DatabaseFails
    /\ \E code \in {"EXECUTOR_FAILED", "OTHER"} : Throw(code)
    /\ UNCHANGED <<row, overdue, authority, journal, applied, child, controls>>

\* The started event precedes the phase.
Announce ==
    /\ agent.at = "announce"
    /\ Log(Entry("started", IsEffect(Req, agent.step)))
    /\ \/ HoldsLease /\ Goto("recheck") /\ UNCHANGED faults
       \/ NotProjectedThrow
    /\ UNCHANGED <<row, overdue, authority, applied, child, controls>>

\* The second assertRootExecutionAllowed; skipped once an effect has started.
MayDispatch == agent.attempted \/ (HoldsLease /\ InTime(Req) /\ authority)

\* driver.execute
Dispatch ==
    /\ agent.at = "recheck"
    /\ MayDispatch
    /\ agent' = [agent EXCEPT !.at = "execute",
                     !.attempted = @ \/ IsEffect(Req, agent.step)]
    /\ child' = [req |-> Req, step |-> agent.step, done |-> FALSE]
    /\ UNCHANGED <<row, overdue, authority, journal, applied, controls, faults>>

\* The script changes the installation, whether or not its parent still lives.
Act ==
    /\ child.req # None
    /\ IsEffect(child.req, child.step)
    /\ ~child.done
    /\ child' = [child EXCEPT !.done = TRUE]
    /\ applied' = [applied EXCEPT ![child.req][child.step] = @ + 1]
    /\ UNCHANGED <<row, overdue, authority, journal, agent, controls, faults>>

\* The script has ended and the process is told.
Returned ==
    /\ agent.at = "execute"
    /\ child' = NoChild
    /\ UNCHANGED <<row, overdue, authority, journal, applied, controls, faults>>

Succeeds ==
    /\ Returned
    /\ IsEffect(Req, agent.step) => child.done
    /\ agent' = [agent EXCEPT !.at = "conclude",
                     !.completed = @ \/ IsEffect(Req, agent.step)]

\* RootOperationNoEffectRejection: the receipt says nothing was done.
Rejects ==
    /\ Returned
    /\ ~child.done
    /\ IF agent.completed THEN Throw("OTHER")
                          ELSE ToFinish(Verdict("FAILED", "OTHER", FALSE))

\* RootOperationUncertainResult: the script cannot tell.
Wavers ==
    /\ Returned
    /\ ToFinish(Verdict("FAILED", "NEEDS_RECONCILIATION", TRUE))

\* It fails in any other way, or with a refusal of the driver's own.
Breaks ==
    /\ Returned
    /\ \E code \in {"EXECUTOR_FAILED", "OTHER"} : Throw(code)

Conclude ==
    /\ agent.at = "conclude"
    /\ Log(Entry("complete", IsEffect(Req, agent.step)))
    /\ \/ /\ HoldsLease
          /\ IF agent.step < Len(Plan[Req])
             THEN agent' = [agent EXCEPT !.at = "control", !.step = @ + 1]
             ELSE ToFinish(Verdict("SUCCEEDED", "NONE", agent.attempted))
          /\ UNCHANGED faults
       \/ NotProjectedThrow
    /\ UNCHANGED <<row, overdue, authority, applied, child, controls>>

\* The catch block's heartbeat after CONTROL_PENDING; when it fails the
\* process ends without a verdict.
AnswerControl ==
    /\ agent.at = "stop"
    /\ \/ /\ HoldsLease
          /\ row' = [row EXCEPT ![Req].status = Beaten(Req)]
          /\ ToFinish(StopVerdict(Beaten(Req)))
          /\ UNCHANGED faults
       \/ NotProjected /\ Exit /\ UNCHANGED row
    /\ UNCHANGED <<overdue, authority, journal, applied, child, controls>>

-----------------------------------------------------------------------------
(* The verdict                                                             *)

\* finish(): the verdict is durable before the database knows it.
Finish ==
    /\ agent.at = "finish"
    /\ Log(agent.verdict)
    /\ Goto("writeback")
    /\ UNCHANGED <<row, overdue, authority, applied, child, controls, faults>>

\* A stop is settled only as the stop the operator asked for.
Applies(v) ==
    /\ v.outcome = "HELD" => row[Req].status = "HELD"
    /\ v.outcome = "CANCELLED" => row[Req].status = "CANCEL_REQUESTED"

Retryable(v) == v.outcome = "FAILED" /\ ~v.attempted /\ v.code = "EXECUTOR_FAILED"

\* projectRootOperationEvent and settleRootOperation.
WriteBack ==
    /\ agent.at = "writeback"
    /\ HoldsLease
    /\ Applies(agent.verdict)
    /\ row' = [row EXCEPT
           ![Req].status = agent.verdict.outcome, ![Req].lease = "none",
           ![Req].code = agent.verdict.code,
           ![Req].retryable = Retryable(agent.verdict)]
    /\ Exit
    /\ UNCHANGED <<overdue, authority, journal, applied, child, controls, faults>>

\* A hold that was overtaken by a cancellation becomes one; anything else
\* that does not apply ends the process.
WriteBackOvertaken ==
    /\ agent.at = "writeback"
    /\ HoldsLease
    /\ ~Applies(agent.verdict)
    /\ IF agent.verdict.outcome = "HELD" /\ row[Req].status = "CANCEL_REQUESTED"
       THEN LET v == Verdict("CANCELLED", "STOP_CONFIRMED", FALSE)
            IN  Log(v) /\ agent' = [agent EXCEPT !.verdict = v]
       ELSE Exit /\ UNCHANGED journal
    /\ UNCHANGED <<row, overdue, authority, applied, child, controls, faults>>

WriteBackFails ==
    /\ agent.at = "writeback"
    /\ NotProjected
    /\ Exit
    /\ UNCHANGED <<row, overdue, authority, journal, applied, child, controls>>

-----------------------------------------------------------------------------
(* Timer and death                                                         *)

\* startHeartbeat: a beat that does more than renew the lease.
Pulse ==
    /\ agent.at \notin {"off", "read", "claim"}
    /\ HoldsLease
    /\ row' = [row EXCEPT ![Req].status = Beaten(Req)]
    /\ UNCHANGED <<overdue, authority, journal, applied, agent, child, controls, faults>>

Crash ==
    /\ agent.at # "off"
    /\ faults < MaxFaults
    /\ faults' = faults + 1
    /\ Exit
    /\ UNCHANGED <<row, overdue, authority, journal, applied, child, controls>>

\* The script of a dead process ends and with it the locks are free.
OrphanEnds ==
    /\ agent.at = "off"
    /\ child # NoChild
    /\ child' = NoChild
    /\ UNCHANGED <<row, overdue, authority, journal, applied, agent, controls, faults>>

-----------------------------------------------------------------------------
Operator(r) ==
    \/ Create(r) \/ Confirm(r) \/ Approve(r) \/ Hold(r) \/ Resume(r)
    \/ RequestCancel(r) \/ Retry(r) \/ ExpireByWeb(r)

Before == Expire \/ Admit \/ Claim \/ ClaimRejected

Run ==
    \/ WriteReceipt \/ GiveUp \/ RecordAdmission \/ Control
    \/ CheckPasses \/ CheckFindsControl \/ CheckRefuses \/ CheckFails
    \/ Announce \/ Dispatch \/ Conclude \/ AnswerControl
    \/ Finish \/ WriteBack \/ WriteBackOvertaken \/ WriteBackFails

Script == Act \/ Succeeds \/ Rejects \/ Wavers \/ Breaks \/ OrphanEnds

Next ==
    \/ \E r \in Requests : Overdue(r) \/ LeaseRunsOut(r) \/ Operator(r) \/ Start(r)
    \/ Suspend \/ Reinstate
    \/ Before \/ Run \/ Script \/ Pulse \/ Crash

Spec == Init /\ [][Next]_vars

\* The process runs on; leases nobody renews and times to live run out; and
\* the operators run the agent again for every request that is not over.
\* Nothing makes a dispatched script end.
Fairness ==
    /\ WF_vars(Before)
    /\ WF_vars(Run)
    /\ \A r \in Requests :
        /\ SF_vars(Start(r))
        /\ WF_vars(Overdue(r))
        /\ WF_vars(~Serving(r) /\ LeaseRunsOut(r))

FairSpec == Spec /\ Fairness

-----------------------------------------------------------------------------
(* Properties                                                              *)

\* Every variable has its type.
TypeOK ==
    /\ row \in [Requests -> Row]
    /\ overdue \in [Requests -> BOOLEAN]
    /\ authority \in BOOLEAN
    /\ journal \in [Requests -> Journal]
    /\ \A r \in Requests : applied[r] \in [DOMAIN Plan[r] -> Nat]
    /\ agent \in AgentState
    /\ child \in Child
    /\ controls \in Nat
    /\ faults \in Nat

Effects(r) == {i \in DOMAIN Plan[r] : IsEffect(r, i)}

Untouched(r) == \A i \in DOMAIN Plan[r] : applied[r][i] = 0

\* No effect phase changes the installation twice, whatever is crashed,
\* recovered, resumed or retried.
EffectAtMostOnce ==
    \A r \in Requests : \A i \in DOMAIN Plan[r] : applied[r][i] <= 1

\* A request that waits for a decision or a new claim has had no effect: a
\* hold is confirmed, a retry offered, only when nothing was done.
WaitingIsUntouched ==
    \A r \in Requests :
        (row[r].lease = "none"
            /\ (row[r].status \notin {"SUCCEEDED", "FAILED"} \/ row[r].retryable))
        => Untouched(r)

\* A durable success is final: no control, expiry or number of crashes during
\* the write-back adds to its journal or gives the row another end.
SuccessIsKept ==
    [][\A r \in Requests :
        journal[r].last.outcome = "SUCCEEDED"
            => /\ journal'[r] = journal[r]
               /\ row'[r].status \in Leased \cup {"SUCCEEDED"}]_vars

\* What the row says of the effects.
Standing(r) ==
    CASE row[r].status = "SUCCEEDED" -> "done"
      [] row[r].status \in {"CANCELLED", "EXPIRED"} -> "stopped"
      [] row[r].status = "FAILED" ->
            IF row[r].code = "NEEDS_RECONCILIATION" THEN "uncertain" ELSE "stopped"
      [] OTHER -> "open"

Promise == INSTANCE OperationPromise WITH
    Total <- [r \in Requests |-> Cardinality(Effects(r))],
    verdict <- [r \in Requests |-> Standing(r)],
    applied <- [r \in Requests |-> Cardinality({i \in Effects(r) : applied[r][i] > 0})]

\* The executor implements OperationPromise: effects only of an open request,
\* one request at a time, and a verdict that tells the truth about them.
KeepsPromise == Promise!Spec

\* A cancellation asked of a running request is answered, unless a script
\* hangs: neither a dead process nor a request resumed meanwhile prevents it.
CancelIsAnswered ==
    \A r \in Requests :
        row[r].status = "CANCEL_REQUESTED"
            ~> row[r].status \in Terminal \/ child.req = r

\* A durable success reaches the database.
SuccessIsReported ==
    \A r \in Requests :
        journal[r].last.outcome = "SUCCEEDED" ~> row[r].status = "SUCCEEDED"

\* No queued request waits for ever, unless a script hangs: two resumed
\* requests that block each other are ended by their times to live.
QueuedEnds ==
    \A r \in Requests :
        row[r].status = "QUEUED" ~> row[r].status # "QUEUED" \/ child # NoChild

\* docs/modules/controlled-operations.md: only an unknown effect needs
\* reconciliation.  A request whose journal ends with a verdict that states
\* executionAttempted = false is not sent to reconciliation next.
OnlyUnknownNeedsReconciliation ==
    [][\A r \in Requests :
        journal[r].last.kind = "terminal" /\ ~journal[r].last.attempted
            => journal'[r].last.kind # "reconciliation"]_vars
=============================================================================
