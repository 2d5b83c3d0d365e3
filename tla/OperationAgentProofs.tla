------------------------- MODULE OperationAgentProofs -------------------------
(***************************************************************************)
(* Proofs about OperationAgent, for any requests, plans of any length and  *)
(* any bounds, and that it implements OperationPromise.  The inductive     *)
(* invariant ties the three stores together: what a row says of effects    *)
(* (RowInv), what a journal does (JournalInv), where a script may be       *)
(* (ChildInv), what the process knows (WorkInv), and that no other request *)
(* is half done meanwhile (ScopeInv).                                      *)
(***************************************************************************)
EXTENDS OperationAgent, FiniteSetTheorems, TLAPS

-----------------------------------------------------------------------------
(* The inductive invariant                                                 *)

\* A process that has claimed its request, and one in the loop of runPhases.
Working == Points \ {"off", "read", "claim"}

Loop == {"control", "check", "announce", "recheck", "execute", "conclude", "stop"}

Complete(r) == \A i \in DOMAIN Plan[r] : IsEffect(r, i) => applied[r][i] > 0

\* A verdict tells the truth about the effects of r.
Truthful(v, r) ==
    /\ v.outcome \in {"SUCCEEDED", "FAILED", "HELD", "CANCELLED"}
    /\ v.kind = IF v.code = "NEEDS_RECONCILIATION" THEN "reconciliation" ELSE "terminal"
    /\ v.code = "NEEDS_RECONCILIATION" => v.outcome = "FAILED"
    /\ v.outcome = "SUCCEEDED" => Complete(r)
    /\ v.outcome # "SUCCEEDED" /\ v.code # "NEEDS_RECONCILIATION" => Untouched(r)

\* Only the row of a claimed request has a lease, and a row without one tells the
\* truth about the effects.
RowOf(r) ==
    /\ row[r].lease # "none" => row[r].status \in Leased
    /\ row[r].status \in {"RUNNING", "CANCEL_REQUESTED"} => row[r].lease # "none"
    /\ row[r].lease = "none" /\ row[r].status \notin {"SUCCEEDED", "FAILED"} => Untouched(r)
    /\ row[r].status = "SUCCEEDED" => Complete(r)
    /\ row[r].status = "FAILED" =>
          IF row[r].code = "NEEDS_RECONCILIATION"
          THEN journal[r].last.kind = "reconciliation"
          ELSE Untouched(r)
    /\ row[r].retryable => row[r].status = "FAILED" /\ row[r].code # "NEEDS_RECONCILIATION"

RowInv == \A r \in Requests : RowOf(r)

\* The latest claim can prove that the last event is its own, or the one it writes back.
Receipt(r) == \/ journal[r].last.gen = row[r].attempt
              \/ row[r].receipt = journal[r].length

\* An effect is announced before it happens, and happens once; a verdict that is
\* the last event is true, and a success stays in reach of the row.
JournalOf(r) ==
    /\ journal[r].length = 0 => journal[r] = Empty
    /\ \A i \in DOMAIN Plan[r] : /\ applied[r][i] <= 1
                                 /\ applied[r][i] > 0 => IsEffect(r, i) /\ journal[r].attempted
    /\ journal[r].last.kind \in {"terminal", "reconciliation"} => Truthful(journal[r].last, r)
    /\ journal[r].last.outcome = "SUCCEEDED" =>
          /\ journal[r].last.kind = "terminal"
          /\ \/ row[r].status = "SUCCEEDED"
             \/ row[r].lease # "none" /\ Receipt(r)

JournalInv == \A r \in Requests : JournalOf(r)

\* A script belongs to the process, or to a dead one whose claim nobody has taken over.
ChildInv ==
    /\ child # NoChild =>
          /\ child.req \in Requests
          /\ child.step \in DOMAIN Plan[child.req]
          /\ row[child.req].lease # "none"
          /\ journal[child.req].last.kind = "started"
          /\ IsEffect(child.req, child.step) => journal[child.req].attempted
          /\ ~child.done => applied[child.req][child.step] = 0
          /\ child.done => IsEffect(child.req, child.step) /\ applied[child.req][child.step] > 0
          /\ agent.at \in {"off", "execute"}
    /\ agent.at = "execute" => /\ child # NoChild
                               /\ child.req = Req /\ child.step = agent.step

\* The phases before the present one have been done, the later ones have not.
Progress ==
    /\ agent.step \in DOMAIN Plan[Req]
    /\ \A i \in DOMAIN Plan[Req] :
          /\ i < agent.step /\ IsEffect(Req, i) => applied[Req][i] > 0
          /\ i > agent.step => applied[Req][i] = 0
    /\ agent.at = "conclude" /\ IsEffect(Req, agent.step) => applied[Req][agent.step] > 0
    /\ agent.at \notin {"execute", "conclude"} => applied[Req][agent.step] = 0

\* What the process remembers of its effects is what there may be of them.
LoopInv ==
    /\ Progress
    /\ journal[Req].last.kind \in {"admission", "started", "complete"}
    /\ journal[Req].last.outcome = "NONE"
    /\ ~agent.attempted => Untouched(Req)
    /\ agent.at = "execute" /\ ~agent.attempted => ~IsEffect(Req, agent.step)
    /\ agent.completed => agent.attempted
    /\ ~agent.completed =>
          \A i \in DOMAIN Plan[Req] :
             i < agent.step \/ (i = agent.step /\ agent.at = "conclude") => ~IsEffect(Req, i)
    /\ agent.at \in {"check", "stop"} => ~agent.attempted
    /\ agent.at \in {"recheck", "execute"} =>
          /\ journal[Req].last.kind = "started"
          /\ IsEffect(Req, agent.step) => journal[Req].attempted

WorkInv ==
    /\ agent.at # "off" => Req \in Requests
    /\ agent.at \in Working => row[Req].lease # "none"
    /\ agent.at \in {"read", "claim", "admit"} => ~agent.attempted /\ ~agent.completed
    /\ agent.at = "admit" =>
          /\ agent.step = 1
          /\ agent.receipt => /\ journal[Req].last.kind = "terminal"
                              /\ row[Req].receipt = journal[Req].length
          /\ ~agent.receipt => journal[Req].last.outcome # "SUCCEEDED"
    /\ agent.at \in Loop => LoopInv
    /\ agent.at \in {"finish", "writeback"} => Truthful(agent.verdict, Req)
    /\ agent.at = "finish" => /\ agent.verdict.gen = row[Req].attempt
                              /\ journal[Req].last.outcome # "SUCCEEDED"
    /\ agent.at = "writeback" => agent.verdict = journal[Req].last /\ Receipt(Req)

\* Nothing of q is half done or in doubt.
Clear(q) ==
    \/ row[q].status = "SUCCEEDED"
    \/ /\ Untouched(q)
       /\ row[q].status = "FAILED" => row[q].code # "NEEDS_RECONCILIATION"

ScopeInv ==
    /\ agent.at \notin {"off", "read"} => \A q \in Requests \ {Req} : Clear(q)
    /\ child # NoChild => \A q \in Requests \ {child.req} : Clear(q)

\* The inductive invariant
IInv ==
    /\ TypeOK
    /\ applied = [r \in Requests |-> applied[r]]
    /\ RowInv
    /\ JournalInv
    /\ ChildInv
    /\ WorkInv
    /\ ScopeInv

-----------------------------------------------------------------------------
(* Families of steps                                                       *)

\* A plan is a nonempty sequence of phases.
LEMMA PlanFacts ==
  ASSUME NEW r \in Requests
  PROVE  /\ Len(Plan[r]) \in Nat \ {0}
         /\ DOMAIN Plan[r] = 1 .. Len(Plan[r])
         /\ 1 \in DOMAIN Plan[r]
<1>1. Plan[r] \in Seq(PhaseKinds) /\ Plan[r] # <<>>
  BY ConstantsAssumption
<1>2. Len(Plan[r]) \in Nat /\ DOMAIN Plan[r] = 1 .. Len(Plan[r])
  BY <1>1
<1>3. Len(Plan[r]) # 0
  BY <1>1
<1> QED
  BY <1>2, <1>3

\* Nothing changes but clocks and accounts, or the process ends as well.
LEMMA QuietKeeps ==
  ASSUME IInv,
         UNCHANGED <<row, journal, applied, child>>,
         agent' = agent \/ agent' = Off,
         overdue' \in [Requests -> BOOLEAN], authority' \in BOOLEAN,
         controls' \in Nat, faults' \in Nat
  PROVE  IInv'
<1>1. /\ Off \in AgentState /\ Off.at = "off"
  BY DEF Off, AgentState, Points, NoEvent, Event, Kinds, Outcomes, Codes
<1>2. TypeOK' /\ applied' = [r \in Requests |-> applied'[r]]
  BY <1>1 DEF IInv, TypeOK
<1>3. RowInv' /\ JournalInv'
  BY
     DEF IInv, RowInv, RowOf, JournalInv, JournalOf, Receipt, Truthful, Complete, Untouched
<1>4. ChildInv' /\ ScopeInv'
  BY <1>1 DEF IInv, ChildInv, ScopeInv, Clear, Untouched, Req
<1>5. WorkInv'
  <2>1. CASE agent' = agent
    BY <2>1
       DEF IInv, WorkInv, LoopInv, Progress, Truthful, Complete, Untouched, Receipt, Req
  <2>2. CASE agent' = Off
    BY <1>1, <2>2 DEF WorkInv, Working, Loop
  <2> QED BY <2>1, <2>2
<1> QED
  BY <1>2, <1>3, <1>4, <1>5 DEF IInv

\* An operator, a clock or a heartbeat changes a row, never its claim.
LEMMA RowKeeps ==
  ASSUME IInv, NEW r \in Requests, NEW q \in Row,
         row' = [row EXCEPT ![r] = q],
         row[r].status # "SUCCEEDED",
         q.lease = "none" <=> row[r].lease = "none",
         q.attempt = row[r].attempt, q.receipt = row[r].receipt, ~q.retryable,
         q.lease # "none" => q.status \in Leased,
         q.lease = "none" => /\ q.status \notin {"RUNNING", "CANCEL_REQUESTED", "SUCCEEDED", "FAILED"}
                             /\ Untouched(r),
         UNCHANGED <<journal, applied, child>>,
         agent' = agent \/ agent' = Off,
         overdue' \in [Requests -> BOOLEAN], authority' \in BOOLEAN,
         controls' \in Nat, faults' \in Nat
  PROVE  IInv'
<1>1. /\ Off \in AgentState /\ Off.at = "off"
  BY DEF Off, AgentState, Points, NoEvent, Event, Kinds, Outcomes, Codes
<1>2. /\ row' \in [Requests -> Row]
      /\ row'[r] = q
      /\ \A p \in Requests : p # r => row'[p] = row[p]
  BY DEF IInv, TypeOK
<1>3. TypeOK' /\ applied' = [p \in Requests |-> applied'[p]]
  BY <1>1, <1>2 DEF IInv, TypeOK
<1>4. RowInv'
  <2> SUFFICES ASSUME NEW p \in Requests PROVE RowOf(p)'
    BY DEF RowInv
  <2>1. CASE p = r
    BY <1>2, <2>1 DEF RowOf, Untouched, Leased
  <2>2. CASE p # r
    BY <1>2, <2>2 DEF IInv, RowInv, RowOf, Untouched, Complete
  <2> QED BY <2>1, <2>2
<1>5. JournalInv'
  BY <1>2 DEF IInv, JournalInv, JournalOf, Receipt, Truthful, Complete, Untouched
<1>6. ChildInv'
  BY <1>1, <1>2 DEF IInv, ChildInv, Req
<1>7. WorkInv'
  <2>1. CASE agent' = agent
    BY SMTT(20), <1>2, <2>1
       DEF IInv, WorkInv, LoopInv, Progress, Truthful, Complete, Untouched, Receipt, Req
  <2>2. CASE agent' = Off
    BY <1>1, <2>2 DEF WorkInv, Working, Loop
  <2> QED BY <2>1, <2>2
<1>8. ScopeInv'
  <2>1. \A p \in Requests : Clear(p) => Clear(p)'
    BY <1>2 DEF Clear, Untouched, Leased
  <2> QED
    BY <1>1, <2>1 DEF IInv, ScopeInv, ChildInv, Req
<1> QED
  BY <1>3, <1>4, <1>5, <1>6, <1>7, <1>8 DEF IInv

\* A heartbeat of the process changes at most the status of its claimed row.
Beat == \/ UNCHANGED row
        \/ \E s \in Leased : row' = [row EXCEPT ![Req].status = s]

\* The process goes on from one point to another with no script at work: whatever is
\* not in its memory stays true.
LEMMA MemoryKeeps ==
  ASSUME IInv, agent.at \in Working, NEW a \in AgentState,
         agent' = a, a.req = Req, a.at \in Working \ {"execute"},
         child' = NoChild, Beat,
         UNCHANGED <<overdue, authority, journal, applied, controls>>, faults' \in Nat
  PROVE  /\ Req \in Requests
         /\ TypeOK' /\ applied' = [p \in Requests |-> applied'[p]]
         /\ RowInv' /\ JournalInv' /\ ChildInv' /\ ScopeInv'
         /\ row'[Req].lease = row[Req].lease /\ row[Req].lease # "none"
         /\ row'[Req].attempt = row[Req].attempt /\ row'[Req].receipt = row[Req].receipt
<1>1. /\ Req \in Requests
      /\ row \in [Requests -> Row]
      /\ row[Req].lease # "none" /\ row[Req].status \in Leased
      /\ ~row[Req].retryable
  BY DEF IInv, TypeOK, RowInv, RowOf, WorkInv, Working, Leased
<1>2. PICK q \in Row :
        /\ row' = [row EXCEPT ![Req] = q]
        /\ q.status \in Leased
        /\ q.lease = row[Req].lease /\ q.attempt = row[Req].attempt
        /\ q.receipt = row[Req].receipt /\ ~q.retryable
  <2>1. CASE UNCHANGED row
    <3>1. row' = [row EXCEPT ![Req] = row[Req]]
      BY <1>1, <2>1
    <3> QED BY <1>1, <3>1
  <2>2. ASSUME NEW s \in Leased, row' = [row EXCEPT ![Req].status = s]
        PROVE  \E q \in Row : /\ row' = [row EXCEPT ![Req] = q]
                              /\ q.status \in Leased
                              /\ q.lease = row[Req].lease /\ q.attempt = row[Req].attempt
                              /\ q.receipt = row[Req].receipt /\ ~q.retryable
    <3> DEFINE q == [row[Req] EXCEPT !.status = s]
    <3>1. /\ q \in Row /\ q.status = s
          /\ q.lease = row[Req].lease /\ q.attempt = row[Req].attempt
          /\ q.receipt = row[Req].receipt /\ ~q.retryable
      BY <1>1 DEF Row, Statuses
    <3>2. row' = [row EXCEPT ![Req] = q]
      BY <2>2, <1>1
    <3> HIDE DEF q
    <3> QED BY <3>1, <3>2
  <2> QED BY <2>1, <2>2 DEF Beat
<1>3. /\ row' \in [Requests -> Row]
      /\ row'[Req] = q
      /\ \A p \in Requests : p # Req => row'[p] = row[p]
  BY <1>1, <1>2
<1>4. TypeOK' /\ applied' = [p \in Requests |-> applied'[p]]
  <2>1. NoChild \in Child
    BY DEF NoChild, Child
  <2> QED
    BY <1>3, <2>1 DEF IInv, TypeOK
<1>5. RowInv'
  <2> SUFFICES ASSUME NEW p \in Requests PROVE RowOf(p)'
    BY DEF RowInv
  <2>1. CASE p = Req
    BY <1>1, <1>2, <1>3, <2>1 DEF RowOf, Leased
  <2>2. CASE p # Req
    BY <1>3, <2>2 DEF IInv, RowInv, RowOf, Untouched, Complete
  <2> QED BY <2>1, <2>2
<1>6. JournalInv'
  <2> SUFFICES ASSUME NEW p \in Requests PROVE JournalOf(p)'
    BY DEF JournalInv
  <2>1. JournalOf(p) /\ (row[p].status = "SUCCEEDED" => p # Req)
    BY <1>1 DEF IInv, JournalInv, Leased
  <2> QED
    BY <1>1, <1>2, <1>3, <2>1 DEF JournalOf, Receipt, Truthful, Complete, Untouched
<1>7. ChildInv'
  BY DEF ChildInv
<1>8. ScopeInv'
  <2>1. agent.at \notin {"off", "read"}
    BY DEF Working
  <2>2. \A p \in Requests \ {Req} : Clear(p)'
    BY <1>3, <2>1 DEF IInv, ScopeInv, Clear, Untouched
  <2> QED
    BY <2>2 DEF ScopeInv, Req
<1> QED
  BY <1>1, <1>2, <1>3, <1>4, <1>5, <1>6, <1>7, <1>8

\* The process has a verdict.
LEMMA VerdictKeeps ==
  ASSUME IInv, agent.at \in Working, NEW v \in Event,
         ToFinish(v), Truthful(v, Req), v.gen = row[Req].attempt,
         journal[Req].last.outcome # "SUCCEEDED",
         child' = NoChild, Beat,
         UNCHANGED <<overdue, authority, journal, applied, controls>>, faults' \in Nat
  PROVE  IInv'
<1> DEFINE a == [agent EXCEPT !.at = "finish", !.verdict = v]
<1>1. agent \in AgentState
  BY DEF IInv, TypeOK
<1>2. /\ a \in AgentState
      /\ a.at = "finish" /\ a.req = Req /\ a.verdict = v
  BY <1>1 DEF AgentState, Points, Req
<1>3. agent' = a
  BY DEF ToFinish
<1> HIDE DEF a
<1>4. "finish" \in Working \ {"execute"}
  BY DEF Working, Points
<1>5. /\ Req \in Requests
      /\ TypeOK' /\ applied' = [p \in Requests |-> applied'[p]]
      /\ RowInv' /\ JournalInv' /\ ChildInv' /\ ScopeInv'
      /\ row'[Req].lease = row[Req].lease /\ row[Req].lease # "none"
      /\ row'[Req].attempt = row[Req].attempt
  BY <1>2, <1>3, <1>4, MemoryKeeps
<1>6. WorkInv'
  BY <1>2, <1>3, <1>5 DEF WorkInv, Truthful, Complete, Untouched, Loop, Req
<1> QED
  BY <1>5, <1>6 DEF IInv

\* The journal grows by an event of the loop or by a true verdict, whether or not the
\* process lives on.
LEMMA LogKeeps ==
  ASSUME IInv, agent.at \in Working \ {"execute"}, NEW e \in Event, Log(e),
         \/ e.kind \in {"admission", "started", "complete"} /\ e.outcome = "NONE"
         \/ Truthful(e, Req) /\ e.gen = row[Req].attempt,
         NEW a \in AgentState, agent' = a,
         a = Off \/ (a.req = Req /\ a.at \in Working \ {"execute"}),
         UNCHANGED <<row, overdue, authority, applied, child, controls>>, faults' \in Nat
  PROVE  /\ Req \in Requests /\ row[Req].lease # "none"
         /\ TypeOK' /\ applied' = [p \in Requests |-> applied'[p]]
         /\ RowInv' /\ JournalInv' /\ ChildInv' /\ ScopeInv'
         /\ journal'[Req].last = e
         /\ journal[Req].attempted \/ e.attempted => journal'[Req].attempted
         /\ a = Off => WorkInv'
<1> DEFINE j == Appended(journal[Req], e)
<1>1. /\ Req \in Requests
      /\ row[Req].lease # "none" /\ row[Req].status \in Leased
      /\ journal \in [Requests -> Journal] /\ journal[Req] \in Journal
      /\ child = NoChild
      /\ Off.at = "off"
  BY DEF IInv, TypeOK, RowInv, RowOf, WorkInv, Working, ChildInv, Off
<1>2. /\ j \in Journal
      /\ j.last = e /\ j.length # 0
      /\ journal[Req].attempted \/ e.attempted => j.attempted
      /\ j.attempted = (journal[Req].attempted \/ e.attempted)
  <2>1. /\ journal[Req].length \in Nat /\ journal[Req].attempted \in BOOLEAN
        /\ journal[Req].uncertain \in BOOLEAN /\ e.attempted \in BOOLEAN
    BY <1>1 DEF Journal, Event
  <2> QED
    BY <2>1 DEF Appended, Journal
<1>3. journal' = [journal EXCEPT ![Req] = j]
  BY DEF Log
<1> HIDE DEF j
<1>4. /\ journal' \in [Requests -> Journal]
      /\ journal'[Req] = j
      /\ \A p \in Requests : p # Req => journal'[p] = journal[p]
  BY <1>1, <1>2, <1>3
<1>5. TypeOK' /\ applied' = [p \in Requests |-> applied'[p]]
  BY <1>4 DEF IInv, TypeOK
<1>6. RowInv'
  <2> SUFFICES ASSUME NEW p \in Requests PROVE RowOf(p)'
    BY DEF RowInv
  <2>1. CASE p = Req
    BY <1>1, <2>1 DEF IInv, RowInv, RowOf, Untouched, Leased
  <2>2. CASE p # Req
    BY <1>4, <2>2 DEF IInv, RowInv, RowOf, Untouched, Complete
  <2> QED BY <2>1, <2>2
<1>7. JournalInv'
  <2> SUFFICES ASSUME NEW p \in Requests PROVE JournalOf(p)'
    BY DEF JournalInv
  <2>1. CASE p = Req
    <3>1. \A i \in DOMAIN Plan[Req] : /\ applied[Req][i] <= 1
                                      /\ applied[Req][i] > 0 => IsEffect(Req, i) /\ j.attempted
      BY <1>1, <1>2 DEF IInv, JournalInv, JournalOf
    <3>2. j.last.kind \in {"terminal", "reconciliation"} => Truthful(j.last, Req)
      BY <1>2
    <3>3. j.last.outcome = "SUCCEEDED" => j.last.kind = "terminal" /\ j.last.gen = row[Req].attempt
      BY <1>2 DEF Truthful
    <3>4. journal'[p] = j /\ row'[p] = row[Req] /\ row[p].lease # "none" /\ applied' = applied
      BY <1>1, <1>4, <2>1
    <3>5. (Truthful(journal[p].last, p)') <=> Truthful(j.last, Req)
      BY <2>1, <3>4 DEF Truthful, Complete, Untouched
    <3>6. journal'[p].length # 0
      BY <1>2, <3>4
    <3>7. \A i \in DOMAIN Plan[p] : /\ applied'[p][i] <= 1
                                    /\ applied'[p][i] > 0 => IsEffect(p, i) /\ journal'[p].attempted
      BY <2>1, <3>1, <3>4
    <3>8. journal'[p].last.kind \in {"terminal", "reconciliation"} => Truthful(journal[p].last, p)'
      BY <3>2, <3>4, <3>5
    <3>9. journal'[p].last.outcome = "SUCCEEDED" =>
            /\ journal'[p].last.kind = "terminal"
            /\ row'[p].lease # "none"
            /\ journal'[p].last.gen = row'[p].attempt
      BY <2>1, <3>3, <3>4
    <3> QED
      BY <3>6, <3>7, <3>8, <3>9 DEF JournalOf, Receipt
  <2>2. CASE p # Req
    BY <1>4, <2>2 DEF IInv, JournalInv, JournalOf, Receipt, Truthful, Complete, Untouched
  <2> QED BY <2>1, <2>2
<1>8. ChildInv'
  BY <1>1 DEF ChildInv
<1>9. ScopeInv'
  <2>1. agent.at \notin {"off", "read"}
    BY DEF Working
  <2>2. \A p \in Requests \ {Req} : Clear(p)'
    BY <1>4, <2>1 DEF IInv, ScopeInv, Clear, Untouched
  <2> QED
    BY <1>1, <2>2 DEF ScopeInv, Req
<1>10. a = Off => WorkInv'
  BY <1>1 DEF WorkInv, Working, Loop
<1> QED
  BY <1>1, <1>2, <1>4, <1>5, <1>6, <1>7, <1>8, <1>9, <1>10

-----------------------------------------------------------------------------
(* Clocks, accounts and operators                                          *)

\* What a heartbeat leaves behind.
LEMMA BeatenFacts ==
  ASSUME NEW r, row[r].status \in Leased
  PROVE  Beaten(r) \in Leased
BY DEF Beaten, Leased

\* A time to live runs out.
LEMMA ClockKeeps ==
  ASSUME IInv, NEW r \in Requests, Overdue(r)
  PROVE  IInv'
<1>1. /\ UNCHANGED <<row, authority, journal, applied, child, agent, controls, faults>>
  BY DEF Overdue
<1>2. /\ overdue \in [Requests -> BOOLEAN] /\ authority \in BOOLEAN
      /\ controls \in Nat /\ faults \in Nat
  BY DEF IInv, TypeOK
<1>3. overdue' \in [Requests -> BOOLEAN]
  BY <1>2 DEF Overdue
<1> QED
  BY <1>1, <1>2, <1>3, QuietKeeps

\* What a row may turn into without a claim or a verdict.
RowStep(r, q) ==
    /\ row' = [row EXCEPT ![r] = q]
    /\ row[r].status # "SUCCEEDED"
    /\ row[r].status = "FAILED" => row[r].retryable
    /\ (q.lease = "none" <=> row[r].lease = "none")
    /\ q.attempt = row[r].attempt /\ q.receipt = row[r].receipt /\ ~q.retryable
    /\ q.lease # "none" => q.status \in Leased
    /\ q.lease = "none" => /\ q.status \notin {"RUNNING", "CANCEL_REQUESTED", "SUCCEEDED", "FAILED"}
                           /\ Untouched(r)

\* A status is set; what that needs.
LEMMA StatusStep ==
  ASSUME IInv, NEW r \in Requests, NEW s \in Statuses,
         row' = [row EXCEPT ![r].status = s] \/ row' = [row EXCEPT ![r].status = s, ![r].retryable = FALSE]
            \/ row' = [row EXCEPT ![r] = [row[r] EXCEPT !.status = s]],
         row[r].status \notin {"SUCCEEDED", "FAILED"},
         row[r].lease # "none" => s \in Leased,
         row[r].lease = "none" => s \notin {"RUNNING", "CANCEL_REQUESTED", "SUCCEEDED", "FAILED"}
  PROVE  \E q \in Row : RowStep(r, q)
<1> DEFINE q == [row[r] EXCEPT !.status = s, !.retryable = FALSE]
<1>1. /\ row \in [Requests -> Row]
      /\ ~row[r].retryable /\ row[r].retryable \in BOOLEAN
      /\ row[r].lease = "none" => Untouched(r)
  BY DEF IInv, TypeOK, RowInv, RowOf, Row
<1>2. /\ q \in Row
      /\ q.status = s /\ q.lease = row[r].lease /\ ~q.retryable
      /\ q.attempt = row[r].attempt /\ q.receipt = row[r].receipt
  BY <1>1 DEF Row
<1>3. row' = [row EXCEPT ![r] = q]
  BY <1>1 DEF Row
<1> HIDE DEF q
<1> QED
  BY <1>1, <1>2, <1>3 DEF RowStep

\* The commands of the web application.
LEMMA OperatorKeeps ==
  ASSUME IInv, NEW r \in Requests, Operator(r)
  PROVE  IInv' /\ UNCHANGED applied /\ \E q \in Row : RowStep(r, q)
<1>1. /\ UNCHANGED <<journal, applied, child, agent, overdue, authority, faults>>
      /\ overdue \in [Requests -> BOOLEAN] /\ authority \in BOOLEAN
      /\ controls' \in Nat /\ faults \in Nat
      /\ RowOf(r)
      /\ row[r].status \in Statuses
  <2>1. controls \in Nat /\ controls + 1 \in Nat
    BY DEF IInv, TypeOK
  <2>2. row \in [Requests -> Row]
    BY DEF IInv, TypeOK
  <2>3. /\ UNCHANGED <<journal, applied, child, agent, overdue, authority, faults>>
        /\ controls' = controls \/ controls' = controls + 1
    BY
       DEF Operator, Create, Confirm, Approve, Hold, Resume, RequestCancel, Retry, ExpireByWeb, Command
  <2> QED
    BY <2>1, <2>2, <2>3 DEF IInv, TypeOK, RowInv, Row
<1>2. \E q \in Row : RowStep(r, q)
  <2>1. CASE Create(r)
    <3>1. PICK s \in {"PREVIEWED", "CONFIRMATION_REQUIRED"} :
             row' = [row EXCEPT ![r].status = s]
      BY <2>1 DEF Create
    <3>2. row[r].status \notin {"SUCCEEDED", "FAILED"} /\ row[r].lease = "none"
      BY <1>1, <2>1, <3>1 DEF Create, RowOf, Leased, Terminal
    <3>3. /\ s \in Statuses
          /\ row[r].lease # "none" => s \in Leased
          /\ row[r].lease = "none" => s \notin {"RUNNING", "CANCEL_REQUESTED", "SUCCEEDED", "FAILED"}
      BY <1>1, <2>1, <3>1, <3>2 DEF Create, RowOf, Leased, Terminal, Statuses
    <3> QED
      BY <3>1, <3>2, <3>3, StatusStep
  <2>2. CASE Confirm(r)
    <3>1. PICK s \in {"QUEUED", "APPROVAL_REQUIRED"} : row' = [row EXCEPT ![r].status = s]
      BY <2>2 DEF Confirm
    <3>2. row[r].status \notin {"SUCCEEDED", "FAILED"} /\ row[r].lease = "none"
      BY <1>1, <2>2, <3>1 DEF Confirm, RowOf, Leased, Terminal
    <3>3. /\ s \in Statuses
          /\ row[r].lease # "none" => s \in Leased
          /\ row[r].lease = "none" => s \notin {"RUNNING", "CANCEL_REQUESTED", "SUCCEEDED", "FAILED"}
      BY <1>1, <2>2, <3>1, <3>2 DEF Confirm, RowOf, Leased, Terminal, Statuses
    <3> QED
      BY <3>1, <3>2, <3>3, StatusStep
  <2>3. CASE Approve(r)
    <3>1. PICK s \in {"QUEUED"} : row' = [row EXCEPT ![r].status = s]
      BY <2>3 DEF Approve
    <3>2. row[r].status \notin {"SUCCEEDED", "FAILED"} /\ row[r].lease = "none"
      BY <1>1, <2>3, <3>1 DEF Approve, RowOf, Leased, Terminal
    <3>3. /\ s \in Statuses
          /\ row[r].lease # "none" => s \in Leased
          /\ row[r].lease = "none" => s \notin {"RUNNING", "CANCEL_REQUESTED", "SUCCEEDED", "FAILED"}
      BY <1>1, <2>3, <3>1, <3>2 DEF Approve, RowOf, Leased, Terminal, Statuses
    <3> QED
      BY <3>1, <3>2, <3>3, StatusStep
  <2>4. CASE Hold(r)
    <3>1. PICK s \in {"HELD"} : row' = [row EXCEPT ![r] = [row[r] EXCEPT !.status = s]]
      BY <2>4 DEF Hold, Command
    <3>2. row[r].status \notin {"SUCCEEDED", "FAILED"} 
      BY <1>1, <2>4, <3>1 DEF Hold, Command, RowOf, Leased, Terminal
    <3>3. /\ s \in Statuses
          /\ row[r].lease # "none" => s \in Leased
          /\ row[r].lease = "none" => s \notin {"RUNNING", "CANCEL_REQUESTED", "SUCCEEDED", "FAILED"}
      BY <1>1, <2>4, <3>1, <3>2 DEF Hold, Command, RowOf, Leased, Terminal, Statuses
    <3> QED
      BY <3>1, <3>2, <3>3, StatusStep
  <2>5. CASE Resume(r)
    <3>1. PICK s \in {"QUEUED"} : row' = [row EXCEPT ![r] = [row[r] EXCEPT !.status = s]]
      BY <2>5 DEF Resume, Executing, Command
    <3>2. row[r].status \notin {"SUCCEEDED", "FAILED"} /\ row[r].lease = "none"
      BY <1>1, <2>5, <3>1 DEF Resume, Executing, Command, RowOf, Leased, Terminal
    <3>3. /\ s \in Statuses
          /\ row[r].lease # "none" => s \in Leased
          /\ row[r].lease = "none" => s \notin {"RUNNING", "CANCEL_REQUESTED", "SUCCEEDED", "FAILED"}
      BY <1>1, <2>5, <3>1, <3>2
         DEF Resume, Executing, Command, RowOf, Leased, Terminal, Statuses
    <3> QED
      BY <3>1, <3>2, <3>3, StatusStep
  <2>6. CASE RequestCancel(r)
    <3>1. PICK s \in {"CANCEL_REQUESTED", "CANCELLED"} :
             /\ row' = [row EXCEPT ![r] = [row[r] EXCEPT !.status = s]]
             /\ s = "CANCEL_REQUESTED" <=> row[r].lease # "none"
      BY <2>6 DEF RequestCancel, Executing, Command
    <3>2. row[r].status \notin {"SUCCEEDED", "FAILED"} 
      BY <1>1, <2>6, <3>1 DEF RequestCancel, Executing, Command, RowOf, Leased, Terminal
    <3>3. /\ s \in Statuses
          /\ row[r].lease # "none" => s \in Leased
          /\ row[r].lease = "none" => s \notin {"RUNNING", "CANCEL_REQUESTED", "SUCCEEDED", "FAILED"}
      BY <1>1, <2>6, <3>1, <3>2
         DEF RequestCancel, Executing, Command, RowOf, Leased, Terminal, Statuses
    <3> QED
      BY <3>1, <3>2, <3>3, StatusStep
  <2>7. CASE ExpireByWeb(r)
    <3>1. PICK s \in {"CANCEL_REQUESTED", "EXPIRED"} :
             /\ row' = [row EXCEPT ![r].status = s]
             /\ s = "CANCEL_REQUESTED" <=> row[r].lease # "none"
      BY <2>7 DEF ExpireByWeb, Executing
    <3>2. row[r].status \notin {"SUCCEEDED", "FAILED"} 
      BY <1>1, <2>7, <3>1 DEF ExpireByWeb, Executing, RowOf, Leased, Terminal
    <3>3. /\ s \in Statuses
          /\ row[r].lease # "none" => s \in Leased
          /\ row[r].lease = "none" => s \notin {"RUNNING", "CANCEL_REQUESTED", "SUCCEEDED", "FAILED"}
      BY <1>1, <2>7, <3>1, <3>2
         DEF ExpireByWeb, Executing, RowOf, Leased, Terminal, Statuses
    <3> QED
      BY <3>1, <3>2, <3>3, StatusStep
  <2>8. CASE Retry(r)
    <3> DEFINE q == [row[r] EXCEPT !.status = "QUEUED", !.retryable = FALSE]
    <3>1. /\ row' = [row EXCEPT ![r] = q]
          /\ row[r].status = "FAILED" /\ row[r].retryable
      BY <2>8 DEF Retry, Command
    <3>2. /\ row[r] \in Row
          /\ row[r].lease = "none" /\ Untouched(r)
      BY <1>1, <3>1 DEF IInv, TypeOK, RowOf, Leased
    <3>3. /\ q \in Row
          /\ q.status = "QUEUED" /\ q.lease = row[r].lease /\ ~q.retryable
          /\ q.attempt = row[r].attempt /\ q.receipt = row[r].receipt
      BY <3>2 DEF Row, Statuses
    <3> HIDE DEF q
    <3> QED
      BY <3>1, <3>2, <3>3 DEF RowStep
  <2> QED
    BY <2>1, <2>2, <2>3, <2>4, <2>5, <2>6, <2>7, <2>8 DEF Operator
<1> QED
  BY <1>1, <1>2, RowKeeps DEF RowStep

\* A lease runs out.
LEMMA LeaseKeeps ==
  ASSUME IInv, NEW r \in Requests, LeaseRunsOut(r)
  PROVE  IInv' /\ UNCHANGED applied /\ \E q \in Row : RowStep(r, q)
<1> DEFINE q == [row[r] EXCEPT !.lease = "out"]
<1>1. /\ row \in [Requests -> Row] /\ row[r] \in Row
      /\ row[r].status \in Leased /\ row[r].status # "SUCCEEDED"
      /\ row[r].lease = "live" /\ ~row[r].retryable
      /\ faults' \in Nat /\ controls' \in Nat
      /\ overdue' \in [Requests -> BOOLEAN] /\ authority' \in BOOLEAN
  <2>1. /\ faults \in Nat /\ faults + 1 \in Nat
        /\ faults' = faults \/ faults' = faults + 1
    BY DEF IInv, TypeOK, LeaseRunsOut
  <2> QED
    BY <2>1 DEF IInv, TypeOK, LeaseRunsOut, RowInv, RowOf, Leased
<1>2. /\ q \in Row
      /\ q.lease = "out" /\ q.status = row[r].status /\ q.retryable = row[r].retryable
      /\ q.attempt = row[r].attempt /\ q.receipt = row[r].receipt
  BY <1>1 DEF Row
<1>3. row' = [row EXCEPT ![r] = q]
  BY <1>1 DEF LeaseRunsOut
<1> HIDE DEF q
<1>4. /\ UNCHANGED <<journal, applied, child, agent>>
      /\ RowStep(r, q)
  BY <1>1, <1>2, <1>3 DEF LeaseRunsOut, RowStep, Leased
<1> QED
  BY <1>1, <1>2, <1>4, RowKeeps DEF RowStep

\* A heartbeat of the timer.
LEMMA PulseKeeps ==
  ASSUME IInv, Pulse
  PROVE  IInv' /\ UNCHANGED applied /\ Req \in Requests /\ \E q \in Row : RowStep(Req, q)
<1>1. /\ Req \in Requests
      /\ row[Req].status \in Leased /\ row[Req].lease # "none"
      /\ row' = [row EXCEPT ![Req].status = Beaten(Req)]
      /\ UNCHANGED <<overdue, authority, journal, applied, agent, child, controls, faults>>
      /\ overdue \in [Requests -> BOOLEAN] /\ authority \in BOOLEAN
      /\ controls \in Nat /\ faults \in Nat
  BY DEF Pulse, HoldsLease, IInv, WorkInv, TypeOK
<1>2. Beaten(Req) \in Leased
  BY <1>1, BeatenFacts
<1>3. \E q \in Row : RowStep(Req, q)
  BY <1>1, <1>2, StatusStep DEF Leased, Statuses
<1> QED
  BY <1>1, <1>3, RowKeeps DEF RowStep

\* The process ends a request that is overdue.
LEMMA ExpireKeeps ==
  ASSUME IInv, Expire
  PROVE  IInv' /\ UNCHANGED applied /\ Req \in Requests /\ \E q \in Row : RowStep(Req, q)
<1>1. /\ Req \in Requests
      /\ row[Req].status \notin Terminal /\ row[Req].lease = "none"
      /\ row' = [row EXCEPT ![Req].status = "EXPIRED", ![Req].retryable = FALSE]
      /\ agent' = Off
      /\ UNCHANGED <<overdue, authority, journal, applied, child, controls, faults>>
      /\ overdue \in [Requests -> BOOLEAN] /\ authority \in BOOLEAN
      /\ controls \in Nat /\ faults \in Nat
  BY DEF Expire, Expirable, Executing, Exit, IInv, WorkInv, TypeOK
<1>2. PICK s \in {"EXPIRED"} :
        row' = [row EXCEPT ![Req].status = s, ![Req].retryable = FALSE]
  BY <1>1
<1>3. s \in Statuses
  BY DEF Terminal, Statuses
<1>4. \E q \in Row : RowStep(Req, q)
  BY <1>1, <1>2, <1>3, StatusStep DEF Terminal
<1> QED
  BY <1>1, <1>4, RowKeeps DEF RowStep

-----------------------------------------------------------------------------
(* The process up to its claim                                             *)

\* The process reads a request and its journal.
LEMMA StartKeeps ==
  ASSUME IInv, NEW r \in Requests, Start(r)
  PROVE  IInv'
<1> DEFINE a == [Off EXCEPT !.at = "read", !.req = r, !.recover = row[r].status # "QUEUED"]
<1>1. /\ a \in AgentState
      /\ a.at = "read" /\ a.req = r /\ ~a.attempted /\ ~a.completed
  BY DEF Off, AgentState, Points, NoEvent, Event, Kinds, Outcomes, Codes
<1>2. agent' = a
  BY DEF Start
<1> HIDE DEF a
<1>3. /\ UNCHANGED <<row, overdue, authority, journal, applied, child, controls, faults>>
      /\ child = NoChild
  BY DEF Start
<1>4. TypeOK' /\ applied' = [p \in Requests |-> applied'[p]]
  BY <1>1, <1>2, <1>3 DEF IInv, TypeOK
<1>5. RowInv' /\ JournalInv'
  BY <1>3
     DEF IInv, RowInv, RowOf, JournalInv, JournalOf, Receipt, Truthful, Complete, Untouched
<1>6. ChildInv' /\ ScopeInv'
  BY <1>1, <1>2, <1>3 DEF ChildInv, ScopeInv
<1>7. WorkInv'
  BY <1>1, <1>2 DEF WorkInv, Working, Loop, Req
<1> QED
  BY <1>4, <1>5, <1>6, <1>7 DEF IInv

\* A request whose journal is settled is not half done.
LEMMA SettledIsClear ==
  ASSUME IInv, NEW q \in Requests, OtherSettled(q)
  PROVE  Clear(q)
<1>1. RowOf(q) /\ JournalOf(q)
  BY DEF IInv, RowInv, JournalInv
<1>2. \A i \in DOMAIN Plan[q] : applied[q][i] \in Nat
  BY DEF IInv, TypeOK
<1>3. CASE journal[q].length = 0 /\ row[q].attempt = 0
  <2>1. ~journal[q].attempted /\ journal[q].last.kind = "none"
    BY <1>1, <1>3 DEF JournalOf, Empty, NoEvent
  <2>2. Untouched(q)
    BY <1>1, <1>2, <2>1 DEF JournalOf, Untouched
  <2> QED
    BY <1>1, <2>1, <2>2 DEF Clear, RowOf
<1>4. CASE /\ journal[q].last.kind = "terminal"
           /\ ~Executing(q)
           /\ row[q].status \in Terminal \cup {"HELD"}
  BY <1>1, <1>4 DEF Executing, RowOf, Clear, Terminal
<1> QED
  BY <1>3, <1>4 DEF OtherSettled

\* The other journals are settled, or the process ends.
LEMMA AdmitKeeps ==
  ASSUME IInv, Admit
  PROVE  IInv'
<1>1. /\ Req \in Requests
      /\ agent.at = "read"
      /\ UNCHANGED <<row, overdue, authority, journal, applied, child, controls, faults>>
      /\ overdue \in [Requests -> BOOLEAN] /\ authority \in BOOLEAN
      /\ controls \in Nat /\ faults \in Nat
  BY DEF Admit, IInv, WorkInv, TypeOK
<1>2. CASE agent' = Off
  BY <1>1, <1>2, QuietKeeps
<1>3. CASE Goto("claim") /\ \A q \in Requests \ {Req} : OtherSettled(q)
  <2> DEFINE a == [agent EXCEPT !.at = "claim"]
  <2>1. agent \in AgentState /\ ~agent.attempted /\ ~agent.completed /\ child = NoChild
    BY <1>1 DEF IInv, TypeOK, WorkInv, ChildInv
  <2>2. /\ a \in AgentState
        /\ a.at = "claim" /\ a.req = Req /\ ~a.attempted /\ ~a.completed
    BY <2>1 DEF AgentState, Points, Req
  <2>3. agent' = a
    BY <1>3 DEF Goto
  <2> HIDE DEF a
  <2>4. TypeOK' /\ applied' = [p \in Requests |-> applied'[p]]
    BY <1>1, <2>2, <2>3 DEF IInv, TypeOK
  <2>5. RowInv' /\ JournalInv'
    BY <1>1
       DEF IInv, RowInv, RowOf, JournalInv, JournalOf, Receipt, Truthful, Complete, Untouched
  <2>6. ChildInv'
    BY <1>1, <2>1, <2>2, <2>3 DEF ChildInv
  <2>7. WorkInv'
    BY <1>1, <2>2, <2>3 DEF WorkInv, Working, Loop, Req
  <2>8. ScopeInv'
    <3>1. \A q \in Requests \ {Req} : Clear(q)
      BY <1>3, SettledIsClear
    <3> QED
      BY <1>1, <2>1, <2>2, <2>3, <3>1 DEF ScopeInv, Clear, Untouched, Req
  <2> QED
    BY <2>4, <2>5, <2>6, <2>7, <2>8 DEF IInv
<1> QED
  BY <1>2, <1>3 DEF Admit, Exit

\* A claim of a journal that ends with a success is made to write that back.
LEMMA ClaimRecovers ==
  ASSUME IInv, Claim, journal[Req].last.outcome = "SUCCEEDED"
  PROVE  RecoversReceipt
<1>1. Req \in Requests /\ agent.at = "claim" /\ Claimable
  BY DEF Claim, IInv, WorkInv
<1>2. RowOf(Req) /\ JournalOf(Req)
  BY <1>1 DEF IInv, RowInv, JournalInv
<1>3. row[Req].status # "SUCCEEDED"
  BY <1>1 DEF Claimable, Leased
<1>4. journal[Req].last.kind = "terminal" /\ row[Req].lease # "none" /\ Receipt(Req)
  BY <1>2, <1>3 DEF JournalOf
<1>5. agent.recover
  BY <1>1, <1>2, <1>4 DEF Claimable, RowOf, Leased
<1> QED
  BY <1>4, <1>5 DEF RecoversReceipt, Executing, Receipt

\* A claim starts an attempt.
LEMMA ClaimKeeps ==
  ASSUME IInv, Claim
  PROVE  IInv'
<1> DEFINE s == IF agent.recover THEN row[Req].status ELSE "RUNNING"
           n == IF RecoversReceipt THEN journal[Req].length ELSE 0
           q == [row[Req] EXCEPT !.status = s, !.lease = "live",
                                 !.attempt = row[Req].attempt + 1, !.receipt = n]
           a == [agent EXCEPT !.at = "admit", !.step = 1, !.receipt = RecoversReceipt]
<1>1. /\ Req \in Requests
      /\ agent.at = "claim" /\ Claimable
      /\ UNCHANGED <<overdue, authority, journal, applied, child, controls, faults>>
      /\ child = NoChild
      /\ row \in [Requests -> Row] /\ row[Req] \in Row /\ journal[Req] \in Journal
      /\ agent \in AgentState /\ ~agent.attempted /\ ~agent.completed
      /\ RowOf(Req) /\ JournalOf(Req)
  BY DEF Claim, IInv, WorkInv, TypeOK, ChildInv, RowInv, JournalInv
<1>2. row' = [row EXCEPT ![Req] = q] /\ agent' = a
  BY <1>1 DEF Claim
<1>3. /\ q \in Row
      /\ q.status \in Leased /\ q.lease = "live" /\ ~q.retryable
      /\ q.receipt = IF RecoversReceipt THEN journal[Req].length ELSE 0
  <2>1. row[Req].attempt + 1 \in Nat /\ n \in Nat
    BY <1>1 DEF Row, Journal
  <2>2. ~row[Req].retryable /\ s \in Leased
    BY <1>1 DEF RowOf, Claimable, Leased
  <2>3. s \in Statuses
    BY <2>2 DEF Leased, Statuses
  <2> HIDE DEF s, n
  <2>4. /\ q \in Row
        /\ q.status = s /\ q.lease = "live" /\ q.retryable = row[Req].retryable
        /\ q.receipt = n
    BY <1>1, <2>1, <2>3 DEF Row
  <2> HIDE DEF q
  <2> USE DEF n
  <2> QED
    BY <2>2, <2>4
<1>4. /\ a \in AgentState
      /\ a.at = "admit" /\ a.req = Req /\ a.step = 1 /\ a.receipt = RecoversReceipt
      /\ ~a.attempted /\ ~a.completed
  <2>1. RecoversReceipt \in BOOLEAN
    BY <1>1 DEF RecoversReceipt, AgentState
  <2> QED
    BY <1>1, <2>1 DEF AgentState, Points, Req
<1>5. journal[Req].last.outcome = "SUCCEEDED" => RecoversReceipt
  BY ClaimRecovers
<1> HIDE DEF q, a
<1>6. /\ row' \in [Requests -> Row]
      /\ row'[Req] = q
      /\ \A p \in Requests : p # Req => row'[p] = row[p]
  BY <1>1, <1>2, <1>3
<1>7. TypeOK' /\ applied' = [p \in Requests |-> applied'[p]]
  BY <1>1, <1>2, <1>4, <1>6 DEF IInv, TypeOK
<1>8. RowInv'
  <2> SUFFICES ASSUME NEW p \in Requests PROVE RowOf(p)'
    BY DEF RowInv
  <2>1. CASE p = Req
    BY <1>3, <1>6, <2>1 DEF RowOf, Leased
  <2>2. CASE p # Req
    BY <1>1, <1>6, <2>2 DEF IInv, RowInv, RowOf, Untouched, Complete
  <2> QED BY <2>1, <2>2
<1>9. JournalInv'
  <2> SUFFICES ASSUME NEW p \in Requests PROVE JournalOf(p)'
    BY DEF JournalInv
  <2>1. CASE p = Req
    BY <1>1, <1>3, <1>5, <1>6, <2>1 DEF JournalOf, Receipt, Truthful, Complete, Untouched
  <2>2. CASE p # Req
    BY <1>1, <1>6, <2>2
       DEF IInv, JournalInv, JournalOf, Receipt, Truthful, Complete, Untouched
  <2> QED BY <2>1, <2>2
<1>10. ChildInv'
  BY <1>1, <1>2, <1>4 DEF ChildInv
<1>11. WorkInv'
  BY <1>1, <1>2, <1>3, <1>4, <1>5, <1>6 DEF WorkInv, Working, Loop, RecoversReceipt, Req
<1>12. ScopeInv'
  <2>1. \A p \in Requests \ {Req} : Clear(p)'
    BY <1>1, <1>6 DEF IInv, ScopeInv, Clear, Untouched
  <2> QED
    BY <1>1, <1>2, <1>4, <2>1 DEF ScopeInv, Req
<1> QED
  BY <1>7, <1>8, <1>9, <1>10, <1>11, <1>12 DEF IInv

\* The process ends without having changed anything.
LEMMA EndKeeps ==
  ASSUME IInv, agent' = Off, UNCHANGED <<row, overdue, authority, journal, applied, child, controls>>,
         NotProjected \/ UNCHANGED faults \/ faults' = faults + 1
  PROVE  IInv'
<1>1. /\ overdue \in [Requests -> BOOLEAN] /\ authority \in BOOLEAN
      /\ controls \in Nat /\ faults \in Nat /\ faults + 1 \in Nat
  BY DEF IInv, TypeOK
<1>2. faults' = faults \/ faults' = faults + 1
  BY DEF NotProjected, DatabaseFails
<1> QED
  BY <1>1, <1>2, QuietKeeps

\* The script of a dead process ends.
LEMMA OrphanKeeps ==
  ASSUME IInv, OrphanEnds
  PROVE  IInv'
<1>1. /\ agent.at = "off" /\ child' = NoChild
      /\ UNCHANGED <<row, overdue, authority, journal, applied, agent, controls, faults>>
  BY DEF OrphanEnds
<1>2. NoChild \in Child
  BY DEF NoChild, Child
<1>3. TypeOK' /\ applied' = [p \in Requests |-> applied'[p]]
  BY <1>1, <1>2 DEF IInv, TypeOK
<1>4. RowInv' /\ JournalInv'
  BY <1>1
     DEF IInv, RowInv, RowOf, JournalInv, JournalOf, Receipt, Truthful, Complete, Untouched
<1>5. ChildInv' /\ ScopeInv'
  BY <1>1 DEF ChildInv, ScopeInv
<1>6. WorkInv'
  BY <1>1 DEF WorkInv, Working, Loop
<1> QED
  BY <1>3, <1>4, <1>5, <1>6 DEF IInv

-----------------------------------------------------------------------------
(* The loop of runPhases                                                   *)

\* What the loop knows; no script is at work unless it waits for one.
LEMMA LoopFacts ==
  ASSUME IInv, agent.at \in Loop
  PROVE  /\ Req \in Requests /\ LoopInv /\ JournalOf(Req)
         /\ agent \in AgentState /\ agent.at \in Working
         /\ row[Req].lease # "none" /\ row[Req].status \in Leased
         /\ row[Req] \in Row
         /\ \A i \in DOMAIN Plan[Req] : applied[Req][i] \in Nat
         /\ agent.step \in DOMAIN Plan[Req]
         /\ agent.at # "execute" => child = NoChild
         /\ faults \in Nat /\ faults + 1 \in Nat
<1>1. agent.at \in Working /\ agent.at # "off" /\ agent \in AgentState
  BY DEF IInv, TypeOK, Loop, Working, Points
<1>2. Req \in Requests /\ LoopInv
  BY <1>1 DEF IInv, WorkInv
<1> QED
  BY <1>1, <1>2
     DEF IInv, TypeOK, WorkInv, RowInv, RowOf, JournalInv, ChildInv, LoopInv, Progress, Loop

\* An event of the loop.
LEMMA EntryFacts ==
  ASSUME IInv, Req \in Requests, NEW kind \in {"admission", "started", "complete"},
         NEW attempted \in BOOLEAN
  PROVE  /\ Entry(kind, attempted) \in Event
         /\ Entry(kind, attempted).kind = kind
         /\ Entry(kind, attempted).attempted = attempted
         /\ Entry(kind, attempted).outcome = "NONE"
<1>1. row[Req].attempt \in Nat
  BY DEF IInv, TypeOK, Row
<1> QED
  BY <1>1 DEF Entry, Event, Kinds, Outcomes, Codes

\* What finish() writes.
LEMMA VerdictFacts ==
  ASSUME IInv, Req \in Requests, NEW outcome \in Outcomes, NEW code \in Codes,
         NEW attempted \in BOOLEAN
  PROVE  /\ Verdict(outcome, code, attempted) \in Event
         /\ Verdict(outcome, code, attempted).outcome = outcome
         /\ Verdict(outcome, code, attempted).code = code
         /\ Verdict(outcome, code, attempted).gen = row[Req].attempt
         /\ Verdict(outcome, code, attempted).kind =
               IF code = "NEEDS_RECONCILIATION" THEN "reconciliation" ELSE "terminal"
<1>1. row[Req].attempt \in Nat
  BY DEF IInv, TypeOK, Row
<1> QED
  BY <1>1 DEF Verdict, Event, Kinds

\* A verdict as the process makes it.
Proper(v) == v \in Event /\ Truthful(v, Req) /\ v.gen = row[Req].attempt

\* The verdict of the catch block is true: an exception before the first effect
\* phase leaves nothing behind.
LEMMA ThrowFacts ==
  ASSUME IInv, agent.at \in Loop, NEW code \in {"EXECUTOR_FAILED", "OTHER"}, Throw(code)
  PROVE  \E v \in Event : ToFinish(v) /\ Proper(v)
<1> DEFINE c == IF agent.attempted THEN "NEEDS_RECONCILIATION" ELSE code
           v == Verdict("FAILED", c, agent.attempted)
<1>1. /\ Req \in Requests /\ agent.attempted \in BOOLEAN
      /\ ~agent.attempted => Untouched(Req)
  BY LoopFacts DEF LoopInv, AgentState
<1>2. c \in Codes /\ "FAILED" \in Outcomes
  BY DEF Codes, Outcomes
<1>3. /\ v \in Event
      /\ v.outcome = "FAILED" /\ v.code = c /\ v.gen = row[Req].attempt
      /\ v.kind = IF c = "NEEDS_RECONCILIATION" THEN "reconciliation" ELSE "terminal"
  <2> HIDE DEF c
  <2> QED BY <1>1, <1>2, VerdictFacts
<1>4. ToFinish(v)
  BY DEF Throw
<1>5. c # "NEEDS_RECONCILIATION" => Untouched(Req)
  BY <1>1
<1> HIDE DEF v, c
<1>6. Truthful(v, Req)
  BY <1>3, <1>5 DEF Truthful
<1> QED
  BY <1>3, <1>4, <1>6 DEF Proper

\* And so is that on a control.
LEMMA StopFacts ==
  ASSUME IInv, agent.at \in Loop, NEW status, ToFinish(StopVerdict(status))
  PROVE  \E v \in Event : ToFinish(v) /\ Proper(v)
<1> DEFINE v == StopVerdict(status)
<1>1. /\ Req \in Requests /\ agent.attempted \in BOOLEAN
      /\ ~agent.attempted => Untouched(Req)
  BY LoopFacts DEF LoopInv, AgentState
<1>2. CASE agent.attempted
  <2>1. v = Verdict("FAILED", "NEEDS_RECONCILIATION", TRUE)
    BY <1>2 DEF StopVerdict
  <2>2. "FAILED" \in Outcomes /\ "NEEDS_RECONCILIATION" \in Codes
    BY DEF Codes, Outcomes
  <2>3. /\ v \in Event
        /\ v.outcome = "FAILED" /\ v.code = "NEEDS_RECONCILIATION" /\ v.gen = row[Req].attempt
        /\ v.kind = "reconciliation"
    <3> HIDE DEF v
    <3>1. Verdict("FAILED", "NEEDS_RECONCILIATION", TRUE) \in Event
      BY <1>1, <2>2, VerdictFacts
    <3> QED
      BY ZenonT(30), <1>1, <2>1, <2>2, <3>1, VerdictFacts
  <2>4. ToFinish(v)
    OBVIOUS
  <2> HIDE DEF v
  <2> QED
    BY <2>3, <2>4 DEF Proper, Truthful
<1>3. CASE ~agent.attempted
  <2> DEFINE o == IF status = "HELD" THEN "HELD" ELSE "CANCELLED"
  <2>1. v = Verdict(o, "STOP_CONFIRMED", FALSE)
    BY <1>3 DEF StopVerdict
  <2>2. o \in Outcomes /\ o \in {"HELD", "CANCELLED"} /\ "STOP_CONFIRMED" \in Codes
    BY DEF Codes, Outcomes
  <2> HIDE DEF o
  <2>3. /\ v \in Event
        /\ v.outcome = o /\ v.code = "STOP_CONFIRMED" /\ v.gen = row[Req].attempt
        /\ v.kind = "terminal"
    <3> HIDE DEF v
    <3>1. PICK c \in Codes, b \in BOOLEAN :
             c = "STOP_CONFIRMED" /\ v = Verdict(o, c, b)
      BY <2>1, <2>2
    <3>2. /\ Verdict(o, c, b) \in Event
          /\ Verdict(o, c, b).outcome = o /\ Verdict(o, c, b).code = c
          /\ Verdict(o, c, b).gen = row[Req].attempt
          /\ Verdict(o, c, b).kind =
                IF c = "NEEDS_RECONCILIATION" THEN "reconciliation" ELSE "terminal"
      BY <1>1, <2>2, VerdictFacts
    <3> QED
      BY <3>1, <3>2
  <2>4. ToFinish(v)
    OBVIOUS
  <2> HIDE DEF v
  <2> QED
    BY <1>1, <1>3, <2>2, <2>3, <2>4 DEF Proper, Truthful
<1> QED
  BY <1>1, <1>2, <1>3

\* The process has a verdict and nothing is logged yet.
LEMMA FinishKeeps ==
  ASSUME IInv, agent.at \in Working,
         \E v \in Event : ToFinish(v) /\ Proper(v),
         journal[Req].last.outcome # "SUCCEEDED",
         child' = NoChild, Beat,
         UNCHANGED <<overdue, authority, journal, applied, controls>>, faults' \in Nat
  PROVE  IInv'
BY VerdictKeeps DEF Proper

\* As an event of the loop is logged, too.
LEMMA LogFinishKeeps ==
  ASSUME IInv, agent.at \in Loop \ {"execute"},
         NEW kind \in {"started", "complete"}, NEW attempted \in BOOLEAN,
         Log(Entry(kind, attempted)),
         \E v \in Event : ToFinish(v) /\ Proper(v),
         UNCHANGED <<row, overdue, authority, applied, child, controls>>, faults' \in Nat
  PROVE  IInv'
<1> DEFINE e == Entry(kind, attempted)
<1>1. PICK v \in Event : ToFinish(v) /\ Proper(v)
  OBVIOUS
<1> DEFINE a == [agent EXCEPT !.at = "finish", !.verdict = v]
<1>2. /\ Req \in Requests /\ agent \in AgentState /\ agent.at \in Working \ {"execute"}
  BY LoopFacts
<1>3. /\ a \in AgentState
      /\ a.at = "finish" /\ a.req = Req /\ a.verdict = v
  BY <1>2 DEF AgentState, Points, Req
<1>4. agent' = a
  BY <1>1 DEF ToFinish
<1> HIDE DEF a
<1>5. /\ e \in Event
      /\ e.kind \in {"admission", "started", "complete"} /\ e.outcome = "NONE"
      /\ Log(e)
  BY <1>2, EntryFacts
<1> HIDE DEF e
<1>6. "finish" \in Working \ {"execute"}
  BY DEF Working, Points
<1>7. /\ row[Req].lease # "none"
      /\ TypeOK' /\ applied' = [p \in Requests |-> applied'[p]]
      /\ RowInv' /\ JournalInv' /\ ChildInv' /\ ScopeInv'
      /\ journal'[Req].last = e
  BY <1>2, <1>3, <1>4, <1>5, <1>6, LogKeeps
<1>8. WorkInv'
  BY <1>1, <1>2, <1>3, <1>4, <1>5, <1>7
     DEF WorkInv, Proper, Truthful, Complete, Untouched, Loop, Req
<1> QED
  BY <1>7, <1>8 DEF IInv

LEMMA WriteReceiptKeeps ==
  ASSUME IInv, WriteReceipt
  PROVE  IInv'
<1> DEFINE a == [agent EXCEPT !.at = "writeback", !.verdict = journal[Req].last]
<1>1. /\ agent.at = "admit" /\ agent.receipt /\ agent.at \in Working
      /\ Req \in Requests /\ agent \in AgentState /\ journal[Req] \in Journal
      /\ journal[Req].last.kind = "terminal"
      /\ row[Req].receipt = journal[Req].length
      /\ JournalOf(Req)
      /\ child = NoChild
      /\ UNCHANGED <<row, overdue, authority, journal, applied, child, controls, faults>>
      /\ faults \in Nat
  BY DEF WriteReceipt, IInv, WorkInv, ChildInv, JournalInv, TypeOK, Working, Points
<1>2. agent' = a
  BY DEF WriteReceipt
<1>3. /\ a \in AgentState
      /\ a.at = "writeback" /\ a.req = Req /\ a.verdict = journal[Req].last
  <2>1. journal[Req].last \in Event
    BY <1>1 DEF Journal
  <2> QED
    BY <1>1, <2>1 DEF AgentState, Points, Req
<1> HIDE DEF a
<1>4. "writeback" \in Working \ {"execute"}
  BY DEF Working, Points
<1>5. /\ TypeOK' /\ applied' = [p \in Requests |-> applied'[p]]
      /\ RowInv' /\ JournalInv' /\ ChildInv' /\ ScopeInv'
      /\ row[Req].lease # "none"
  BY <1>1, <1>2, <1>3, <1>4, MemoryKeeps DEF Beat
<1>6. Truthful(journal[Req].last, Req)
  BY <1>1 DEF JournalOf
<1>7. WorkInv'
  BY <1>1, <1>2, <1>3, <1>5, <1>6
     DEF WorkInv, Truthful, Complete, Untouched, Receipt, Loop, Req
<1> QED
  BY <1>5, <1>7 DEF IInv

\* A verdict that leaves everything open is true of anything.
LEMMA DoubtIsProper ==
  ASSUME IInv, Req \in Requests
  PROVE  Proper(Verdict("FAILED", "NEEDS_RECONCILIATION", TRUE))
<1> DEFINE v == Verdict("FAILED", "NEEDS_RECONCILIATION", TRUE)
<1>1. PICK o \in Outcomes, c \in Codes, b \in BOOLEAN :
         o = "FAILED" /\ c = "NEEDS_RECONCILIATION" /\ v = Verdict(o, c, b)
  BY DEF Outcomes, Codes
<1>2. /\ Verdict(o, c, b) \in Event
      /\ Verdict(o, c, b).outcome = o /\ Verdict(o, c, b).code = c
      /\ Verdict(o, c, b).gen = row[Req].attempt
      /\ Verdict(o, c, b).kind =
            IF c = "NEEDS_RECONCILIATION" THEN "reconciliation" ELSE "terminal"
  BY VerdictFacts
<1> HIDE DEF v
<1>3. Proper(v)
  BY <1>1, <1>2 DEF Proper, Truthful
<1> QED
  BY <1>3 DEF v

\* An attempt that finds traces of an earlier one gives up.
LEMMA GiveUpKeeps ==
  ASSUME IInv, GiveUp
  PROVE  IInv'
<1> DEFINE v == Verdict("FAILED", "NEEDS_RECONCILIATION", TRUE)
<1>1. /\ agent.at \in Working /\ Req \in Requests
      /\ journal[Req].last.outcome # "SUCCEEDED"
      /\ child = NoChild
      /\ UNCHANGED <<row, overdue, authority, journal, applied, child, controls, faults>>
      /\ faults \in Nat
      /\ ToFinish(v)
  BY DEF GiveUp, IInv, WorkInv, ChildInv, TypeOK, Working, Points
<1>2. Proper(v) /\ v \in Event
  BY <1>1, DoubtIsProper DEF Proper
<1> HIDE DEF v
<1> QED
  BY <1>1, <1>2, FinishKeeps DEF Beat

\* The database fails or the lease is lost as an event is projected.
LEMMA FaultFacts ==
  ASSUME IInv, UNCHANGED faults \/ DatabaseFails
  PROVE  faults' \in Nat
<1>1. faults \in Nat /\ faults + 1 \in Nat
  BY DEF IInv, TypeOK
<1> QED
  BY <1>1 DEF DatabaseFails

\* The first event of an attempt; nothing has been done yet.
LEMMA RecordAdmissionKeeps ==
  ASSUME IInv, RecordAdmission
  PROVE  IInv'
<1> DEFINE e == Entry("admission", FALSE)
           b == [agent EXCEPT !.at = "control"]
<1>1. /\ agent.at = "admit" /\ agent.at \in Working \ {"execute"}
      /\ Req \in Requests /\ agent \in AgentState /\ JournalOf(Req)
      /\ agent.step = 1 /\ ~agent.attempted /\ ~agent.completed
      /\ \A i \in DOMAIN Plan[Req] : applied[Req][i] \in Nat
      /\ ~journal[Req].attempted
      /\ Log(e)
      /\ UNCHANGED <<row, overdue, authority, applied, child, controls>>
  BY DEF RecordAdmission, MayHaveActed, IInv, WorkInv, JournalInv, TypeOK, Working, Points
<1>2. /\ e \in Event /\ e.kind = "admission" /\ e.outcome = "NONE"
  BY <1>1, EntryFacts
<1>3. /\ b \in AgentState
      /\ b.at = "control" /\ b.req = Req /\ b.step = 1 /\ ~b.attempted /\ ~b.completed
  BY <1>1 DEF AgentState, Points, Req
<1>4. PICK a \in {b, Off} : agent' = a
  BY DEF RecordAdmission, Goto, Exit
<1>5. faults' \in Nat
  BY FaultFacts DEF RecordAdmission, NotProjected
<1> HIDE DEF e, b
<1>6. /\ a \in AgentState
      /\ a = Off \/ (a.req = Req /\ a.at \in Working \ {"execute"})
  <2>1. Off \in AgentState
    BY DEF Off, AgentState, Points, NoEvent, Event, Kinds, Outcomes, Codes
  <2>2. "control" \in Working \ {"execute"}
    BY DEF Working, Points
  <2> QED
    BY <1>3, <1>4, <2>1, <2>2
<1>7. /\ row[Req].lease # "none"
      /\ TypeOK' /\ applied' = [p \in Requests |-> applied'[p]]
      /\ RowInv' /\ JournalInv' /\ ChildInv' /\ ScopeInv'
      /\ journal'[Req].last = e
      /\ a = Off => WorkInv'
  BY <1>1, <1>2, <1>4, <1>5, <1>6, LogKeeps
<1>8. Untouched(Req)
  BY <1>1 DEF JournalOf, Untouched
<1>9. CASE a = b
  <2>1. Progress'
    <3>1. 1 \in DOMAIN Plan[Req] /\ DOMAIN Plan[Req] \subseteq Nat \ {0}
      BY <1>1, PlanFacts
    <3> QED
      BY <1>1, <1>3, <1>4, <1>8, <1>9, <3>1 DEF Progress, Untouched, Req
  <2>2. LoopInv'
    <3>1. DOMAIN Plan[Req] \subseteq Nat \ {0}
      BY <1>1, PlanFacts
    <3> QED
      BY <1>1, <1>2, <1>3, <1>4, <1>7, <1>8, <1>9, <2>1, <3>1 DEF LoopInv, Untouched, Req
  <2>3. WorkInv'
    BY <1>1, <1>3, <1>4, <1>7, <1>9, <2>2 DEF WorkInv, Req
  <2> QED
    BY <1>7, <2>3 DEF IInv
<1> QED
  BY <1>4, <1>7, <1>9 DEF IInv

\* The process goes on within the loop without a word: what is left to show.
LEMMA MoveKeeps ==
  ASSUME IInv, agent.at \in Loop \ {"execute", "conclude"},
         NEW at \in Loop \ {"execute", "conclude", "recheck"}, Goto(at), Beat,
         at \in {"check", "stop"} => ~agent.attempted,
         UNCHANGED <<overdue, authority, journal, applied, child, controls, faults>>
  PROVE  IInv'
<1> DEFINE a == [agent EXCEPT !.at = at]
<1>1. /\ Req \in Requests /\ LoopInv
      /\ agent \in AgentState /\ agent.at \in Working
      /\ child = NoChild /\ child' = NoChild /\ faults \in Nat
  BY LoopFacts
<1>2. at \in Working \ {"execute"} /\ at \in Points
  BY DEF Working, Points, Loop
<1>3. /\ a \in AgentState
      /\ a.at = at /\ a.req = Req /\ a.step = agent.step
      /\ a.attempted = agent.attempted /\ a.completed = agent.completed
  BY <1>1, <1>2 DEF AgentState, Req
<1>4. agent' = a
  BY DEF Goto
<1> HIDE DEF a
<1>5. /\ TypeOK' /\ applied' = [p \in Requests |-> applied'[p]]
      /\ RowInv' /\ JournalInv' /\ ChildInv' /\ ScopeInv'
      /\ row'[Req].lease # "none"
  <2>1. faults' \in Nat
    BY <1>1
  <2> QED
    BY <1>1, <1>2, <1>3, <1>4, <2>1, MemoryKeeps
<1>6. Progress'
  BY <1>1, <1>3, <1>4 DEF LoopInv, Progress, Req
<1>7. LoopInv'
  BY <1>1, <1>3, <1>4, <1>6 DEF LoopInv, Untouched, Req
<1>8. WorkInv'
  BY <1>1, <1>3, <1>4, <1>5, <1>7 DEF WorkInv, Loop, Req
<1> QED
  BY <1>5, <1>8 DEF IInv

\* The heartbeats of the loop.
LEMMA BeatFacts ==
  ASSUME HoldsLease, row' = [row EXCEPT ![Req].status = Beaten(Req)]
  PROVE  Beat
BY BeatenFacts DEF HoldsLease, Beat

\* The head of the loop.
LEMMA ControlKeeps ==
  ASSUME IInv, Control
  PROVE  IInv'
<1>1. /\ agent.at = "control" /\ agent.at \in Loop
      /\ UNCHANGED <<overdue, authority, journal, applied, child, controls, faults>>
      /\ Beat
  BY BeatFacts DEF Control, Loop
<1>2. child = NoChild /\ LoopInv /\ agent.at \in Working /\ faults \in Nat
  BY <1>1, LoopFacts
<1>3. CASE ToFinish(StopVerdict(Beaten(Req)))
  <2>1. \E v \in Event : ToFinish(v) /\ Proper(v)
    BY <1>1, <1>3, StopFacts
  <2>2. journal[Req].last.outcome # "SUCCEEDED"
    BY <1>2 DEF LoopInv
  <2> QED
    BY <1>1, <1>2, <2>1, <2>2, FinishKeeps
<1>4. CASE agent.attempted /\ Goto("announce")
  <2>1. "announce" \in Loop \ {"execute", "conclude", "recheck"}
    BY DEF Loop
  <2> QED
    BY <1>1, <1>4, <2>1, MoveKeeps
<1>5. CASE ~agent.attempted /\ Goto("check")
  <2>1. "check" \in Loop \ {"execute", "conclude", "recheck"}
    BY DEF Loop
  <2> QED
    BY <1>1, <1>5, <2>1, MoveKeeps
<1> QED
  BY <1>3, <1>4, <1>5 DEF Control

\* The checks before a phase.
LEMMA CheckKeeps ==
  ASSUME IInv, CheckPasses \/ CheckFindsControl
  PROVE  IInv'
<1>1. /\ agent.at \in Loop \ {"execute", "conclude"}
      /\ UNCHANGED <<row, overdue, authority, journal, applied, child, controls, faults>>
      /\ Beat
  BY DEF CheckPasses, CheckFindsControl, Loop, Beat
<1>2. LoopInv
  BY <1>1, LoopFacts
<1>3. CASE CheckPasses
  <2>1. "announce" \in Loop \ {"execute", "conclude", "recheck"}
    BY DEF Loop
  <2> QED
    BY <1>1, <1>3, <2>1, MoveKeeps DEF CheckPasses
<1>4. CASE CheckFindsControl
  <2>1. "stop" \in Loop \ {"execute", "conclude", "recheck"} /\ ~agent.attempted
    BY <1>2, <1>4 DEF Loop, CheckFindsControl, LoopInv
  <2> QED
    BY <1>1, <1>4, <2>1, MoveKeeps DEF CheckFindsControl
<1> QED
  BY <1>3, <1>4

\* The catch block of runPhases, wherever the exception comes from.
LEMMA ThrowKeeps ==
  ASSUME IInv, agent.at \in Loop, child' = NoChild,
         \E code \in {"EXECUTOR_FAILED", "OTHER"} : Throw(code),
         UNCHANGED <<row, overdue, authority, journal, applied, controls>>,
         faults' \in Nat
  PROVE  IInv'
<1>1. \E v \in Event : ToFinish(v) /\ Proper(v)
  BY ThrowFacts
<1>2. agent.at \in Working /\ journal[Req].last.outcome # "SUCCEEDED"
  BY LoopFacts DEF LoopInv
<1> QED
  BY <1>1, <1>2, FinishKeeps DEF Beat

\* The checks refuse or fail.
LEMMA CheckThrowKeeps ==
  ASSUME IInv, CheckRefuses \/ CheckFails
  PROVE  IInv'
<1>1. /\ agent.at \in Loop \ {"execute"}
      /\ UNCHANGED <<row, overdue, authority, journal, applied, child, controls>>
      /\ UNCHANGED faults \/ DatabaseFails
      /\ \E code \in {"EXECUTOR_FAILED", "OTHER"} : Throw(code)
  BY DEF CheckRefuses, CheckFails, Loop
<1>2. child' = NoChild /\ faults' \in Nat
  BY <1>1, LoopFacts, FaultFacts
<1> QED
  BY <1>1, <1>2, ThrowKeeps

\* The control found in between is answered.
LEMMA AnswerControlKeeps ==
  ASSUME IInv, AnswerControl
  PROVE  IInv'
<1>1. /\ agent.at \in Loop /\ agent.at # "execute"
      /\ UNCHANGED <<overdue, authority, journal, applied, child, controls>>
  BY DEF AnswerControl, Loop
<1>2. child = NoChild /\ LoopInv /\ agent.at \in Working /\ faults \in Nat
  BY <1>1, LoopFacts
<1>3. CASE /\ HoldsLease
           /\ row' = [row EXCEPT ![Req].status = Beaten(Req)]
           /\ ToFinish(StopVerdict(Beaten(Req)))
           /\ UNCHANGED faults
  <2>1. \E v \in Event : ToFinish(v) /\ Proper(v)
    BY <1>1, <1>3, StopFacts
  <2>2. journal[Req].last.outcome # "SUCCEEDED" /\ Beat
    BY <1>2, <1>3, BeatFacts DEF LoopInv
  <2> QED
    BY <1>1, <1>2, <1>3, <2>1, <2>2, FinishKeeps
<1>4. CASE NotProjected /\ Exit /\ UNCHANGED row
  BY <1>1, <1>4, EndKeeps DEF Exit
<1> QED
  BY <1>3, <1>4 DEF AnswerControl

\* A phase is announced.
LEMMA AnnounceKeeps ==
  ASSUME IInv, Announce
  PROVE  IInv'
<1>1. /\ agent.at \in Loop \ {"execute"} /\ agent.at = "announce"
      /\ UNCHANGED <<row, overdue, authority, applied, child, controls>>
      /\ Log(Entry("started", IsEffect(Req, agent.step)))
      /\ UNCHANGED faults \/ DatabaseFails
  BY DEF Announce, NotProjectedThrow, Loop
<1>2. /\ Req \in Requests /\ LoopInv /\ agent \in AgentState
      /\ agent.at \in Working \ {"execute"}
      /\ IsEffect(Req, agent.step) \in BOOLEAN
  BY <1>1, LoopFacts DEF IsEffect
<1>3. faults' \in Nat
  BY <1>1, FaultFacts
<1>4. CASE Goto("recheck")
  <2> DEFINE e == Entry("started", IsEffect(Req, agent.step))
             a == [agent EXCEPT !.at = "recheck"]
  <2>1. /\ e \in Event /\ e.kind = "started" /\ e.outcome = "NONE"
        /\ e.attempted = IsEffect(Req, agent.step)
    BY <1>2, EntryFacts
  <2>2. /\ a \in AgentState
        /\ a.at = "recheck" /\ a.req = Req /\ a.step = agent.step
        /\ a.attempted = agent.attempted /\ a.completed = agent.completed
    BY <1>2 DEF AgentState, Points, Req
  <2>3. agent' = a /\ Log(e) /\ a.at \in Working \ {"execute"}
    BY <1>1, <1>4 DEF Goto, Working, Points
  <2> HIDE DEF e, a
  <2>4. /\ row[Req].lease # "none"
        /\ TypeOK' /\ applied' = [p \in Requests |-> applied'[p]]
        /\ RowInv' /\ JournalInv' /\ ChildInv' /\ ScopeInv'
        /\ journal'[Req].last = e
        /\ IsEffect(Req, agent.step) => journal'[Req].attempted
    <3>1. /\ e.kind \in {"admission", "started", "complete"} /\ e.outcome = "NONE"
          /\ a.req = Req /\ a.at \in Working \ {"execute"}
      BY <2>1, <2>2, <2>3
    <3> QED
      BY <1>1, <1>2, <1>3, <2>1, <2>2, <2>3, <3>1, LogKeeps
  <2>5. Progress'
    BY <1>1, <1>2, <2>2, <2>3 DEF LoopInv, Progress, Req
  <2>6. LoopInv'
    BY <1>1, <1>2, <2>1, <2>2, <2>3, <2>4, <2>5 DEF LoopInv, Untouched, Req
  <2>7. WorkInv'
    BY <1>1, <1>2, <2>2, <2>3, <2>4, <2>6 DEF WorkInv, Loop, Req
  <2> QED
    BY <2>4, <2>7 DEF IInv
<1>5. CASE NotProjectedThrow
  <2>1. \E v \in Event : ToFinish(v) /\ Proper(v)
    BY <1>1, <1>5, ThrowFacts DEF NotProjectedThrow
  <2> QED
    BY <1>1, <1>2, <1>3, <2>1, LogFinishKeeps
<1> QED
  BY <1>4, <1>5 DEF Announce

\* A phase is dispatched: it has had no effect so far.
LEMMA DispatchKeeps ==
  ASSUME IInv, Dispatch
  PROVE  IInv'
<1> DEFINE m == agent.attempted \/ IsEffect(Req, agent.step)
           a == [agent EXCEPT !.at = "execute", !.attempted = m]
           c == [req |-> Req, step |-> agent.step, done |-> FALSE]
<1>1. /\ agent.at = "recheck" /\ agent.at \in Loop
      /\ UNCHANGED <<row, overdue, authority, journal, applied, controls, faults>>
      /\ child' = c
  BY DEF Dispatch, Loop
<1>2. /\ Req \in Requests /\ LoopInv /\ agent \in AgentState /\ agent.at \in Working
      /\ row[Req].lease # "none" /\ agent.step \in DOMAIN Plan[Req]
      /\ m \in BOOLEAN
  BY <1>1, LoopFacts DEF AgentState, IsEffect
<1>3. agent' = a
  BY <1>2 DEF Dispatch
<1>4. /\ a \in AgentState
      /\ a.at = "execute" /\ a.req = Req /\ a.step = agent.step
      /\ a.attempted = m /\ a.completed = agent.completed
  <2> HIDE DEF m
  <2> QED BY <1>2 DEF AgentState, Points, Req
<1>5. c \in Child
  BY <1>2 DEF Child, AgentState
<1>6. c.req = Req /\ c.step = agent.step /\ ~c.done /\ c # NoChild
  BY <1>2, ConstantsAssumption DEF NoChild
<1>7. m <=> agent.attempted \/ IsEffect(Req, agent.step)
  OBVIOUS
<1> HIDE DEF a, c, m
<1>8. TypeOK' /\ applied' = [p \in Requests |-> applied'[p]]
  BY <1>1, <1>3, <1>4, <1>5 DEF IInv, TypeOK
<1>9. RowInv' /\ JournalInv'
  BY <1>1
     DEF IInv, RowInv, RowOf, JournalInv, JournalOf, Receipt, Truthful, Complete, Untouched
<1>10. ChildInv'
  BY <1>1, <1>2, <1>3, <1>4, <1>6 DEF ChildInv, LoopInv, Progress, Req
<1>11. Progress'
  BY <1>1, <1>2, <1>3, <1>4 DEF LoopInv, Progress, Req
<1>12. LoopInv'
  BY <1>1, <1>2, <1>3, <1>4, <1>7, <1>11 DEF LoopInv, Untouched, Req
<1>13. WorkInv'
  BY <1>1, <1>2, <1>3, <1>4, <1>12 DEF WorkInv, Loop, Req
<1>14. ScopeInv'
  <2>1. \A q \in Requests \ {Req} : Clear(q)'
    BY <1>1 DEF IInv, ScopeInv, Clear, Untouched
  <2> QED
    BY <1>1, <1>3, <1>4, <1>6, <2>1 DEF ScopeInv, Req
<1> QED
  BY <1>8, <1>9, <1>10, <1>13, <1>14 DEF IInv

-----------------------------------------------------------------------------
(* The script                                                              *)

\* The script has its effect.
LEMMA ActKeeps ==
  ASSUME IInv, Act
  PROVE  IInv'
<1> DEFINE r == child.req
           k == child.step
           n == [applied[r] EXCEPT ![k] = applied[r][k] + 1]
           c == [child EXCEPT !.done = TRUE]
<1>1. /\ child # NoChild /\ child \in Child /\ ~child.done
      /\ IsEffect(r, k)
      /\ UNCHANGED <<row, overdue, authority, journal, agent, controls, faults>>
      /\ child' = c /\ applied' = [applied EXCEPT ![r] = n]
  BY DEF Act, NoChild, IInv, TypeOK
<1>2. /\ r \in Requests /\ k \in DOMAIN Plan[r]
      /\ row[r].lease # "none" /\ row[r].status \in Leased
      /\ journal[r].last.kind = "started" /\ journal[r].attempted
      /\ applied[r][k] = 0
      /\ agent.at \in {"off", "execute"}
      /\ agent.at = "execute" => Req = r /\ agent.step = k
      /\ RowOf(r) /\ JournalOf(r)
  BY <1>1 DEF IInv, ChildInv, RowInv, RowOf, JournalInv
<1>3. /\ applied = [p \in Requests |-> applied[p]]
      /\ applied[r] \in [DOMAIN Plan[r] -> Nat]
  BY <1>2 DEF IInv, TypeOK
<1>4. /\ n \in [DOMAIN Plan[r] -> Nat]
      /\ n[k] = 1
      /\ \A i \in DOMAIN Plan[r] : i # k => n[i] = applied[r][i]
  BY <1>2, <1>3
<1>5. /\ c \in Child
      /\ c.req = r /\ c.step = k /\ c.done
  BY <1>1 DEF Child
<1> HIDE DEF n, c
<1>6. /\ applied' = [p \in Requests |-> applied'[p]]
      /\ applied'[r] = n
      /\ \A p \in Requests : p # r => applied'[p] = applied[p]
  BY <1>1, <1>2, <1>3
<1>7. TypeOK'
  <2>1. \A p \in Requests : applied'[p] \in [DOMAIN Plan[p] -> Nat]
    BY <1>4, <1>6 DEF IInv, TypeOK
  <2> QED
    BY <1>1, <1>5, <2>1 DEF IInv, TypeOK
<1>8. RowInv'
  <2> SUFFICES ASSUME NEW p \in Requests PROVE RowOf(p)'
    BY DEF RowInv
  <2>1. CASE p = r
    BY <1>1, <1>2, <2>1 DEF RowOf, Leased
  <2>2. CASE p # r
    BY <1>1, <1>6, <2>2 DEF IInv, RowInv, RowOf, Untouched, Complete
  <2> QED BY <2>1, <2>2
<1>9. JournalInv'
  <2> SUFFICES ASSUME NEW p \in Requests PROVE JournalOf(p)'
    BY DEF JournalInv
  <2>1. CASE p = r
    <3>1. \A i \in DOMAIN Plan[p] : /\ applied'[p][i] <= 1
                                    /\ applied'[p][i] > 0 => IsEffect(p, i) /\ journal'[p].attempted
      BY <1>1, <1>2, <1>4, <1>6, <2>1 DEF JournalOf
    <3>2. journal'[p].last.outcome # "SUCCEEDED" /\ journal'[p].last.kind = "started"
      BY <1>1, <1>2, <2>1 DEF JournalOf
    <3>3. journal'[p].length # 0
      BY <1>1, <1>2, <2>1 DEF JournalOf, Empty
    <3> QED
      BY <3>1, <3>2, <3>3 DEF JournalOf
  <2>2. CASE p # r
    BY <1>1, <1>6, <2>2
       DEF IInv, JournalInv, JournalOf, Receipt, Truthful, Complete, Untouched
  <2> QED BY <2>1, <2>2
<1>10. ChildInv'
  BY <1>1, <1>2, <1>4, <1>5, <1>6 DEF IInv, ChildInv, NoChild, Req
<1>11. WorkInv'
  <2>1. CASE agent.at = "off"
    BY <1>1, <2>1 DEF WorkInv, Working, Loop
  <2>2. CASE agent.at = "execute"
    <3>1. LoopInv /\ agent.at \in Loop /\ Req = r /\ agent.step = k
      BY <1>2, <2>2, LoopFacts DEF Loop
    <3>2. k \in Nat /\ DOMAIN Plan[r] \subseteq Nat
      BY <1>2, PlanFacts
    <3>3. Progress'
      BY <1>1, <1>2, <1>4, <1>6, <2>2, <3>1, <3>2 DEF LoopInv, Progress, Req
    <3>4. LoopInv'
      BY <1>1, <1>2, <1>4, <1>6, <2>2, <3>1, <3>3 DEF LoopInv, Untouched, Req
    <3> QED
      BY <1>1, <1>2, <2>2, <3>1, <3>4 DEF WorkInv, Loop, Req
  <2> QED
    BY <1>2, <2>1, <2>2
<1>12. ScopeInv'
  <2>1. \A q \in Requests \ {r} : Clear(q)'
    BY <1>1, <1>2, <1>6 DEF IInv, ScopeInv, Clear, Untouched
  <2> QED
    BY <1>1, <1>2, <1>5, <2>1 DEF ScopeInv, Req
<1> QED
  BY <1>6, <1>7, <1>8, <1>9, <1>10, <1>11, <1>12 DEF IInv

\* What the process finds when its script has ended.
LEMMA ReturnFacts ==
  ASSUME IInv, Returned
  PROVE  /\ agent.at = "execute" /\ agent.at \in Loop /\ child' = NoChild
         /\ UNCHANGED <<row, overdue, authority, journal, applied, controls, faults>>
         /\ Req \in Requests /\ LoopInv /\ agent \in AgentState /\ agent.at \in Working
         /\ JournalOf(Req) /\ faults' \in Nat
         /\ ~child.done => applied[Req][agent.step] = 0
         /\ child.done => IsEffect(Req, agent.step) /\ applied[Req][agent.step] > 0
<1>1. agent.at = "execute" /\ agent.at \in Loop
  BY DEF Returned, Loop
<1> QED
  BY <1>1, LoopFacts DEF Returned, IInv, ChildInv

\* A phase returns with success.
LEMMA SucceedsKeeps ==
  ASSUME IInv, Succeeds
  PROVE  IInv'
<1> DEFINE m == agent.completed \/ IsEffect(Req, agent.step)
           a == [agent EXCEPT !.at = "conclude", !.completed = m]
<1>1. /\ agent.at = "execute" /\ agent.at \in Loop /\ child' = NoChild
      /\ UNCHANGED <<row, overdue, authority, journal, applied, controls, faults>>
      /\ Req \in Requests /\ LoopInv /\ agent \in AgentState /\ agent.at \in Working
      /\ faults' \in Nat
      /\ child.done => applied[Req][agent.step] > 0
  BY ReturnFacts DEF Succeeds
<1>2. agent' = a /\ (IsEffect(Req, agent.step) => child.done)
  BY DEF Succeeds
<1>3. m \in BOOLEAN /\ (m <=> agent.completed \/ IsEffect(Req, agent.step))
  BY <1>1 DEF AgentState, IsEffect
<1>4. /\ a \in AgentState
      /\ a.at = "conclude" /\ a.req = Req /\ a.step = agent.step
      /\ a.attempted = agent.attempted /\ a.completed = m
  <2> HIDE DEF m
  <2> QED BY <1>1, <1>3 DEF AgentState, Points, Req
<1> HIDE DEF a, m
<1>5. a.at \in Working \ {"execute"}
  BY <1>4 DEF Working, Points
<1>6. /\ TypeOK' /\ applied' = [p \in Requests |-> applied'[p]]
      /\ RowInv' /\ JournalInv' /\ ChildInv' /\ ScopeInv'
      /\ row[Req].lease # "none"
  BY <1>1, <1>2, <1>4, <1>5, MemoryKeeps DEF Beat
<1>7. Progress'
  BY <1>1, <1>2, <1>4 DEF LoopInv, Progress, Req
<1>8. LoopInv'
  BY <1>1, <1>2, <1>3, <1>4, <1>7 DEF LoopInv, Untouched, Req
<1>9. WorkInv'
  BY <1>1, <1>2, <1>4, <1>6, <1>8 DEF WorkInv, Loop, Req
<1> QED
  BY <1>6, <1>9 DEF IInv

\* A rejected phase had no effect, and no phase before it had one.
LEMMA RejectsKeeps ==
  ASSUME IInv, Rejects
  PROVE  IInv'
<1>1. /\ agent.at = "execute" /\ agent.at \in Loop /\ child' = NoChild
      /\ UNCHANGED <<row, overdue, authority, journal, applied, controls, faults>>
      /\ Req \in Requests /\ LoopInv /\ agent.at \in Working /\ JournalOf(Req)
      /\ faults' \in Nat
      /\ applied[Req][agent.step] = 0
  BY ReturnFacts DEF Rejects
<1>2. CASE Throw("OTHER")
  BY <1>1, <1>2, ThrowKeeps
<1>3. CASE ~agent.completed /\ ToFinish(Verdict("FAILED", "OTHER", FALSE))
  <2> DEFINE v == Verdict("FAILED", "OTHER", FALSE)
  <2>1. PICK o \in Outcomes, c \in Codes, b \in BOOLEAN :
           o = "FAILED" /\ c = "OTHER" /\ v = Verdict(o, c, b)
    BY DEF Outcomes, Codes
  <2>2. /\ Verdict(o, c, b) \in Event
        /\ Verdict(o, c, b).outcome = o /\ Verdict(o, c, b).code = c
        /\ Verdict(o, c, b).gen = row[Req].attempt
        /\ Verdict(o, c, b).kind =
              IF c = "NEEDS_RECONCILIATION" THEN "reconciliation" ELSE "terminal"
    BY <1>1, VerdictFacts
  <2>3. Untouched(Req)
    <3>1. DOMAIN Plan[Req] \subseteq Nat /\ \A i \in DOMAIN Plan[Req] : applied[Req][i] \in Nat
      BY <1>1, PlanFacts, LoopFacts
    <3>2. ASSUME NEW i \in DOMAIN Plan[Req] PROVE applied[Req][i] = 0
      <4>1. CASE i < agent.step
        BY <1>1, <1>3, <3>1, <4>1 DEF LoopInv, JournalOf
      <4>2. CASE i = agent.step
        BY <1>1, <4>2
      <4>3. CASE i > agent.step
        BY <1>1, <4>3 DEF LoopInv, Progress
      <4>4. agent.step \in Nat /\ i \in Nat
        BY <1>1, <3>1 DEF LoopInv, Progress
      <4> QED BY <4>1, <4>2, <4>3, <4>4
    <3> QED BY <3>2 DEF Untouched
  <2>4. ToFinish(v)
    BY <1>3
  <2> HIDE DEF v
  <2>5. Proper(v) /\ v \in Event
    BY <2>1, <2>2, <2>3 DEF Proper, Truthful
  <2>6. journal[Req].last.outcome # "SUCCEEDED"
    BY <1>1 DEF LoopInv
  <2> QED
    BY <1>1, <2>4, <2>5, <2>6, FinishKeeps DEF Beat
<1> QED
  BY <1>2, <1>3 DEF Rejects

\* A phase cannot tell, or fails.
LEMMA WaversKeeps ==
  ASSUME IInv, Wavers \/ Breaks
  PROVE  IInv'
<1>1. /\ agent.at \in Loop /\ child' = NoChild
      /\ UNCHANGED <<row, overdue, authority, journal, applied, controls, faults>>
      /\ Req \in Requests /\ LoopInv /\ agent.at \in Working
      /\ faults' \in Nat
  BY ReturnFacts DEF Wavers, Breaks
<1>2. CASE Wavers
  <2>1. \E v \in Event : ToFinish(v) /\ Proper(v)
    <3>1. ToFinish(Verdict("FAILED", "NEEDS_RECONCILIATION", TRUE))
      BY <1>2 DEF Wavers
    <3> QED
      BY <1>1, <3>1, DoubtIsProper DEF Proper
  <2>2. journal[Req].last.outcome # "SUCCEEDED"
    BY <1>1 DEF LoopInv
  <2> QED
    BY <1>1, <2>1, <2>2, FinishKeeps DEF Beat
<1>3. CASE Breaks
  BY <1>1, <1>3, ThrowKeeps DEF Breaks
<1> QED
  BY <1>2, <1>3

-----------------------------------------------------------------------------
(* The end of a phase, and of the attempt                                  *)

\* After the last phase everything is done.
LEMMA LastPhase ==
  ASSUME IInv, agent.at = "conclude", ~(agent.step < Len(Plan[Req]))
  PROVE  Complete(Req)
<1>1. agent.at \in Loop
  BY DEF Loop
<1>2. Req \in Requests /\ LoopInv
  BY <1>1, LoopFacts
<1>3. /\ Len(Plan[Req]) \in Nat /\ DOMAIN Plan[Req] = 1 .. Len(Plan[Req])
      /\ agent.step \in DOMAIN Plan[Req]
  BY <1>2, PlanFacts DEF LoopInv, Progress
<1>4. \A i \in DOMAIN Plan[Req] : i < agent.step \/ i = agent.step
  BY <1>3
<1> QED
  BY <1>2, <1>4 DEF LoopInv, Progress, Complete

\* A phase is concluded: the next one, or the verdict.
LEMMA ConcludeKeeps ==
  ASSUME IInv, Conclude
  PROVE  IInv'
<1>1. /\ agent.at \in Loop \ {"execute"} /\ agent.at = "conclude"
      /\ UNCHANGED <<row, overdue, authority, applied, child, controls>>
      /\ Log(Entry("complete", IsEffect(Req, agent.step)))
      /\ UNCHANGED faults \/ DatabaseFails
  BY DEF Conclude, NotProjectedThrow, Loop
<1>2. /\ Req \in Requests /\ LoopInv /\ agent \in AgentState
      /\ agent.at \in Working \ {"execute"}
      /\ IsEffect(Req, agent.step) \in BOOLEAN
  BY <1>1, LoopFacts DEF IsEffect
<1>3. faults' \in Nat
  BY <1>1, FaultFacts
<1>4. CASE /\ agent.step < Len(Plan[Req])
           /\ agent' = [agent EXCEPT !.at = "control", !.step = agent.step + 1]
  <2> DEFINE e == Entry("complete", IsEffect(Req, agent.step))
             a == [agent EXCEPT !.at = "control", !.step = agent.step + 1]
  <2>1. /\ e \in Event /\ e.kind = "complete" /\ e.outcome = "NONE"
    BY <1>2, EntryFacts
  <2>2. /\ Len(Plan[Req]) \in Nat /\ DOMAIN Plan[Req] = 1 .. Len(Plan[Req])
        /\ agent.step \in 1 .. Len(Plan[Req])
    BY <1>2, PlanFacts DEF LoopInv, Progress
  <2>3. /\ agent.step + 1 \in Nat /\ agent.step + 1 \in DOMAIN Plan[Req]
        /\ \A i \in DOMAIN Plan[Req] :
              /\ i < agent.step + 1 <=> i < agent.step \/ i = agent.step
              /\ i > agent.step + 1 => i > agent.step
        /\ agent.step + 1 > agent.step
    BY <1>4, <2>2
  <2>4. /\ a \in AgentState
        /\ a.at = "control" /\ a.req = Req /\ a.step = agent.step + 1
        /\ a.attempted = agent.attempted /\ a.completed = agent.completed
    BY <1>2, <2>3 DEF AgentState, Points, Req
  <2>5. agent' = a /\ Log(e)
    BY <1>1, <1>4
  <2> HIDE DEF e, a
  <2>6. a.at \in Working \ {"execute"} /\ e.kind \in {"admission", "started", "complete"}
    BY <2>1, <2>4 DEF Working, Points
  <2>7. /\ row[Req].lease # "none"
        /\ TypeOK' /\ applied' = [p \in Requests |-> applied'[p]]
        /\ RowInv' /\ JournalInv' /\ ChildInv' /\ ScopeInv'
        /\ journal'[Req].last = e
    BY <1>1, <1>2, <1>3, <2>1, <2>4, <2>5, <2>6, LogKeeps
  <2>8. Progress'
    BY <1>1, <1>2, <2>3, <2>4, <2>5 DEF LoopInv, Progress, Req
  <2>9. LoopInv'
    BY <1>1, <1>2, <2>1, <2>3, <2>4, <2>5, <2>7, <2>8 DEF LoopInv, Untouched, Req
  <2>10. WorkInv'
    BY <1>1, <1>2, <2>4, <2>5, <2>7, <2>9 DEF WorkInv, Loop, Req
  <2> QED
    BY <2>7, <2>10 DEF IInv
<1>5. CASE /\ ~(agent.step < Len(Plan[Req]))
           /\ ToFinish(Verdict("SUCCEEDED", "NONE", agent.attempted))
  <2> DEFINE v == Verdict("SUCCEEDED", "NONE", agent.attempted)
  <2>1. PICK o \in Outcomes, c \in Codes, b \in BOOLEAN :
           o = "SUCCEEDED" /\ c = "NONE" /\ v = Verdict(o, c, b)
    BY <1>2 DEF Outcomes, Codes, AgentState
  <2>2. /\ Verdict(o, c, b) \in Event
        /\ Verdict(o, c, b).outcome = o /\ Verdict(o, c, b).code = c
        /\ Verdict(o, c, b).gen = row[Req].attempt
        /\ Verdict(o, c, b).kind =
              IF c = "NEEDS_RECONCILIATION" THEN "reconciliation" ELSE "terminal"
    BY <1>2, VerdictFacts
  <2>3. Complete(Req)
    BY <1>1, <1>5, LastPhase
  <2>4. ToFinish(v)
    BY <1>5
  <2> HIDE DEF v
  <2>5. Proper(v) /\ v \in Event
    BY <2>1, <2>2, <2>3 DEF Proper, Truthful
  <2> QED
    BY <1>1, <1>2, <1>3, <2>4, <2>5, LogFinishKeeps
<1>6. CASE NotProjectedThrow
  <2>1. \E v \in Event : ToFinish(v) /\ Proper(v)
    BY <1>1, <1>6, ThrowFacts DEF NotProjectedThrow
  <2> QED
    BY <1>1, <1>2, <1>3, <2>1, LogFinishKeeps
<1> QED
  BY <1>4, <1>5, <1>6 DEF Conclude

\* The verdict is durable.
LEMMA FinishActionKeeps ==
  ASSUME IInv, Finish
  PROVE  IInv'
<1> DEFINE a == [agent EXCEPT !.at = "writeback"]
           e == agent.verdict
<1>1. /\ agent.at = "finish" /\ agent.at \in Working \ {"execute"}
      /\ Req \in Requests /\ agent \in AgentState /\ e \in Event
      /\ Truthful(e, Req) /\ e.gen = row[Req].attempt
      /\ Log(e) /\ agent' = a
      /\ UNCHANGED <<row, overdue, authority, applied, child, controls, faults>>
      /\ faults \in Nat
  BY DEF Finish, Goto, IInv, WorkInv, TypeOK, AgentState, Working, Points
<1>2. /\ a \in AgentState
      /\ a.at = "writeback" /\ a.req = Req /\ a.verdict = e
      /\ a.at \in Working \ {"execute"}
  BY <1>1 DEF AgentState, Working, Points, Req
<1> HIDE DEF a, e
<1>3. /\ row[Req].lease # "none"
      /\ TypeOK' /\ applied' = [p \in Requests |-> applied'[p]]
      /\ RowInv' /\ JournalInv' /\ ChildInv' /\ ScopeInv'
      /\ journal'[Req].last = e
  BY <1>1, <1>2, LogKeeps
<1>4. WorkInv'
  BY <1>1, <1>2, <1>3 DEF WorkInv, Truthful, Complete, Untouched, Receipt, Loop, Req
<1> QED
  BY <1>3, <1>4 DEF IInv

\* The database learns the verdict.
LEMMA WriteBackKeeps ==
  ASSUME IInv, WriteBack
  PROVE  IInv'
<1> DEFINE v == agent.verdict
           q == [row[Req] EXCEPT !.status = v.outcome, !.lease = "none", !.code = v.code,
                                 !.retryable = Retryable(v)]
<1>1. /\ Req \in Requests /\ agent.at = "writeback" /\ agent \in AgentState
      /\ v \in Event /\ Truthful(v, Req) /\ v = journal[Req].last
      /\ row \in [Requests -> Row] /\ row[Req] \in Row
      /\ child = NoChild
      /\ agent' = Off
      /\ UNCHANGED <<overdue, authority, journal, applied, child, controls, faults>>
      /\ JournalOf(Req)
  BY DEF WriteBack, Exit, IInv, WorkInv, TypeOK, AgentState, ChildInv, JournalInv
<1>2. row' = [row EXCEPT ![Req] = q]
  BY <1>1 DEF WriteBack
<1>3. Retryable(v) \in BOOLEAN
  BY <1>1 DEF Retryable, Event
<1>4. /\ q \in Row
      /\ q.status = v.outcome /\ q.lease = "none" /\ q.code = v.code
      /\ q.retryable => v.outcome = "FAILED" /\ v.code # "NEEDS_RECONCILIATION"
  <2> DEFINE b == Retryable(v)
  <2>1. b \in BOOLEAN /\ (b => v.outcome = "FAILED" /\ v.code # "NEEDS_RECONCILIATION")
    BY <1>3 DEF Retryable
  <2>2. v.outcome \in Statuses /\ v.code \in Codes
    BY <1>1 DEF Truthful, Event, Statuses, Terminal, Leased
  <2> HIDE DEF b, v
  <2> QED
    BY <1>1, <2>1, <2>2 DEF Row, b
<1> HIDE DEF q
<1>5. /\ row' \in [Requests -> Row]
      /\ row'[Req] = q
      /\ \A p \in Requests : p # Req => row'[p] = row[p]
  BY <1>1, <1>2, <1>4
<1>6. Off \in AgentState /\ Off.at = "off"
  BY DEF Off, AgentState, Points, NoEvent, Event, Kinds, Outcomes, Codes
<1>7. TypeOK' /\ applied' = [p \in Requests |-> applied'[p]]
  BY <1>1, <1>5, <1>6 DEF IInv, TypeOK
<1>8. RowInv'
  <2> SUFFICES ASSUME NEW p \in Requests PROVE RowOf(p)'
    BY DEF RowInv
  <2>1. CASE p = Req
    <3>1. /\ q.status \in {"SUCCEEDED", "FAILED", "HELD", "CANCELLED"}
          /\ q.status = "SUCCEEDED" => Complete(p)
          /\ q.status # "SUCCEEDED" /\ q.code # "NEEDS_RECONCILIATION" => Untouched(p)
          /\ q.code = "NEEDS_RECONCILIATION" => /\ q.status = "FAILED"
                                                /\ journal[p].last.kind = "reconciliation"
      BY <1>1, <1>4, <2>1 DEF Truthful
    <3> QED
      BY <1>1, <1>4, <1>5, <2>1, <3>1 DEF RowOf, Untouched, Complete
  <2>2. CASE p # Req
    BY <1>1, <1>5, <2>2 DEF IInv, RowInv, RowOf, Untouched, Complete
  <2> QED BY <2>1, <2>2
<1>9. JournalInv'
  <2> SUFFICES ASSUME NEW p \in Requests PROVE JournalOf(p)'
    BY DEF JournalInv
  <2>1. CASE p = Req
    BY <1>1, <1>4, <1>5, <2>1 DEF JournalOf, Receipt, Truthful, Complete, Untouched
  <2>2. CASE p # Req
    BY <1>1, <1>5, <2>2
       DEF IInv, JournalInv, JournalOf, Receipt, Truthful, Complete, Untouched
  <2> QED BY <2>1, <2>2
<1>10. ChildInv' /\ ScopeInv'
  BY <1>1, <1>6 DEF ChildInv, ScopeInv
<1>11. WorkInv'
  BY <1>1, <1>6 DEF WorkInv, Working, Loop
<1> QED
  BY <1>7, <1>8, <1>9, <1>10, <1>11 DEF IInv

\* A hold that was overtaken by a cancellation becomes one.
LEMMA OvertakenKeeps ==
  ASSUME IInv, WriteBackOvertaken
  PROVE  IInv'
<1>1. /\ Req \in Requests /\ agent.at = "writeback" /\ agent.at \in Working \ {"execute"}
      /\ agent \in AgentState /\ Truthful(agent.verdict, Req)
      /\ UNCHANGED <<row, overdue, authority, applied, child, controls, faults>>
      /\ faults \in Nat
  BY DEF WriteBackOvertaken, IInv, WorkInv, TypeOK, Working, Points
<1>2. CASE Exit /\ UNCHANGED journal
  BY <1>1, <1>2, EndKeeps DEF Exit
<1>3. CASE /\ agent.verdict.outcome = "HELD"
           /\ Log(Verdict("CANCELLED", "STOP_CONFIRMED", FALSE))
           /\ agent' = [agent EXCEPT !.verdict = Verdict("CANCELLED", "STOP_CONFIRMED", FALSE)]
  <2> DEFINE v == Verdict("CANCELLED", "STOP_CONFIRMED", FALSE)
             a == [agent EXCEPT !.verdict = v]
  <2>1. PICK o \in Outcomes, c \in Codes, b \in BOOLEAN :
           o = "CANCELLED" /\ c = "STOP_CONFIRMED" /\ v = Verdict(o, c, b)
    BY DEF Outcomes, Codes
  <2>2. /\ Verdict(o, c, b) \in Event
        /\ Verdict(o, c, b).outcome = o /\ Verdict(o, c, b).code = c
        /\ Verdict(o, c, b).gen = row[Req].attempt
        /\ Verdict(o, c, b).kind =
              IF c = "NEEDS_RECONCILIATION" THEN "reconciliation" ELSE "terminal"
    BY <1>1, VerdictFacts
  <2>3. Untouched(Req)
    BY <1>1, <1>3 DEF Truthful
  <2>4. Log(v) /\ agent' = a
    BY <1>3
  <2> HIDE DEF v
  <2>5. v \in Event /\ Truthful(v, Req) /\ v.gen = row[Req].attempt
    BY <2>1, <2>2, <2>3 DEF Truthful
  <2>6. /\ a \in AgentState
        /\ a.at = "writeback" /\ a.req = Req /\ a.verdict = v
        /\ a.at \in Working \ {"execute"}
    BY <1>1, <2>5 DEF AgentState, Req
  <2> HIDE DEF a
  <2>7. /\ row[Req].lease # "none"
        /\ TypeOK' /\ applied' = [p \in Requests |-> applied'[p]]
        /\ RowInv' /\ JournalInv' /\ ChildInv' /\ ScopeInv'
        /\ journal'[Req].last = v
    BY <1>1, <2>4, <2>5, <2>6, LogKeeps
  <2>8. WorkInv'
    BY <1>1, <2>4, <2>5, <2>6, <2>7
       DEF WorkInv, Truthful, Complete, Untouched, Receipt, Loop, Req
  <2> QED
    BY <2>7, <2>8 DEF IInv
<1> QED
  BY <1>2, <1>3 DEF WriteBackOvertaken

-----------------------------------------------------------------------------
(* The invariant                                                           *)

\* Initially nothing has been asked for.
LEMMA InitInv == Init => IInv
<1> SUFFICES ASSUME Init PROVE IInv
  OBVIOUS
<1>1. /\ Off \in AgentState /\ Off.at = "off" /\ Off.req = None
      /\ NoChild \in Child
      /\ NoRow \in Row /\ NoRow.status = "ABSENT" /\ NoRow.lease = "none" /\ ~NoRow.retryable
      /\ Empty \in Journal /\ Empty.length = 0 /\ Empty.last.kind = "none"
      /\ Empty.last.outcome = "NONE"
  BY DEF Off, AgentState, Points, NoEvent, Event, Kinds, Outcomes, Codes, NoChild, Child,
         NoRow, Row, Statuses, Empty, Journal
<1>2. \A r \in Requests : /\ row[r] = NoRow /\ journal[r] = Empty
                          /\ applied[r] = [i \in DOMAIN Plan[r] |-> 0]
  BY DEF Init
<1>3. \A r \in Requests : Untouched(r)
  BY <1>2 DEF Untouched
<1>4. TypeOK
  BY <1>1, <1>2 DEF Init, TypeOK
<1>5. applied = [r \in Requests |-> applied[r]]
  BY DEF Init
<1>6. RowInv
  BY <1>1, <1>2, <1>3 DEF RowInv, RowOf
<1>7. JournalInv
  <2> SUFFICES ASSUME NEW r \in Requests PROVE JournalOf(r)
    BY DEF JournalInv
  <2>1. \A i \in DOMAIN Plan[r] : applied[r][i] = 0
    BY <1>3 DEF Untouched
  <2>2. /\ journal[r].length = 0 => journal[r] = Empty
        /\ journal[r].last.kind = "none" /\ journal[r].last.outcome = "NONE"
    BY <1>1, <1>2
  <2>3. \A i \in DOMAIN Plan[r] : applied[r][i] <= 1 /\ ~(applied[r][i] > 0)
    BY <2>1
  <2> QED
    BY <2>2, <2>3 DEF JournalOf
<1>8. ChildInv /\ WorkInv /\ ScopeInv
  BY <1>1 DEF Init, ChildInv, WorkInv, ScopeInv, Working, Loop
<1> QED
  BY <1>4, <1>5, <1>6, <1>7, <1>8 DEF IInv

\* A step of the process or of a script.
LEMMA RunKeeps ==
  ASSUME IInv, Before \/ Run \/ Script \/ Crash
  PROVE  IInv'
<1>1. CASE Before
  <2>1. CASE ClaimRejected
    BY <2>1, EndKeeps DEF ClaimRejected, Exit
  <2> QED
    BY <1>1, <2>1, ExpireKeeps, AdmitKeeps, ClaimKeeps DEF Before
<1>2. CASE Run
  <2>1. CASE WriteBackFails
    BY <2>1, EndKeeps DEF WriteBackFails, Exit
  <2>2. CASE WriteReceipt \/ GiveUp \/ RecordAdmission \/ Control
    BY <2>2, WriteReceiptKeeps, GiveUpKeeps, RecordAdmissionKeeps, ControlKeeps
  <2>3. CASE CheckPasses \/ CheckFindsControl \/ CheckRefuses \/ CheckFails
    BY <2>3, CheckKeeps, CheckThrowKeeps
  <2>4. CASE Announce \/ Dispatch \/ Conclude \/ AnswerControl
    BY <2>4, AnnounceKeeps, DispatchKeeps, ConcludeKeeps, AnswerControlKeeps
  <2>5. CASE Finish \/ WriteBack \/ WriteBackOvertaken
    BY <2>5, FinishActionKeeps, WriteBackKeeps, OvertakenKeeps
  <2> QED
    BY <1>2, <2>1, <2>2, <2>3, <2>4, <2>5 DEF Run
<1>3. CASE Script
  BY <1>3, ActKeeps, SucceedsKeeps, RejectsKeeps, WaversKeeps, OrphanKeeps DEF Script
<1>4. CASE Crash
  BY <1>4, EndKeeps DEF Crash, Exit
<1> QED
  BY <1>1, <1>2, <1>3, <1>4

\* Every step keeps the invariant.
LEMMA NextKeeps == IInv /\ [Next]_vars => IInv'
<1> SUFFICES ASSUME IInv, [Next]_vars PROVE IInv'
  OBVIOUS
<1>1. ASSUME NEW r \in Requests, Overdue(r) \/ LeaseRunsOut(r) \/ Operator(r) \/ Start(r)
      PROVE  IInv'
  BY <1>1, ClockKeeps, LeaseKeeps, OperatorKeeps, StartKeeps
<1>2. CASE Suspend \/ Reinstate
  <2>1. /\ UNCHANGED <<row, journal, applied, child, agent, controls, overdue>>
        /\ authority' \in BOOLEAN
        /\ faults' = faults \/ faults' = faults + 1
    BY <1>2 DEF Suspend, Reinstate
  <2>2. /\ overdue \in [Requests -> BOOLEAN] /\ controls \in Nat
        /\ faults \in Nat /\ faults + 1 \in Nat
    BY DEF IInv, TypeOK
  <2> QED
    BY <2>1, <2>2, QuietKeeps
<1>3. CASE Before \/ Run \/ Script \/ Crash
  BY <1>3, RunKeeps
<1>4. CASE Pulse
  BY <1>4, PulseKeeps
<1>5. CASE UNCHANGED vars
  <2>1. /\ overdue \in [Requests -> BOOLEAN] /\ controls \in Nat
        /\ authority \in BOOLEAN /\ faults \in Nat
    BY DEF IInv, TypeOK
  <2> QED
    BY <1>5, <2>1, QuietKeeps DEF vars
<1> QED
  BY <1>1, <1>2, <1>3, <1>4, <1>5 DEF Next

\* The invariant holds in every reachable state.
THEOREM Invariance == Spec => []IInv
BY InitInv, NextKeeps, PTL DEF Spec

\* Every variable has its type.
THEOREM TypeCorrect == Spec => []TypeOK
<1>1. IInv => TypeOK
  BY DEF IInv
<1> QED
  BY <1>1, Invariance, PTL

\* No effect phase of driver.phases changes the installation twice, however often a
\* request is recovered, resumed or retried.
THEOREM EffectAtMostOnceHolds == Spec => []EffectAtMostOnce
<1>1. IInv => EffectAtMostOnce
  BY DEF IInv, JournalInv, JournalOf, EffectAtMostOnce
<1> QED
  BY <1>1, Invariance, PTL

\* A request that is held, queued again or offered for a retry has had no effect.
THEOREM WaitingIsUntouchedHolds == Spec => []WaitingIsUntouched
<1>1. IInv => WaitingIsUntouched
  <2> SUFFICES ASSUME IInv, NEW r \in Requests, row[r].lease = "none",
                      row[r].status \notin {"SUCCEEDED", "FAILED"} \/ row[r].retryable
               PROVE  Untouched(r)
    BY DEF WaitingIsUntouched
  <2> QED
    BY DEF IInv, RowInv, RowOf
<1> QED
  BY <1>1, Invariance, PTL

\* Nothing is appended to a journal that ends with a success.
LEMMA SuccessIsLast ==
  ASSUME IInv, Next, NEW r \in Requests, journal[r].last.outcome = "SUCCEEDED"
  PROVE  journal'[r] = journal[r]
<1>1. journal \in [Requests -> Journal]
  BY DEF IInv, TypeOK
<1>2. ASSUME NEW e, Log(e), Req # r
      PROVE  journal'[r] = journal[r]
  BY <1>1, <1>2 DEF Log
<1>3. CASE RecordAdmission \/ Finish
  <2>1. Req # r
    BY <1>3 DEF RecordAdmission, Finish, IInv, WorkInv
  <2> QED
    BY <1>2, <1>3, <2>1 DEF RecordAdmission, Finish
<1>4. CASE Announce \/ Conclude
  <2>1. agent.at \in Loop
    BY <1>4 DEF Announce, Conclude, Loop
  <2>2. Req # r
    BY <2>1, LoopFacts DEF LoopInv
  <2> QED
    BY <1>2, <1>4, <2>2 DEF Announce, Conclude
<1>5. CASE WriteBackOvertaken
  <2>1. agent.verdict = journal[Req].last /\ ~Applies(agent.verdict)
    BY <1>5 DEF WriteBackOvertaken, IInv, WorkInv
  <2>2. Req # r
    BY <2>1 DEF Applies
  <2>3. (\E e : Log(e)) \/ UNCHANGED journal
    BY <1>5 DEF WriteBackOvertaken
  <2> QED
    BY <1>2, <2>2, <2>3
<1>6. CASE UNCHANGED journal
  BY <1>6
<1>7. Next => \/ RecordAdmission \/ Finish \/ Announce \/ Conclude \/ WriteBackOvertaken
              \/ UNCHANGED journal
  BY
     DEF Next, Operator, Before, Run, Script, Overdue, LeaseRunsOut, Start, Suspend, Reinstate,
         Create, Confirm, Approve, Hold, Resume, RequestCancel, Retry, ExpireByWeb, Command,
         Expire, Admit, Claim, ClaimRejected, WriteReceipt, GiveUp, Control, CheckPasses,
         CheckFindsControl, CheckRefuses, CheckFails, Dispatch, AnswerControl, WriteBack,
         WriteBackFails, Act, Succeeds, Rejects, Wavers, Breaks, Returned, OrphanEnds, Pulse, Crash
<1> QED
  BY <1>3, <1>4, <1>5, <1>6, <1>7

\* Once a success is durable in the journal nothing is appended to it, and the row is
\* executing or SUCCEEDED.
THEOREM SuccessIsKeptHolds == Spec => SuccessIsKept
<1> DEFINE Kept == \A r \in Requests :
                      journal[r].last.outcome = "SUCCEEDED"
                         => /\ journal'[r] = journal[r]
                            /\ row'[r].status \in Leased \cup {"SUCCEEDED"}
<1>1. IInv /\ IInv' /\ [Next]_vars => [Kept]_vars
  <2> SUFFICES ASSUME IInv, IInv', Next, NEW r \in Requests,
                      journal[r].last.outcome = "SUCCEEDED"
               PROVE  /\ journal'[r] = journal[r]
                      /\ row'[r].status \in Leased \cup {"SUCCEEDED"}
    OBVIOUS
  <2>1. journal'[r] = journal[r]
    BY SuccessIsLast
  <2>2. row'[r].status = "SUCCEEDED" \/ row'[r].lease # "none"
    BY <2>1 DEF IInv, JournalInv, JournalOf
  <2>3. row'[r].lease # "none" => row'[r].status \in Leased
    BY DEF IInv, RowInv, RowOf
  <2> QED
    BY <2>1, <2>2, <2>3
<1> QED
  BY <1>1, Invariance, PTL DEF Spec, SuccessIsKept

-----------------------------------------------------------------------------
(* OperationPromise                                                        *)

\* The effect phases of r that have happened.
Happened(r) == {i \in Effects(r) : applied[r][i] > 0}

\* A plan has finitely many effect phases.
LEMMA EffectsFinite ==
  ASSUME NEW r \in Requests
  PROVE  IsFiniteSet(Effects(r))
<1>1. IsFiniteSet(1 .. Len(Plan[r]))
  BY PlanFacts, FS_Interval
<1>2. Effects(r) \in SUBSET (1 .. Len(Plan[r]))
  BY PlanFacts DEF Effects
<1> QED
  BY <1>1, <1>2, FS_Subset

\* An untouched request has no effects to count ...
LEMMA NothingHappened ==
  ASSUME NEW r \in Requests, Untouched(r)
  PROVE  Cardinality(Happened(r)) = 0
<1>1. Happened(r) = {}
  BY DEF Happened, Effects, Untouched
<1> QED
  BY <1>1, FS_EmptySet

\* ... and a complete one has them all.
LEMMA EverythingHappened ==
  ASSUME NEW r \in Requests, Complete(r)
  PROVE  Happened(r) = Effects(r)
BY DEF Happened, Effects, Complete

\* What the promise may do with one request while nothing happens.
Turns(r) ==
    \/ Standing(r)' = Standing(r)
    \/ Standing(r) = "open" /\ Standing(r)' = "stopped" /\ Untouched(r)
    \/ Standing(r) = "open" /\ Standing(r)' = "uncertain"
    \/ Standing(r) = "open" /\ Standing(r)' = "done" /\ Complete(r)
    \/ Standing(r) = "stopped" /\ Standing(r)' = "open"

PromiseStep == [Promise!Next]_(Promise!vars)

\* Steps the promise does not see.
LEMMA StutterIsStep ==
  ASSUME UNCHANGED applied, \A r \in Requests : Standing(r)' = Standing(r)
  PROVE  PromiseStep
BY DEF PromiseStep, Promise!vars

\* Steps it sees in one request.
LEMMA TurnIsStep ==
  ASSUME NEW r \in Requests, Turns(r), UNCHANGED applied,
         \A p \in Requests : p # r => Standing(p)' = Standing(p)
  PROVE  PromiseStep
<1> DEFINE V == [p \in Requests |-> Standing(p)]
           N == [p \in Requests |-> Cardinality({i \in Effects(p) : applied[p][i] > 0})]
<1>1. N' = N
  OBVIOUS
<1>2. V' = [V EXCEPT ![r] = Standing(r)']
  OBVIOUS
<1>3. V[r] = Standing(r) /\ N[r] = Cardinality(Happened(r))
  BY DEF Happened
<1>4. CASE Standing(r)' = Standing(r)
  BY <1>4, StutterIsStep
<1>5. CASE Standing(r) = "open" /\ Standing(r)' = "stopped" /\ Untouched(r)
  <2>1. N[r] = 0
    BY <1>3, <1>5, NothingHappened
  <2> QED
    BY <1>1, <1>2, <1>3, <1>5, <2>1
       DEF PromiseStep, Promise!Next, Promise!Stop, Promise!Decide
<1>6. CASE Standing(r) = "open" /\ Standing(r)' = "uncertain"
  BY <1>1, <1>2, <1>3, <1>6 DEF PromiseStep, Promise!Next, Promise!GiveUp, Promise!Decide
<1>7. CASE Standing(r) = "open" /\ Standing(r)' = "done" /\ Complete(r)
  <2>1. N[r] = Cardinality(Effects(r))
    BY <1>3, <1>7, EverythingHappened
  <2> QED
    BY <1>1, <1>2, <1>3, <1>7, <2>1
       DEF PromiseStep, Promise!Next, Promise!Succeed, Promise!Decide
<1>8. CASE Standing(r) = "stopped" /\ Standing(r)' = "open"
  BY <1>1, <1>2, <1>3, <1>8 DEF PromiseStep, Promise!Next, Promise!Reopen
<1> QED
  BY <1>4, <1>5, <1>6, <1>7, <1>8 DEF Turns

\* A row that changes without a claim or a verdict is stopped or opened at most.
LEMMA RowStepIsStep ==
  ASSUME IInv, NEW r \in Requests, NEW q \in Row, RowStep(r, q), UNCHANGED applied
  PROVE  PromiseStep
<1>1. row \in [Requests -> Row]
  BY DEF IInv, TypeOK
<1>2. row'[r] = q /\ \A p \in Requests : p # r => row'[p] = row[p]
  BY <1>1 DEF RowStep
<1>3. \A p \in Requests : p # r => Standing(p)' = Standing(p)
  BY <1>2 DEF Standing
<1>4. Standing(r) = "open" \/ Standing(r) = "stopped"
  BY DEF RowStep, IInv, RowInv, RowOf, Standing
<1>5. \/ Standing(r)' = "open"
      \/ Standing(r)' = "stopped" /\ Untouched(r)
  BY <1>2 DEF RowStep, Standing, Leased
<1>6. Turns(r)
  BY <1>4, <1>5 DEF Turns
<1> QED
  BY <1>3, <1>6, TurnIsStep

\* An effect.
LEMMA ActIsStep ==
  ASSUME IInv, Act
  PROVE  PromiseStep
<1>0. child # NoChild
  BY DEF Act, NoChild
<1> PICK r \in Requests, k \in DOMAIN Plan[child.req] : child.req = r /\ child.step = k
  BY <1>0 DEF IInv, ChildInv
<1> DEFINE V == [p \in Requests |-> Standing(p)]
           N == [p \in Requests |-> Cardinality({i \in Effects(p) : applied[p][i] > 0})]
<1>1. /\ child # NoChild /\ ~child.done /\ IsEffect(r, k)
      /\ UNCHANGED row
      /\ applied' = [applied EXCEPT ![r][k] = applied[r][k] + 1]
  BY DEF Act, NoChild
<1>2. /\ r \in Requests /\ k \in DOMAIN Plan[r] /\ applied[r][k] = 0
      /\ row[r].lease # "none" /\ row[r].status \in Leased
      /\ \A q \in Requests \ {r} : Clear(q) /\ RowOf(q)
      /\ applied = [p \in Requests |-> applied[p]]
      /\ applied[r] \in [DOMAIN Plan[r] -> Nat]
  BY <1>1 DEF IInv, TypeOK, ChildInv, ScopeInv, RowInv, RowOf
<1>3. /\ \A p \in Requests : p # r => applied'[p] = applied[p]
      /\ applied'[r] = [applied[r] EXCEPT ![k] = 1]
  BY <1>1, <1>2
<1>4. Happened(r)' = Happened(r) \cup {k} /\ k \notin Happened(r) /\ k \in Effects(r)
  BY <1>1, <1>2, <1>3 DEF Happened, Effects
<1>5. IsFiniteSet(Happened(r)) /\ Happened(r) \in SUBSET Effects(r)
  <2>1. Happened(r) \in SUBSET Effects(r)
    BY DEF Happened
  <2> QED
    BY <1>2, <2>1, EffectsFinite, FS_Subset
<1>6. Cardinality(Happened(r))' = Cardinality(Happened(r)) + 1
  BY <1>4, <1>5, FS_AddElement
<1>7. Cardinality(Happened(r)) < Cardinality(Effects(r))
  <2>1. IsFiniteSet(Effects(r)) /\ Happened(r) # Effects(r)
    BY <1>2, <1>4, EffectsFinite
  <2>2. Cardinality(Happened(r)) \in Nat /\ Cardinality(Effects(r)) \in Nat
    BY <1>5, <2>1, FS_CardinalityType
  <2>3. /\ Cardinality(Happened(r)) <= Cardinality(Effects(r))
        /\ Cardinality(Effects(r)) # Cardinality(Happened(r))
    BY <1>5, <2>1, FS_Subset
  <2> QED
    BY <2>2, <2>3
<1>8. V' = V
  BY <1>1 DEF Standing
<1>9. /\ N' = [p \in Requests |-> N'[p]] /\ N = [p \in Requests |-> N[p]]
      /\ \A p \in Requests : N[p] = Cardinality(Happened(p))
      /\ \A p \in Requests : N'[p] = Cardinality(Happened(p))'
  BY DEF Happened
<1>10. N' = [N EXCEPT ![r] = N[r] + 1]
  <2>1. \A p \in Requests : p # r => N'[p] = N[p]
    BY <1>3
  <2> HIDE DEF N
  <2>2. N'[r] = N[r] + 1
    BY <1>2, <1>6, <1>9
  <2> QED
    BY <1>2, <1>9, <2>1, <2>2
<1>11. V[r] = "open"
  BY <1>2 DEF Standing, Leased
<1>12. \A q \in Requests \ {r} : V[q] = "done" \/ (V[q] \in {"open", "stopped"} /\ N[q] = 0)
  <2> SUFFICES ASSUME NEW q \in Requests \ {r}
               PROVE  V[q] = "done" \/ (V[q] \in {"open", "stopped"} /\ N[q] = 0)
    OBVIOUS
  <2>1. CASE row[q].status = "SUCCEEDED"
    BY <2>1 DEF Standing
  <2>2. CASE Untouched(q) /\ (row[q].status = "FAILED" => row[q].code # "NEEDS_RECONCILIATION")
    <3>1. N[q] = 0
      BY <1>9, <2>2, NothingHappened
    <3>2. Standing(q) \in {"open", "stopped", "done"}
      BY <2>2 DEF Standing
    <3> QED
      BY <3>1, <3>2
  <2> QED
    BY <1>2, <2>1, <2>2 DEF Clear
<1> QED
  <2>1. N[r] < Cardinality(Effects(r))
    BY <1>2, <1>7, <1>9
  <2> QED
    BY <1>2, <1>8, <1>10, <1>11, <1>12, <2>1
       DEF PromiseStep, Promise!Next, Promise!Apply, Promise!Clear

\* A claim and a heartbeat leave a request open.
LEMMA OpenIsStep ==
  ASSUME UNCHANGED applied, row[Req].status \in Leased \cup {"QUEUED"},
         row'[Req].status \in Leased, \A p \in Requests : p # Req => row'[p] = row[p]
  PROVE  PromiseStep
<1>1. Standing(Req) = "open" /\ (Req \in Requests => row'[Req].status \in Leased)
  BY DEF Standing, Leased
<1>2. ASSUME NEW p \in Requests PROVE Standing(p)' = Standing(p)
  <2>1. CASE p = Req
    BY <1>1, <2>1 DEF Standing, Leased
  <2>2. CASE p # Req
    BY <2>2 DEF Standing
  <2> QED BY <2>1, <2>2
<1> QED
  BY <1>2, StutterIsStep

\* A heartbeat of the loop.
LEMMA BeatIsStep ==
  ASSUME IInv, Req \in Requests, HoldsLease, UNCHANGED applied,
         row' = [row EXCEPT ![Req].status = Beaten(Req)]
  PROVE  PromiseStep
<1>1. row \in [Requests -> Row] /\ row[Req].status \in Leased /\ Beaten(Req) \in Leased
  BY BeatenFacts DEF HoldsLease, IInv, TypeOK
<1>2. row' = [row EXCEPT ![Req] = [row[Req] EXCEPT !.status = Beaten(Req)]]
  BY <1>1
<1>3. /\ \A p \in Requests : p # Req => row'[p] = row[p]
      /\ row'[Req].status = Beaten(Req)
  BY <1>1, <1>2 DEF Row
<1> QED
  BY <1>1, <1>3, OpenIsStep

\* A claim.
LEMMA ClaimIsStep ==
  ASSUME IInv, Claim
  PROVE  PromiseStep
<1> DEFINE s == IF agent.recover THEN row[Req].status ELSE "RUNNING"
           n == IF RecoversReceipt THEN journal[Req].length ELSE 0
           q == [row[Req] EXCEPT !.status = s, !.lease = "live",
                                 !.attempt = row[Req].attempt + 1, !.receipt = n]
<1>1. /\ Req \in Requests /\ Claimable
      /\ UNCHANGED applied
      /\ row \in [Requests -> Row] /\ row[Req] \in Row
  BY DEF Claim, IInv, WorkInv, TypeOK
<1>2. row' = [row EXCEPT ![Req] = q]
  BY <1>1 DEF Claim
<1>3. s \in Leased /\ row[Req].status \in Leased \cup {"QUEUED"}
  BY <1>1 DEF Claimable, Leased
<1> HIDE DEF s, n
<1>4. q.status = s
  BY <1>1 DEF Row
<1> HIDE DEF q
<1>5. row'[Req] = q /\ \A p \in Requests : p # Req => row'[p] = row[p]
  BY <1>1, <1>2
<1> QED
  BY <1>1, <1>3, <1>4, <1>5, OpenIsStep

\* The verdict, as the database learns it.
LEMMA WriteBackIsStep ==
  ASSUME IInv, WriteBack
  PROVE  PromiseStep
<1> DEFINE v == agent.verdict
           b == Retryable(v)
           q == [row[Req] EXCEPT !.status = v.outcome, !.lease = "none", !.code = v.code,
                                 !.retryable = b]
<1>1. /\ Req \in Requests /\ Truthful(v, Req)
      /\ row \in [Requests -> Row] /\ row[Req] \in Row
      /\ row[Req].status \in Leased
      /\ UNCHANGED applied
  BY DEF WriteBack, HoldsLease, IInv, WorkInv, TypeOK
<1>2. row' = [row EXCEPT ![Req] = q]
  BY <1>1 DEF WriteBack
<1> HIDE DEF v, b
<1>3. q.status = v.outcome /\ q.code = v.code
  BY <1>1 DEF Row
<1> HIDE DEF q
<1>4. row'[Req] = q /\ \A p \in Requests : p # Req => row'[p] = row[p]
  BY <1>1, <1>2
<1>5. Standing(Req) = "open"
  BY <1>1 DEF Standing, Leased
<1>6. PICK p \in Requests : p = Req
  BY <1>1
<1>7. /\ v.outcome = "SUCCEEDED" => Standing(p)' = "done" /\ Complete(p)
      /\ v.outcome = "CANCELLED" => Standing(p)' = "stopped" /\ Untouched(p)
      /\ v.outcome = "HELD" => Standing(p)' = "open"
      /\ v.outcome = "FAILED" =>
            IF v.code = "NEEDS_RECONCILIATION" THEN Standing(p)' = "uncertain"
            ELSE Standing(p)' = "stopped" /\ Untouched(p)
  BY <1>1, <1>3, <1>4, <1>6 DEF Standing, Truthful
<1>8. Turns(p)
  BY <1>1, <1>5, <1>6, <1>7 DEF Turns, Truthful
<1>9. \A o \in Requests : o # p => Standing(o)' = Standing(o)
  BY <1>4, <1>6 DEF Standing
<1> QED
  BY <1>1, <1>8, <1>9, TurnIsStep

\* Initially nothing is promised.
LEMMA PromiseInit == Init => Promise!Init
<1> SUFFICES ASSUME Init PROVE Promise!Init
  OBVIOUS
<1>1. ASSUME NEW r \in Requests
      PROVE  Standing(r) = "open" /\ Cardinality({i \in Effects(r) : applied[r][i] > 0}) = 0
  <2>1. row[r].status = "ABSENT" /\ Untouched(r)
    BY DEF Init, NoRow, Untouched
  <2>2. Cardinality(Happened(r)) = 0
    BY <2>1, NothingHappened
  <2> QED
    BY <2>1, <2>2 DEF Standing, Happened
<1> QED
  BY <1>1 DEF Promise!Init

\* Every step of the executor is a step of the promise, or none.
LEMMA EveryStepIsStep ==
  ASSUME IInv, [Next]_vars
  PROVE  PromiseStep
<1>1. ASSUME NEW r \in Requests, LeaseRunsOut(r) \/ Operator(r)
      PROVE  PromiseStep
  BY <1>1, LeaseKeeps, OperatorKeeps, RowStepIsStep
<1>2. CASE Pulse \/ Expire
  BY <1>2, PulseKeeps, ExpireKeeps, RowStepIsStep
<1>3. CASE Claim
  BY <1>3, ClaimIsStep
<1>4. CASE WriteBack
  BY <1>4, WriteBackIsStep
<1>5. CASE Act
  BY <1>5, ActIsStep
<1>6. CASE Control \/ AnswerControl
  <2>1. Req \in Requests /\ UNCHANGED applied
    BY <1>6 DEF Control, AnswerControl, IInv, WorkInv
  <2>2. \/ UNCHANGED row
        \/ HoldsLease /\ row' = [row EXCEPT ![Req].status = Beaten(Req)]
    BY <1>6 DEF Control, AnswerControl
  <2>3. CASE UNCHANGED row
    BY <2>1, <2>3, StutterIsStep DEF Standing
  <2> QED
    BY <2>1, <2>2, <2>3, BeatIsStep
<1>7. CASE UNCHANGED <<row, applied>>
  BY <1>7, StutterIsStep DEF Standing
<1>8. \/ \E r \in Requests : LeaseRunsOut(r) \/ Operator(r)
      \/ Pulse \/ Expire \/ Claim \/ WriteBack \/ Act \/ Control \/ AnswerControl
      \/ UNCHANGED <<row, applied>>
  BY DEF Next, vars, Before, Run, Script, Overdue, Start, Suspend, Reinstate,
         Admit, ClaimRejected, WriteReceipt, GiveUp, RecordAdmission, CheckPasses,
         CheckFindsControl, CheckRefuses, CheckFails, Announce, Dispatch, Conclude, Finish,
         WriteBackOvertaken, WriteBackFails, Succeeds, Rejects, Wavers, Breaks, Returned,
         OrphanEnds, Crash
<1> QED
  BY <1>1, <1>2, <1>3, <1>4, <1>5, <1>6, <1>7, <1>8

\* The executor implements OperationPromise: effects only of an open request, one
\* request at a time, and a verdict in the row that tells the truth about them.
THEOREM Implementation == Spec => KeepsPromise
<1>1. IInv /\ [Next]_vars => [Promise!Next]_(Promise!vars)
  BY EveryStepIsStep DEF PromiseStep
<1> QED
  BY <1>1, PromiseInit, Invariance, PTL DEF Spec, KeepsPromise, Promise!Spec

=============================================================================
