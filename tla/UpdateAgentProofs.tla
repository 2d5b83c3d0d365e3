-------------------------- MODULE UpdateAgentProofs --------------------------
(***************************************************************************)
(* Proofs about UpdateAgent, for any requests, whatever may be filed as    *)
(* them, and any bounds.  The inductive invariant says who holds the lock  *)
(* (LockInv), which claim an agent or a child works for (AgentInv,         *)
(* ChildInv), that nothing else is claimed meanwhile (AloneInv), what has  *)
(* been done for a request (FateInv), and what remains true of what a      *)
(* child has looked at (GuardInv).                                         *)
(***************************************************************************)
EXTENDS UpdateAgent, TLAPS

-----------------------------------------------------------------------------
(* The inductive invariant                                                 *)

\* From the claim to the answer, and with a child at work for it.
Serving == {"made", "process", "compare", "await", "mutate", "settle", "status", "clean"}

\* The agent sweeps claims and serves one; while it does anything but wait no child is at work.
AgentInv ==
    /\ agent.at \in Serving => /\ Req \in Requests
                               /\ InClaim(Req)
                               /\ Decided(Req) = (agent.at \in {"status", "clean"})
    /\ agent.at = "sweep" => \A r \in agent.todo : InClaim(r)
    /\ agent.at = "clean" => request[Req].told
    /\ agent.at \in {"compare", "mutate", "settle"} =>
          request[Req].action \in {"rollback", "set_auto_apply"}
    /\ agent.at \notin {"off", "await"} => updater["child"].at = "off"

\* A child works for an undecided update, that of its agent if there is one.
ChildInv ==
    LET r == updater["child"].req
    IN  /\ updater["child"].at # "off" => /\ r \in Requests
                                          /\ InClaim(r)
                                          /\ ~Decided(r)
                                          /\ request[r].action = "apply"
                                          /\ agent.at = "await" => r = Req
        /\ updater["own"].req = None

\* From its admission to its end, or until it gives it back, an updater holds the lock.
Holding == Acting \cup {"admit", "verify", "begin", "note"}

LockInv ==
    /\ updater["child"].at \in Holding => lock = "request"
    /\ updater["own"].at \in Holding => lock = "own"
    /\ updater["own"].at # "admit"
    /\ updater["child"].at # "lock"
    /\ agent.at \in {"compare", "mutate", "settle"} => lock = "request"

\* What the decision of r says of its claim, and of what it repeats.
DecisionInv(r) ==
    /\ request[r].place \in {"unfiled", "queued"} => ~Decided(r) /\ fate[r] = "none"
    /\ ~Decided(r) => request[r].decision = Undecided
    /\ request[r].decision.source # None =>
          /\ request[r].decision.attempted = "false"
          /\ Decided(request[r].decision.source)

\* What has been done for a request, as far as its claim and the child's output tell.
FateInv ==
    /\ \A r \in Requests : DecisionInv(r)
    /\ agent.at \in {"made", "process", "compare", "mutate"} => fate[Req] = "none"
    /\ updater["child"].at \in {"admit", "verify", "begin"} => fate[updater["child"].req] = "none"
    /\ agent.at = "await" /\ updater["child"].at = "off" =>
          /\ updater["child"].out = "applied" => fate[Req] = "done"
          /\ updater["child"].out = "rolled_back" => fate[Req] = "undone"
          /\ updater["child"].out = "refused" => fate[Req] = "none"

\* Nothing else is claimed beside a change, and nothing was done under its key.
Alone(r) == \A q \in Requests \ {r} : ~InClaim(q)

NewKey(r) == \A q \in Requests \ {r} : request[q].key = request[r].key => fate[q] = "none"

AloneInv ==
    /\ agent.at = "sweep" /\ ~agent.active => \A q \in Requests \ agent.todo : ~InClaim(q)
    /\ agent.at \in Serving \ {"status", "clean"} /\ request[Req].action # "check" => Alone(Req)
    /\ agent.at \in {"compare", "mutate"} => NewKey(Req)
    /\ updater["child"].at # "off" => Alone(updater["child"].req)
    /\ updater["child"].at \in {"admit", "verify", "begin", "prepare", "switch"} =>
          NewKey(updater["child"].req)

\* What a child has looked at stays as it was.
GuardInv ==
    /\ updater["child"].at \in {"verify", "begin"} => ~abandoned /\ ~updater["own"].journal
    /\ updater["child"].at \in {"prepare", "switch"} =>
          production = request[updater["child"].req].bound

DrainInv ==
    drained => /\ HoldActive
               /\ lock = "free"
               /\ \A r \in Requests : ~InClaim(r)
               /\ updater["own"].at # "lock"
               /\ agent.at \notin {"sweep", "made"}

\* The inductive invariant
IInv ==
    /\ TypeOK
    /\ AgentInv
    /\ ChildInv
    /\ LockInv
    /\ FateInv
    /\ AnswersAreTrue
    /\ AloneInv
    /\ GuardInv
    /\ DrainInv

-----------------------------------------------------------------------------
(* Families of steps                                                       *)

\* An updater that is off is a state of an updater.
LEMMA IdleType == Idle \in UpdaterState
BY DEF Idle, UpdaterState, Phases, Evidence

\* An updater at work goes on to another phase; only it may change the installation.
LEMMA PhaseKeeps ==
  ASSUME IInv, NEW u \in Updaters, NEW v \in UpdaterState,
         updater[u].at \in Acting,
         v.at \in (Acting \ {"prepare"}) \cup {"note"},
         v.at = "switch" => production' = production /\ updater[u].at = "prepare",
         v.req = updater[u].req,
         updater' = [updater EXCEPT ![u] = v],
         production' \in Production,
         bounds' \in Bounds,
         AfterPhase
  PROVE  IInv'
<1>a. /\ TypeOK /\ AgentInv /\ ChildInv /\ LockInv /\ FateInv
      /\ AnswersAreTrue /\ AloneInv /\ GuardInv /\ DrainInv
  BY DEF IInv
<1>b. /\ updater' \in [Updaters -> UpdaterState]
      /\ updater'[u] = v
      /\ \A w \in Updaters : w # u => updater'[w] = updater[w]
  BY <1>a DEF TypeOK
<1>c. /\ UNCHANGED <<request, fate, agent, lock, abandoned, hold, drained>>
      /\ "child" \in Updaters /\ "own" \in Updaters
      /\ u \in {"child", "own"}
      /\ lock = FileOf(u)
  BY <1>a DEF AfterPhase, AfterUpdater, Updaters, TypeOK
<1>d. \A w \in Updaters : /\ updater'[w].req = updater[w].req
                          /\ updater[w].at = "off" <=> updater'[w].at = "off"
  BY <1>b DEF Acting
<1>1. TypeOK'
  BY <1>a, <1>b, <1>c DEF TypeOK, LockInv, Holding, Acting, FileOf
<1>2. AgentInv'
  BY <1>a, <1>c, <1>d DEF AgentInv, InClaim, Decided, Req
<1>3. ChildInv'
  BY <1>a, <1>c, <1>d DEF ChildInv, InClaim, Decided, Req
<1>4. LockInv'
  BY <1>a, <1>b, <1>c DEF LockInv, Holding, Acting, FileOf
<1>5. FateInv'
  BY <1>a, <1>b, <1>c, <1>d DEF FateInv, DecisionInv, Decided, Req, Acting
<1>6. AnswersAreTrue'
  BY <1>a, <1>c DEF AnswersAreTrue
<1>7. AloneInv'
  BY <1>a, <1>b, <1>c, <1>d DEF AloneInv, Alone, NewKey, InClaim, Req, Acting
<1>8. GuardInv'
  BY <1>a, <1>b, <1>c, <1>d DEF GuardInv, LockInv, Holding, Acting, FileOf
<1>9. DrainInv'
  BY <1>a, <1>b, <1>c DEF DrainInv, HoldActive, InClaim, Acting
<1> QED
  BY <1>1, <1>2, <1>3, <1>4, <1>5, <1>6, <1>7, <1>8, <1>9 DEF IInv

\* An updater exits or dies.
LEMMA DieKeeps ==
  ASSUME IInv, NEW u \in Updaters, NEW out \in Evidence, NEW open \in BOOLEAN,
         updater[u].at # "off",
         Die(u, out, open),
         open => updater[u].journal \/ updater[u].at \in Holding,
         UNCHANGED <<request, agent, drained, production>>,
         bounds' \in Bounds,
         hold' = hold \/ hold' = Published,
         fate' \in [Requests -> Fates],
         \A r \in Requests : u = "own" \/ r # updater["child"].req => fate'[r] = fate[r],
         u = "child" /\ agent.at = "await" =>
            /\ out = "applied" => fate'[Req] = "done"
            /\ out = "rolled_back" => fate'[Req] = "undone"
            /\ out = "refused" => fate'[Req] = "none"
  PROVE  IInv'
<1>a. /\ TypeOK /\ AgentInv /\ ChildInv /\ LockInv /\ FateInv
      /\ AnswersAreTrue /\ AloneInv /\ GuardInv /\ DrainInv
  BY DEF IInv
<1> DEFINE v == [Idle EXCEPT !.out = IF u = "child" /\ agent.at = "await" THEN out ELSE "none"]
<1>b. /\ v \in UpdaterState
      /\ v.at = "off" /\ v.req = None /\ ~v.journal
      /\ u = "child" /\ agent.at = "await" => v.out = out
  BY DEF Idle, UpdaterState, Phases, Evidence
<1>c. updater' = [updater EXCEPT ![u] = v]
  BY DEF Die
<1> HIDE DEF v
<1>d. /\ updater' \in [Updaters -> UpdaterState]
      /\ updater'[u] = v
      /\ \A w \in Updaters : w # u => updater'[w] = updater[w]
  BY <1>a, <1>b, <1>c DEF TypeOK
<1>e. /\ UNCHANGED <<request, agent, drained, production>>
      /\ "child" \in Updaters /\ "own" \in Updaters
      /\ u \in {"child", "own"}
  BY DEF Updaters
<1>f. /\ lock' = IF lock = FileOf(u) /\ (u = "own" \/ agent.at # "await") THEN "free" ELSE lock
      /\ abandoned' = (abandoned \/ open)
  BY DEF Die
<1>g. u = "child" => updater["child"].req \in Requests /\ ~Decided(updater["child"].req)
                     /\ InClaim(updater["child"].req)
  BY <1>a DEF ChildInv
<1>h. hold' \in Hold /\ (HoldActive => hold' = hold)
  BY <1>a DEF TypeOK, Hold, Published, HoldActive
<1>1. TypeOK'
  <2>1. \A w \in Updaters : updater'[w].at \in Acting => lock' = FileOf(w)
    <3> SUFFICES ASSUME NEW w \in Updaters, updater'[w].at \in Acting PROVE lock' = FileOf(w)
      OBVIOUS
    <3>1. w # u
      BY <1>b, <1>d DEF Acting
    <3>2. lock = FileOf(w)
      BY <1>a, <1>d, <3>1 DEF TypeOK
    <3>3. FileOf(w) # FileOf(u)
      BY <3>1 DEF FileOf, Updaters
    <3> QED BY <1>f, <3>2, <3>3
  <2>2. agent'.at \in {"compare", "mutate", "settle"} => lock' = "request"
    BY <1>a, <1>e, <1>f DEF LockInv, AgentInv, FileOf
  <2>3. lock' \in {"free", "request", "own"}
    BY <1>a, <1>f DEF TypeOK
  <2>4. abandoned' \in BOOLEAN
    BY <1>f
  <2> QED
    BY <1>a, <1>d, <1>e, <1>h, <2>1, <2>2, <2>3, <2>4 DEF TypeOK
<1>2. AgentInv'
  BY <1>a, <1>b, <1>d, <1>e DEF AgentInv, InClaim, Decided, Req
<1>3. ChildInv'
  BY <1>a, <1>b, <1>d, <1>e DEF ChildInv, InClaim, Decided, Req
<1>4. LockInv'
  BY <1>a, <1>b, <1>d, <1>e, <1>f DEF LockInv, AgentInv, Holding, Acting, FileOf
<1>i. /\ u = "own" => \A r \in Requests : fate'[r] = fate[r]
      /\ \A r \in Requests : Decided(r) \/ ~InClaim(r) => fate'[r] = fate[r]
  BY <1>e, <1>g
<1>5. FateInv'
  <2>1. \A r \in Requests : DecisionInv(r)'
    BY <1>a, <1>e, <1>i DEF FateInv, DecisionInv, InClaim, Decided
  <2>2. agent.at \in {"made", "process", "compare", "mutate"} => u = "own" /\ Req \in Requests
    BY <1>a, <1>e DEF AgentInv, Serving
  <2>3. updater'["child"].at \in {"admit", "verify", "begin"} =>
          u = "own" /\ updater["child"].req \in Requests
    BY <1>a, <1>b, <1>d, <1>e DEF ChildInv
  <2>4. agent.at = "await" /\ updater["child"].at = "off" => u = "own" /\ Req \in Requests
    BY <1>a, <1>e DEF AgentInv, Serving
  <2>5. agent'.at \in {"made", "process", "compare", "mutate"} => fate'[Req] = "none"
    BY <1>a, <1>e, <1>i, <2>2 DEF FateInv, Req
  <2>6. updater'["child"].at \in {"admit", "verify", "begin"} =>
          fate'[updater'["child"].req] = "none"
    BY <1>a, <1>d, <1>e, <1>i, <2>3 DEF FateInv
  <2>7. agent'.at = "await" /\ updater'["child"].at = "off" =>
          /\ updater'["child"].out = "applied" => fate'[Req] = "done"
          /\ updater'["child"].out = "rolled_back" => fate'[Req] = "undone"
          /\ updater'["child"].out = "refused" => fate'[Req] = "none"
    <3>1. CASE u = "child"
      BY <1>b, <1>d, <1>e, <3>1 DEF Req
    <3>2. CASE u = "own"
      BY <1>a, <1>d, <1>e, <1>i, <2>4, <3>2 DEF FateInv, Req
    <3> QED BY <1>e, <3>1, <3>2
  <2> QED
    BY <1>e, <2>1, <2>5, <2>6, <2>7 DEF FateInv, Req
<1>6. AnswersAreTrue'
  <2>1. \A r \in Requests :
          LET s == request[r].decision.source
          IN  /\ request[r].decision.verdict # "none" => fate'[r] = fate[r]
              /\ s # None => s \in Requests /\ fate'[s] = fate[s]
              /\ request[r].decision.attempted = "false" => Decided(r)
    BY <1>a, <1>i DEF FateInv, DecisionInv, Decided, Undecided, TypeOK, Request, Decision
  <2> QED
    BY <1>a, <1>e, <2>1 DEF AnswersAreTrue, Decided
<1>7. AloneInv'
  BY <1>a, <1>b, <1>d, <1>e, <1>g DEF AloneInv, AgentInv, ChildInv, Alone, NewKey, InClaim, Req
<1>8. GuardInv'
  BY <1>a, <1>b, <1>d, <1>e, <1>f DEF GuardInv, LockInv, FileOf, Holding, Acting
<1>9. DrainInv'
  BY <1>a, <1>b, <1>d, <1>e, <1>f, <1>h DEF DrainInv, HoldActive, InClaim
<1> QED
  BY <1>1, <1>2, <1>3, <1>4, <1>5, <1>6, <1>7, <1>8, <1>9 DEF IInv

\* The agent decides its claim.
LEMMA DecideKeeps ==
  ASSUME IInv, NEW verdict \in Verdicts \ {"none"}, NEW attempted \in {"false", "true", "null"},
         NEW source \in Requests \cup {None},
         agent.at \in {"process", "compare", "await", "mutate", "settle"},
         updater["child"].at = "off",
         Decide(verdict, attempted, source),
         source # None => attempted = "false" /\ Decided(source),
         verdict = "SUCCEEDED" => \/ request[Req].action = "check"
                                  \/ fate'[IF source = None THEN Req ELSE source] = "done",
         verdict = "REJECTED" => fate'[Req] \in {"none", "undone"},
         attempted = "false" => fate'[Req] = "none",
         fate' \in [Requests -> Fates],
         \A r \in Requests : r # Req => fate'[r] = fate[r],
         updater' = updater \/ updater' = [updater EXCEPT !["child"] = Idle],
         production' \in Production,
         bounds' \in Bounds,
         UNCHANGED <<lock, abandoned, hold, drained>>
  PROVE  IInv'
<1>a. /\ TypeOK /\ AgentInv /\ ChildInv /\ LockInv /\ FateInv
      /\ AnswersAreTrue /\ AloneInv /\ GuardInv /\ DrainInv
  BY DEF IInv
<1> DEFINE d == [verdict |-> verdict, attempted |-> attempted, source |-> source]
           q == [request[Req] EXCEPT !.decision = d]
<1>b. /\ Req \in Requests /\ InClaim(Req) /\ ~Decided(Req)
      /\ agent \in AgentState
      /\ request \in [Requests -> Request]
  BY <1>a DEF AgentInv, Serving, TypeOK
<1>c. /\ q \in Request
      /\ q.decision = d
      /\ q.place = request[Req].place /\ q.action = request[Req].action
      /\ q.key = request[Req].key /\ q.told = request[Req].told /\ q.bound = request[Req].bound
  BY <1>b DEF Request, Decision
<1>d. /\ request' = [request EXCEPT ![Req] = q]
      /\ agent' = [agent EXCEPT !.at = "status"]
  BY <1>b DEF Decide, Goto
<1> HIDE DEF q
<1>e. /\ request' \in [Requests -> Request]
      /\ request'[Req] = q
      /\ \A r \in Requests : r # Req => request'[r] = request[r]
  BY <1>b, <1>c, <1>d
<1>f. /\ agent' \in AgentState
      /\ agent'.at = "status" /\ agent'.req = Req
  <2>1. [agent EXCEPT !.at = "status"] \in AgentState
    BY <1>b DEF AgentState, Points
  <2> QED
    BY <1>b, <1>d, <2>1 DEF AgentState, Req
<1>g. /\ updater' \in [Updaters -> UpdaterState]
      /\ updater'["child"].at = "off"
      /\ updater'["own"] = updater["own"]
  <2>1. /\ updater \in [Updaters -> UpdaterState]
        /\ "child" \in Updaters /\ "own" \in Updaters
        /\ Idle.at = "off"
    BY <1>a DEF TypeOK, Updaters, Idle
  <2>2. CASE updater' = updater
    BY <2>1, <2>2
  <2>3. CASE updater' = [updater EXCEPT !["child"] = Idle]
    BY <2>1, <2>3, IdleType
  <2> QED BY <2>2, <2>3
<1>1. TypeOK'
  BY <1>a, <1>e, <1>f, <1>g DEF TypeOK, Updaters, Acting
<1>2. AgentInv'
  BY <1>b, <1>c, <1>e, <1>f, <1>g DEF AgentInv, Serving, InClaim, Decided, Req
<1>3. ChildInv'
  BY <1>a, <1>g DEF ChildInv
<1>4. LockInv'
  BY <1>a, <1>f, <1>g DEF LockInv, Holding, Acting
<1>5. FateInv'
  <2>1. \A r \in Requests \ {Req} :
          /\ request'[r] = request[r] /\ fate'[r] = fate[r]
          /\ Decided(r) => Decided(r)'
    BY <1>e DEF Decided
  <2>2. /\ request'[Req].decision = d
        /\ ~(request'[Req].place \in {"unfiled", "queued"})
    BY <1>b, <1>c, <1>e DEF InClaim
  <2>3. source # None => source \in Requests \ {Req} /\ Decided(source)
    BY <1>b
  <2>4. \A r \in Requests : DecisionInv(r)'
    <3> SUFFICES ASSUME NEW r \in Requests PROVE DecisionInv(r)'
      OBVIOUS
    <3>1. CASE r = Req
      BY <2>1, <2>2, <2>3, <3>1 DEF DecisionInv, Decided
    <3>2. CASE r # Req
      <4>1. request[r].decision.source \in Requests \cup {None}
        BY <1>b DEF Request, Decision
      <4>2. request[r].decision.source # Req
        BY <1>a, <1>b, ConstantsAssumption DEF FateInv, DecisionInv
      <4> QED
        BY <1>a, <2>1, <3>2, <4>1, <4>2 DEF FateInv, DecisionInv, Decided
    <3> QED BY <3>1, <3>2
  <2> QED
    BY <1>f, <1>g, <2>4 DEF FateInv
<1>6. AnswersAreTrue'
  <2> SUFFICES ASSUME NEW r \in Requests
               PROVE  LET e == request'[r].decision
                          s == IF e.source = None THEN r ELSE e.source
                      IN  /\ e.verdict = "SUCCEEDED" => request'[r].action = "check" \/ fate'[s] = "done"
                          /\ e.verdict = "REJECTED" => fate'[r] \in {"none", "undone"}
                          /\ e.attempted = "false" => fate'[r] = "none"
                          /\ request'[r].place = "gone" => e.verdict # "none" /\ request'[r].told
    BY DEF AnswersAreTrue
  <2>1. CASE r = Req
    BY <1>b, <1>c, <1>e, <2>1 DEF InClaim
  <2>2. CASE r # Req
    <3>1. request[r].decision.source # Req
      BY <1>a, <1>b, <2>2, ConstantsAssumption DEF FateInv, DecisionInv, TypeOK, Request, Decision
    <3> QED
      BY <1>a, <1>e, <2>2, <3>1 DEF AnswersAreTrue, TypeOK, Request, Decision
  <2> QED BY <2>1, <2>2
<1>7. AloneInv'
  BY <1>a, <1>f, <1>g DEF AloneInv, Serving
<1>8. GuardInv'
  BY <1>a, <1>g DEF GuardInv
<1>9. DrainInv'
  BY <1>a, <1>b DEF DrainInv
<1> QED
  BY <1>1, <1>2, <1>3, <1>4, <1>5, <1>6, <1>7, <1>8, <1>9 DEF IInv

-----------------------------------------------------------------------------
(* The update center and the operator                                      *)

\* A request is filed under the published state.
LEMMA FileKeeps ==
  ASSUME IInv, NEW r \in Requests, File(r)
  PROVE  IInv'
<1>1. PICK s \in Shapes[r] : request' = [request EXCEPT ![r] =
                [@ EXCEPT !.place = "queued", !.action = s.action, !.key = s.key,
                          !.bound = production, !.since = hold.generation]]
  BY DEF File
<1> DEFINE q == [request[r] EXCEPT !.place = "queued", !.action = s.action, !.key = s.key,
                          !.bound = production, !.since = hold.generation]
<1>2. /\ request \in [Requests -> Request]
      /\ production \in Production /\ hold.generation \in Nat
      /\ s.action \in Actions /\ s.key \in Nat
      /\ request[r].place = "unfiled"
  BY <1>1, ConstantsAssumption DEF IInv, TypeOK, Hold, File
<1>3. /\ q \in Request
      /\ q.place = "queued"
      /\ q.decision = request[r].decision /\ q.told = request[r].told
  BY <1>2 DEF Request, Places
<1> HIDE DEF q
<1>4. /\ request' \in [Requests -> Request]
      /\ request'[r] = q
      /\ \A p \in Requests : p # r => request'[p] = request[p]
  BY <1>1, <1>2, <1>3 DEF q
<1>5. UNCHANGED <<fate, agent, updater, lock, abandoned, hold, drained, production, bounds>>
  BY DEF File
<1>6. /\ agent.at \in Serving => Req # r
      /\ updater["child"].at # "off" => updater["child"].req # r
      /\ \A p \in Requests : (InClaim(p)' <=> InClaim(p)) /\ (Decided(p)' <=> Decided(p))
      /\ fate[r] = "none" /\ ~Decided(r)
  BY <1>2, <1>3, <1>4 DEF IInv, AgentInv, ChildInv, FateInv, DecisionInv, InClaim, Decided
<1>7. TypeOK'
  BY <1>4, <1>5 DEF IInv, TypeOK
<1>8. AgentInv'
  <2>1. agent.todo \subseteq Requests
    BY DEF IInv, TypeOK, AgentState
  <2>2. agent.at = "sweep" => \A p \in agent.todo : InClaim(p)'
    BY <1>6, <2>1 DEF IInv, AgentInv
  <2>3. agent.at \in Serving => request'[Req] = request[Req] /\ Req \in Requests
    BY <1>4, <1>6 DEF IInv, AgentInv
  <2> QED
    BY <1>5, <2>2, <2>3 DEF IInv, AgentInv, Serving, Req, InClaim, Decided
<1>9. ChildInv' /\ LockInv' /\ DrainInv'
  BY <1>4, <1>5, <1>6 DEF IInv, ChildInv, LockInv, DrainInv, HoldActive, Req
<1>10. FateInv'
  <2>1. \A p \in Requests : DecisionInv(p)'
    <3> SUFFICES ASSUME NEW p \in Requests PROVE DecisionInv(p)'
      OBVIOUS
    <3>1. /\ request'[p].decision = request[p].decision
          /\ request[p].decision.source \in Requests \cup {None}
      BY <1>2, <1>3, <1>4 DEF Request, Decision
    <3> QED
      BY <1>3, <1>4, <1>5, <1>6, <3>1 DEF IInv, FateInv, DecisionInv, Decided
  <2> QED
    BY <1>5, <2>1 DEF IInv, FateInv, Req
<1>11. AnswersAreTrue'
  BY <1>2, <1>3, <1>4, <1>5, <1>6 DEF IInv, AnswersAreTrue, FateInv, DecisionInv, Decided, Undecided
<1>12. AloneInv'
  BY <1>4, <1>5, <1>6 DEF IInv, AloneInv, AgentInv, ChildInv, Alone, NewKey, Serving, Req
<1>13. GuardInv'
  BY <1>4, <1>5, <1>6 DEF IInv, GuardInv, ChildInv
<1> QED
  BY <1>7, <1>8, <1>9, <1>10, <1>11, <1>12, <1>13 DEF IInv

\* The operator publishes a hold, clears it, or asks whether the queue is drained.
LEMMA MaintenanceKeeps ==
  ASSUME IInv, PublishHold \/ ClearHold \/ Drain
  PROVE  IInv'
<1>1. UNCHANGED <<request, fate, agent, updater, lock, abandoned, production>>
  BY DEF PublishHold, ClearHold, Drain, Control
<1>2. TypeOK'
  <2>1. hold \in Hold /\ bounds \in Bounds /\ drained \in BOOLEAN /\ MaxControls \in Nat
    BY ConstantsAssumption DEF IInv, TypeOK
  <2>2. hold' \in Hold
    BY <2>1 DEF PublishHold, ClearHold, Drain, Published, Hold
  <2>3. bounds' \in Bounds
    BY <2>1 DEF PublishHold, ClearHold, Drain, Control, Controlled, Bounds
  <2>4. drained' \in BOOLEAN
    BY <2>1 DEF PublishHold, ClearHold, Drain
  <2> QED
    BY <1>1, <2>2, <2>3, <2>4 DEF IInv, TypeOK
<1>3. AgentInv' /\ ChildInv' /\ LockInv' /\ FateInv' /\ AnswersAreTrue' /\ AloneInv' /\ GuardInv'
  BY <1>1 DEF IInv, AgentInv, ChildInv, LockInv, FateInv, DecisionInv, AnswersAreTrue, AloneInv, GuardInv,
     InClaim, Decided, Req, Alone, NewKey
<1>4. DrainInv'
  BY <1>1 DEF IInv, DrainInv, HoldActive, InClaim, Published, PublishHold, ClearHold, Drain, Quiet,
     QueueControlFree
<1> QED
  BY <1>2, <1>3, <1>4 DEF IInv

-----------------------------------------------------------------------------
(* The agent up to its next claim                                          *)

\* The agent is admitted, or publishes a hold for a dead updater.
LEMMA AdmitKeeps ==
  ASSUME IInv, Admit
  PROVE  IInv'
<1>1. /\ UNCHANGED <<request, fate, updater, lock, abandoned, drained, production, bounds>>
      /\ agent.at = "off" /\ updater["child"].at = "off"
      /\ ~drained
  BY DEF Admit, IInv, DrainInv
<1>2. /\ agent' \in AgentState
      /\ hold' \in Hold
      /\ agent'.at \in {"off", "sweep"}
      /\ agent'.at = "sweep" => agent'.todo = {r \in Requests : InClaim(r)}
  <2>1. hold \in Hold /\ Off \in AgentState /\ agent \in AgentState
    BY DEF IInv, TypeOK, Off, AgentState, Points
  <2> DEFINE a == [Off EXCEPT !.at = "sweep", !.todo = {r \in Requests : InClaim(r)}]
  <2>2. /\ a \in AgentState
        /\ a.at = "sweep" /\ a.todo = {r \in Requests : InClaim(r)}
    BY DEF Off, AgentState, Points
  <2> HIDE DEF a
  <2>3. agent' = agent \/ agent' = a
    BY DEF Admit, a
  <2>4. hold' \in Hold
    BY <2>1 DEF Admit, Published, Hold
  <2> QED
    BY <1>1, <2>1, <2>2, <2>3, <2>4
<1>3. TypeOK'
  BY <1>1, <1>2 DEF IInv, TypeOK
<1>4. AgentInv' /\ ChildInv' /\ LockInv' /\ FateInv' /\ AnswersAreTrue' /\ GuardInv' /\ DrainInv'
  BY <1>1, <1>2 DEF IInv, AgentInv, ChildInv, LockInv, FateInv, DecisionInv, AnswersAreTrue, GuardInv, DrainInv,
     InClaim, Decided, Serving, Holding, Acting
<1>5. AloneInv'
  BY <1>1, <1>2 DEF AloneInv, InClaim, Serving
<1> QED
  BY <1>3, <1>4, <1>5 DEF IInv

\* A claim that is written off was neither answered nor is anybody at work on it.
LEMMA SweepKeeps ==
  ASSUME IInv, NEW r \in Requests, Republish(r) \/ LeaveClaim(r) \/ WriteOff(r)
  PROVE  IInv'
<1>1. /\ UNCHANGED <<fate, updater, lock, abandoned, hold, drained, production, bounds>>
      /\ agent.at = "sweep" /\ r \in agent.todo
      /\ updater["child"].at = "off"
      /\ ~drained
  BY DEF Republish, LeaveClaim, WriteOff, AfterSweep, IInv, AgentInv, DrainInv
<1>2. /\ request \in [Requests -> Request]
      /\ agent \in AgentState
  BY DEF IInv, TypeOK
<1>3. PICK active \in BOOLEAN : Swept(r, active) /\ (~active => Republish(r) /\ ~Uncertain(r))
  BY <1>2 DEF Republish, LeaveClaim, WriteOff, Uncertain
<1>4. /\ agent' \in AgentState
      /\ agent'.at = "sweep"
      /\ agent'.todo = agent.todo \ {r}
      /\ agent'.active = (agent.active \/ active)
  BY <1>1, <1>2, <1>3 DEF Swept, AgentState
<1>5. PICK q \in Request :
          /\ request' = [request EXCEPT ![r] = q]
          /\ q.action = request[r].action /\ q.key = request[r].key /\ q.bound = request[r].bound
          /\ q.decision.attempted = request[r].decision.attempted
          /\ q.decision.source = request[r].decision.source
          /\ \/ /\ Decided(r) /\ q.decision = request[r].decision /\ q.told
                /\ Uncertain(r) => q.place = request[r].place
                /\ ~Uncertain(r) => q.place = "gone"
             \/ /\ ~Decided(r) /\ q = request[r] /\ request[r].place = "claimed"
             \/ /\ ~Decided(r) /\ q.place = "claimed"
                /\ q.decision.verdict = "NEEDS_RECONCILIATION"
  <2>1. CASE Republish(r)
    <3> DEFINE q == [request[r] EXCEPT !.told = TRUE,
                                       !.place = IF Uncertain(r) THEN request[r].place ELSE "gone"]
    <3>1. q \in Request
      BY <1>2 DEF Request, Places
    <3>2. request' = [request EXCEPT ![r] = q]
      BY <2>1, <1>2 DEF Republish
    <3> QED
      BY <1>2, <2>1, <3>1, <3>2 DEF Republish, Request
  <2>2. CASE LeaveClaim(r)
    BY <1>2, <2>2 DEF LeaveClaim
  <2>3. CASE WriteOff(r)
    <3> DEFINE d == [request[r].decision EXCEPT !.verdict = "NEEDS_RECONCILIATION"]
               q == [request[r] EXCEPT !.place = "claimed", !.told = TRUE, !.decision = d]
    <3>1. /\ d \in Decision
          /\ d.verdict = "NEEDS_RECONCILIATION"
          /\ d.attempted = request[r].decision.attempted
          /\ d.source = request[r].decision.source
      BY <1>2 DEF Request, Decision, Verdicts
    <3>2. request' = [request EXCEPT ![r] = q]
      BY ZenonT(30), <1>2, <2>3 DEF WriteOff, Request
    <3> HIDE DEF d
    <3>3. q \in Request
      BY <1>2, <3>1 DEF Request, Places
    <3> QED
      BY <1>2, <2>3, <3>1, <3>2, <3>3 DEF WriteOff, Request
  <2> QED BY <2>1, <2>2, <2>3
<1>6. /\ request' \in [Requests -> Request]
      /\ request'[r] = q
      /\ \A p \in Requests : p # r => request'[p] = request[p]
  BY <1>2, <1>5
<1>7. InClaim(r)
  BY DEF Republish, LeaveClaim, WriteOff, IInv, AgentInv
<1>8. TypeOK'
  BY <1>1, <1>4, <1>6 DEF IInv, TypeOK
<1>9. AgentInv' /\ ChildInv' /\ LockInv' /\ GuardInv' /\ DrainInv'
  <2>1. \A p \in agent'.todo : InClaim(p)'
    BY <1>1, <1>2, <1>4, <1>6 DEF IInv, AgentInv, InClaim, AgentState
  <2>2. AgentInv'
    BY <1>1, <1>4, <2>1 DEF AgentInv, Serving
  <2> QED
    BY <1>1, <1>4, <2>2 DEF IInv, ChildInv, LockInv, GuardInv, DrainInv, Holding, Acting
<1>10. FateInv'
  <2>1. \A p \in Requests : Decided(p) => Decided(p)'
    BY <1>5, <1>6 DEF Decided
  <2>2. \A p \in Requests : DecisionInv(p)'
    <3> SUFFICES ASSUME NEW p \in Requests PROVE DecisionInv(p)'
      OBVIOUS
    <3>1. /\ request'[p].decision.source = request[p].decision.source
          /\ request[p].decision.source \in Requests \cup {None}
          /\ request'[p].decision.attempted = request[p].decision.attempted
      BY <1>2, <1>5, <1>6 DEF Request, Decision
    <3>2. /\ request'[p].place \in {"unfiled", "queued"} =>
               p # r /\ request[p].place \in {"unfiled", "queued"}
          /\ ~Decided(p)' => request'[p].decision = request[p].decision
      BY <1>5, <1>6, <1>7 DEF InClaim, Decided
    <3> QED
      BY <1>1, <1>6, <2>1, <3>1, <3>2 DEF IInv, FateInv, DecisionInv, Decided
  <2> QED
    BY <1>1, <1>4, <2>2 DEF IInv, FateInv
<1>11. AnswersAreTrue'
  BY <1>1, <1>5, <1>6 DEF IInv, AnswersAreTrue, Decided
<1>12. AloneInv'
  <2>1. agent'.at = "sweep" /\ ~agent'.active => \A p \in Requests \ agent'.todo : ~InClaim(p)'
    BY <1>1, <1>3, <1>4, <1>5, <1>6 DEF IInv, AloneInv, InClaim, Republish
  <2> QED
    BY <1>1, <1>4, <2>1 DEF AloneInv, Serving
<1> QED
  BY <1>8, <1>9, <1>10, <1>11, <1>12 DEF IInv

\* The next request is moved; a change only if no claim is left over.
LEMMA TakeKeeps ==
  ASSUME IInv, NEW r \in Requests, TakeRequest(r)
  PROVE  IInv'
<1>1. /\ UNCHANGED <<fate, updater, lock, abandoned, hold, drained, production, bounds>>
      /\ agent.at = "sweep" /\ agent.todo = {}
      /\ request[r].place = "queued"
      /\ agent.active => request[r].action = "check"
      /\ updater["child"].at = "off"
      /\ ~drained
  BY DEF TakeRequest, Claimable, AfterSweep, IInv, AgentInv, DrainInv
<1> DEFINE q == [request[r] EXCEPT !.place = "bare"]
<1>2. /\ request \in [Requests -> Request]
      /\ agent \in AgentState
      /\ request' = [request EXCEPT ![r] = q]
      /\ agent' = [agent EXCEPT !.at = "made", !.req = r]
  BY DEF IInv, TypeOK, TakeRequest
<1>3. /\ q \in Request
      /\ q.place = "bare" /\ q.action = request[r].action
      /\ q.key = request[r].key /\ q.decision = request[r].decision
  BY <1>2 DEF Request, Places
<1> HIDE DEF q
<1>4. /\ request' \in [Requests -> Request]
      /\ request'[r] = q
      /\ \A p \in Requests : p # r => request'[p] = request[p]
      /\ agent' \in AgentState
      /\ agent'.at = "made" /\ agent'.req = r
  BY <1>2, <1>3 DEF AgentState, Points
<1>5. ~Decided(r) /\ fate[r] = "none"
  BY <1>1 DEF IInv, FateInv, DecisionInv
<1>6. TypeOK'
  BY <1>1, <1>4 DEF IInv, TypeOK
<1>7. AgentInv' /\ ChildInv' /\ LockInv' /\ GuardInv' /\ DrainInv'
  BY <1>1, <1>3, <1>4, <1>5 DEF IInv, AgentInv, ChildInv, LockInv, GuardInv, DrainInv, Serving,
     Holding, Acting, InClaim, Decided, Req
<1>8. FateInv'
  <2>1. \A p \in Requests : /\ request'[p].decision = request[p].decision
                            /\ request[p].decision.source \in Requests \cup {None}
    BY <1>2, <1>3, <1>4 DEF Request, Decision
  <2>2. \A p \in Requests : Decided(p)' <=> Decided(p)
    BY <2>1 DEF Decided
  <2>3. \A p \in Requests : request'[p].place \in {"unfiled", "queued"} =>
                                request[p].place \in {"unfiled", "queued"}
    BY <1>1, <1>4
  <2>4. \A p \in Requests : DecisionInv(p)'
    BY <1>1, <2>1, <2>2, <2>3, ConstantsAssumption DEF IInv, FateInv, DecisionInv, Decided
  <2> QED
    BY <1>1, <1>4, <1>5, <2>1, <2>4 DEF FateInv, Req
<1>9. AnswersAreTrue'
  BY <1>1, <1>3, <1>4 DEF IInv, AnswersAreTrue
<1>10. AloneInv'
  BY <1>1, <1>3, <1>4 DEF IInv, AloneInv, Alone, InClaim, Serving, Req
<1> QED
  BY <1>6, <1>7, <1>8, <1>9, <1>10 DEF IInv

\* The agent's own claim moves between its directory with and without claim.json,
\* or is published.
LEMMA ClaimKeeps ==
  ASSUME IInv, agent.at \in {"made", "status", "clean"},
         NEW q \in Request,
         request' = [request EXCEPT ![Req] = q],
         q = [request[Req] EXCEPT !.place = q.place, !.told = q.told],
         InClaim(Req)',
         request[Req].told => q.told,
         NEW at \in Points,
         agent' = [agent EXCEPT !.at = at],
         \/ agent.at = "made" /\ at = "process"
         \/ agent.at \in {"status", "clean"} /\ at = "clean" /\ q.told,
         UNCHANGED <<fate, updater, lock, abandoned, hold, drained, production, bounds>>
  PROVE  IInv'
<1>1. /\ request \in [Requests -> Request]
      /\ agent \in AgentState
      /\ Req \in Requests /\ InClaim(Req)
      /\ updater["child"].at = "off"
      /\ ~drained \/ agent.at # "made"
  BY DEF IInv, TypeOK, AgentInv, Serving, DrainInv
<1>2. /\ q.action = request[Req].action /\ q.key = request[Req].key
      /\ q.decision = request[Req].decision /\ q.bound = request[Req].bound
  BY <1>1 DEF Request
<1>3. /\ request' \in [Requests -> Request]
      /\ request'[Req] = q
      /\ \A p \in Requests : p # Req => request'[p] = request[p]
      /\ agent' \in AgentState
      /\ agent'.at = at /\ agent'.req = Req
  BY <1>1 DEF AgentState, Req
<1>4. q.place \in {"bare", "claimed"}
  BY <1>1, <1>3 DEF InClaim, Req
<1>5. \A p \in Requests : /\ request'[p].decision = request[p].decision
                          /\ request'[p].action = request[p].action
                          /\ request'[p].key = request[p].key
                          /\ request[p].decision.source \in Requests \cup {None}
                          /\ Decided(p)' <=> Decided(p)
                          /\ InClaim(p)' <=> InClaim(p)
  BY <1>1, <1>2, <1>3, <1>4 DEF Request, Decision, Decided, InClaim
<1>6. TypeOK'
  BY <1>3 DEF IInv, TypeOK
<1>7. AgentInv' /\ ChildInv' /\ LockInv' /\ GuardInv' /\ DrainInv'
  BY <1>1, <1>3, <1>5 DEF IInv, AgentInv, ChildInv, LockInv, GuardInv, DrainInv, HoldActive, Serving,
     Holding, Acting, InClaim, Decided, Req
<1>8. FateInv'
  <2>1. \A p \in Requests : request'[p].place \in {"unfiled", "queued"} =>
                                request[p].place \in {"unfiled", "queued"}
    BY <1>1, <1>3, <1>4
  <2>2. \A p \in Requests : DecisionInv(p)'
    BY <1>5, <2>1, ConstantsAssumption DEF IInv, FateInv, DecisionInv, Decided
  <2> QED
    BY <1>1, <1>3, <1>5, <2>2 DEF IInv, FateInv, Req
<1>9. AnswersAreTrue'
  BY <1>1, <1>3, <1>4, <1>5 DEF IInv, AnswersAreTrue
<1>10. AloneInv'
  BY <1>1, <1>3, <1>5 DEF IInv, AloneInv, Alone, InClaim, Serving, Req
<1> QED
  BY <1>6, <1>7, <1>8, <1>9, <1>10 DEF IInv

\* The agent ends without a request.
LEMMA NothingToDoKeeps ==
  ASSUME IInv, NothingToDo
  PROVE  IInv'
<1>1. /\ UNCHANGED <<request, fate, updater, lock, abandoned, hold, drained, production, bounds>>
      /\ agent' = Off
      /\ Off \in AgentState /\ Off.at = "off"
      /\ agent.at = "sweep"
  BY DEF NothingToDo, AfterSweep, Off, AgentState, Points
<1>2. TypeOK'
  BY <1>1 DEF IInv, TypeOK
<1>3. AgentInv' /\ ChildInv' /\ LockInv' /\ FateInv' /\ AnswersAreTrue'
      /\ AloneInv' /\ GuardInv' /\ DrainInv'
  BY <1>1 DEF IInv, AgentInv, ChildInv, LockInv, FateInv, DecisionInv, AnswersAreTrue, AloneInv, GuardInv,
     DrainInv, HoldActive, InClaim, Decided, Alone, NewKey, Serving
<1> QED
  BY <1>2, <1>3 DEF IInv

-----------------------------------------------------------------------------
(* The agent and its claim                                                 *)

\* claim.json is written.
LEMMA WriteClaimKeeps ==
  ASSUME IInv, WriteClaim
  PROVE  IInv'
<1> DEFINE q == [request[Req] EXCEPT !.place = "claimed"]
<1>1. /\ request \in [Requests -> Request]
      /\ Req \in Requests
      /\ agent.at = "made"
  BY DEF IInv, TypeOK, AgentInv, Serving, WriteClaim
<1>2. /\ q \in Request
      /\ q.place = "claimed" /\ q.told = request[Req].told
      /\ q = [request[Req] EXCEPT !.place = q.place, !.told = q.told]
  BY <1>1 DEF Request, Places
<1>3. request' = [request EXCEPT ![Req] = q]
  BY <1>1 DEF WriteClaim
<1> HIDE DEF q
<1>4. agent' = [agent EXCEPT !.at = "process"] /\ agent'.req = Req
  BY DEF WriteClaim, Goto, Req, IInv, TypeOK, AgentState
<1>5. InClaim(Req)'
  BY <1>1, <1>2, <1>3, <1>4 DEF InClaim, Req
<1>6. UNCHANGED <<fate, updater, lock, abandoned, hold, drained, production, bounds>>
  BY DEF WriteClaim, AfterSweep
<1> QED
  BY <1>1, <1>2, <1>3, <1>4, <1>5, <1>6, ClaimKeeps DEF Points

\* What is known of the agent's claim while it is worked on.
LEMMA AtWork ==
  ASSUME IInv, agent.at \in Serving
  PROVE  /\ Req \in Requests
         /\ InClaim(Req)
         /\ request \in [Requests -> Request]
         /\ fate \in [Requests -> Fates]
         /\ production \in Production
         /\ bounds \in Bounds
         /\ agent.at # "await" => updater["child"].at = "off"
         /\ agent.at \in {"process", "compare", "mutate"} => fate[Req] = "none"
BY DEF IInv, AgentInv, FateInv, TypeOK, Serving

\* The claim is answered without execution, by the answer of another if its key was used.
LEMMA ProcessKeeps ==
  ASSUME IInv, Replay \/ Refuse \/ Check \/ (Compare /\ Reject)
  PROVE  IInv'
<1>1. /\ agent.at \in {"process", "compare"}
      /\ UNCHANGED <<fate, updater, lock, abandoned, hold, drained, production, bounds>>
  BY DEF Replay, Refuse, Check, Accepted, Compare, AfterProcess
<1>2. /\ Req \in Requests /\ fate[Req] = "none"
      /\ updater["child"].at = "off"
      /\ request \in [Requests -> Request]
      /\ production' \in Production /\ bounds' \in Bounds /\ fate' \in [Requests -> Fates]
  BY <1>1, AtWork DEF Serving
<1>3. CASE Replay
  <2>1. PICK s \in Sources(Req) :
          Decide(IF SameIntent(s, Req) THEN request[s].decision.verdict ELSE "REJECTED", "false", s)
    BY <1>3 DEF Replay
  <2> DEFINE verdict == IF SameIntent(s, Req) THEN request[s].decision.verdict ELSE "REJECTED"
  <2>2. /\ s \in Requests /\ Decided(s)
        /\ request[s].decision.source = None
        /\ verdict \in Verdicts \ {"none"}
    BY <1>2 DEF Sources, Decided, Request, Decision, Verdicts
  <2>3. verdict = "SUCCEEDED" => request[Req].action = "check" \/ fate[s] = "done"
    BY <2>2 DEF IInv, AnswersAreTrue, SameIntent
  <2>4. s # None
    BY <2>2, ConstantsAssumption
  <2> HIDE DEF verdict
  <2>5. Decide(verdict, "false", s)
    BY <2>1 DEF verdict
  <2> QED
    BY <1>1, <1>2, <2>2, <2>3, <2>4, <2>5, DecideKeeps
<1>4. CASE ~Replay
  <2>1. PICK v \in {"SUCCEEDED", "REJECTED"} :
          Decide(v, "false", None) /\ (v = "SUCCEEDED" => request[Req].action = "check")
    BY <1>4 DEF Refuse, Check, Reject
  <2> QED
    BY <1>1, <1>2, <2>1, DecideKeeps DEF Verdicts
<1> QED BY <1>3, <1>4

\* A mutation is refused, or ends, known or unknown.
LEMMA MutationKeeps ==
  ASSUME IInv, \/ Mutate /\ (Reject \/ Decide("NEEDS_RECONCILIATION", "null", None))
               \/ Settle
  PROVE  IInv'
<1>1. /\ agent.at \in {"mutate", "settle"}
      /\ UNCHANGED <<updater, lock, abandoned, hold, drained>>
  BY DEF Mutate, Settle
<1>2. /\ Req \in Requests /\ (agent.at = "mutate" => fate[Req] = "none")
      /\ updater["child"].at = "off"
      /\ request \in [Requests -> Request]
      /\ fate \in [Requests -> Fates]
      /\ production \in Production /\ bounds \in Bounds
      /\ request[Req].bound \in Production
  BY <1>1, AtWork DEF Serving, Request
<1>3. Fault => bounds' \in Bounds
  BY <1>2, ConstantsAssumption DEF Fault, Bounds
<1>4. CASE Mutate /\ (Reject \/ Decide("NEEDS_RECONCILIATION", "null", None))
  <2>1. agent.at = "mutate" /\ agent'.at = "status"
    BY <1>2, <1>4 DEF Mutate, Reject, Decide, Goto, IInv, TypeOK, AgentState
  <2>2. CASE Reject /\ UNCHANGED <<fate, production, bounds>>
    BY <1>1, <1>2, <2>1, <2>2, DecideKeeps DEF Reject, Verdicts
  <2>3. CASE /\ fate' = [fate EXCEPT ![Req] = "begun"]
             /\ Decide("NEEDS_RECONCILIATION", "null", None)
             /\ Fault
             /\ UNCHANGED production
    <3>1. fate' \in [Requests -> Fates] /\ \A r \in Requests : r # Req => fate'[r] = fate[r]
      BY <1>2, <2>3 DEF Fates
    <3> QED
      BY <1>1, <1>2, <1>3, <2>3, <3>1, DecideKeeps DEF Verdicts
  <2> QED
    BY <1>4, <2>1, <2>2, <2>3 DEF Mutate, Goto, IInv, TypeOK, AgentState
<1>5. CASE Settle
  <2>1. CASE /\ fate' = [fate EXCEPT ![Req] = "done"]
             /\ Decide("SUCCEEDED", "true", None)
             /\ UNCHANGED <<production, bounds>>
    <3>1. /\ fate' \in [Requests -> Fates] /\ fate'[Req] = "done"
          /\ \A r \in Requests : r # Req => fate'[r] = fate[r]
      BY <1>2, <2>1 DEF Fates
    <3> QED
      BY <1>1, <1>2, <1>5, <2>1, <3>1, DecideKeeps DEF Settle, Verdicts
  <2>2. CASE /\ fate' = [fate EXCEPT ![Req] = "undone"]
             /\ production' = [production EXCEPT !.image = request[Req].bound.image,
                                                 !.version = request[Req].bound.version]
             /\ Decide("REJECTED", "true", None)
             /\ Fault
    <3>1. /\ fate' \in [Requests -> Fates] /\ fate'[Req] = "undone"
          /\ \A r \in Requests : r # Req => fate'[r] = fate[r]
      BY <1>2, <2>2 DEF Fates
    <3>2. production' \in Production
      BY <1>2, <2>2 DEF Production
    <3> QED
      BY <1>1, <1>2, <1>3, <1>5, <2>2, <3>1, <3>2, DecideKeeps DEF Settle, Verdicts
  <2>3. CASE /\ Decide("NEEDS_RECONCILIATION", "true", None)
             /\ Fault
             /\ UNCHANGED <<fate, production>>
    BY <1>1, <1>2, <1>3, <1>5, <2>3, DecideKeeps DEF Settle, Verdicts
  <2> QED
    BY <1>5, <2>1, <2>2, <2>3 DEF Settle
<1> QED
  BY <1>4, <1>5

\* The child's output tells what it has done.
LEMMA JudgeKeeps ==
  ASSUME IInv, Judge
  PROVE  IInv'
<1> DEFINE out == updater["child"].out
           j == Judged(out)
<1>1. /\ agent.at = "await" /\ updater["child"].at = "off"
      /\ UNCHANGED <<fate, lock, abandoned, hold, drained, production, bounds>>
      /\ updater' = [updater EXCEPT !["child"] = Idle]
      /\ Decide(j.verdict, j.attempted, None)
  BY DEF Judge
<1>2. /\ Req \in Requests
      /\ out = "applied" => fate[Req] = "done"
      /\ out = "rolled_back" => fate[Req] = "undone"
      /\ out = "refused" => fate[Req] = "none"
      /\ fate \in [Requests -> Fates] /\ production \in Production /\ bounds \in Bounds
  BY <1>1, AtWork DEF IInv, FateInv, Serving
<1> HIDE DEF out
<1>3. /\ j.verdict \in Verdicts \ {"none"} /\ j.attempted \in {"false", "true", "null"}
      /\ j.verdict = "SUCCEEDED" => out = "applied"
      /\ j.verdict = "REJECTED" => out \in {"rolled_back", "refused"}
      /\ j.attempted = "false" => out = "refused"
  <2>1. CASE out = "applied"
    BY <2>1 DEF Judged, Verdicts
  <2>2. CASE out = "rolled_back"
    BY <2>2 DEF Judged, Verdicts
  <2>3. CASE out = "refused"
    BY <2>3 DEF Judged, Verdicts
  <2>4. CASE out = "silent"
    BY <2>4 DEF Judged, Verdicts
  <2>5. CASE out \notin {"applied", "rolled_back", "refused", "silent"}
    BY <2>5 DEF Judged, Verdicts
  <2> QED BY <2>1, <2>2, <2>3, <2>4, <2>5
<1> HIDE DEF j
<1> QED
  BY <1>1, <1>2, <1>3, DecideKeeps

\* The first comparison passes.
LEMMA CompareKeeps ==
  ASSUME IInv, Compare, ~Reject
  PROVE  IInv'
<1>1. /\ UNCHANGED <<request, fate, updater, lock, abandoned, hold, drained, production, bounds>>
      /\ agent.at = "compare"
      /\ agent' = [agent EXCEPT !.at = "mutate"]
  BY DEF Compare, AfterProcess, Goto
<1>2. /\ agent' \in AgentState
      /\ agent'.at = "mutate" /\ agent'.req = Req
  <2>1. agent \in AgentState
    BY DEF IInv, TypeOK
  <2> QED
    BY <1>1, <2>1 DEF AgentState, Points, Req
<1>3. TypeOK'
  BY <1>1, <1>2 DEF IInv, TypeOK
<1>4. AgentInv' /\ ChildInv' /\ LockInv' /\ FateInv' /\ AnswersAreTrue'
  BY SMTT(20), <1>1, <1>2
     DEF IInv, AgentInv, ChildInv, LockInv, FateInv, DecisionInv, AnswersAreTrue, Serving, InClaim, Decided, Req
<1>5. AloneInv' /\ GuardInv' /\ DrainInv'
  BY <1>1, <1>2 DEF IInv, AgentInv, AloneInv, GuardInv, DrainInv, HoldActive, Serving,
     InClaim, Alone, NewKey, Req
<1> QED
  BY <1>3, <1>4, <1>5 DEF IInv

\* The mutation is done: it has begun for an undecided claim that no answer repeats.
LEMMA MutateActsKeeps ==
  ASSUME IInv, Mutate, ~Reject, ~Decide("NEEDS_RECONCILIATION", "null", None)
  PROVE  IInv'
<1>1. /\ UNCHANGED <<request, updater, lock, abandoned, hold, drained, bounds>>
      /\ agent.at = "mutate"
      /\ agent' = [agent EXCEPT !.at = "settle"]
      /\ fate' = [fate EXCEPT ![Req] = "begun"]
      /\ production' = IF request[Req].action = "rollback"
                       THEN [production EXCEPT !.image = 0, !.version = 0]
                       ELSE [production EXCEPT !.policy = ~request[Req].bound.policy]
  BY DEF Mutate, Goto
<1>2. /\ Req \in Requests /\ InClaim(Req) /\ ~Decided(Req)
      /\ request \in [Requests -> Request]
      /\ production \in Production
      /\ fate \in [Requests -> Fates]
      /\ agent \in AgentState
      /\ updater["child"].at = "off"
  BY <1>1 DEF IInv, TypeOK, AgentInv, Serving
<1>3. /\ agent' \in AgentState
      /\ agent'.at = "settle" /\ agent'.req = Req
      /\ fate' \in [Requests -> Fates]
      /\ \A r \in Requests : r # Req => fate'[r] = fate[r]
  BY <1>1, <1>2 DEF AgentState, Points, Req, Fates
<1>4. production' \in Production
  BY <1>1, <1>2 DEF Production, Request
<1>5. TypeOK'
  BY <1>1, <1>3, <1>4 DEF IInv, TypeOK
<1>6. AgentInv' /\ ChildInv' /\ LockInv' /\ GuardInv' /\ DrainInv'
  BY <1>1, <1>2, <1>3 DEF IInv, AgentInv, ChildInv, LockInv, GuardInv, DrainInv, HoldActive, Serving,
     InClaim, Decided, Req
<1>7. FateInv'
  BY <1>1, <1>2, <1>3 DEF IInv, FateInv, DecisionInv, InClaim, Decided, Req
<1>8. AnswersAreTrue'
  <2>1. \A r \in Requests : /\ request[r].decision.source # Req
                            /\ request[r].decision.source \in Requests \cup {None}
    BY <1>2, ConstantsAssumption DEF IInv, FateInv, DecisionInv, Request, Decision
  <2>2. \A r \in Requests : Decided(r) => r # Req
    BY <1>2
  <2>3. ~Decided(Req) /\ request[Req].decision = Undecided /\ InClaim(Req)
    BY <1>2 DEF IInv, FateInv, DecisionInv
  <2> QED
    BY <1>1, <1>2, <1>3, <2>1, <2>2, <2>3 DEF IInv, AnswersAreTrue, Decided, Undecided, InClaim
<1>9. AloneInv'
  BY <1>1, <1>2, <1>3 DEF IInv, AloneInv, Alone, InClaim, Serving, Req
<1> QED
  BY <1>5, <1>6, <1>7, <1>8, <1>9 DEF IInv

\* Execution starts only under a key for which nothing has been done: a decided
\* request with it would be repeated, and no other claim is there.
LEMMA KeyIsNew ==
  ASSUME IInv, agent.at = "process", request[Req].action # "check", Sources(Req) = {}
  PROVE  NewKey(Req)
<1>1. Req \in Requests /\ Alone(Req) /\ request \in [Requests -> Request]
  BY DEF IInv, AloneInv, AgentInv, Serving, TypeOK
<1> SUFFICES ASSUME NEW q \in Requests \ {Req}, request[q].key = request[Req].key
             PROVE  fate[q] = "none"
  BY DEF NewKey
<1>2. CASE Decided(q)
  <2>1. request[q].decision.source # None
    BY <1>1, <1>2 DEF Sources
  <2> QED
    BY <2>1 DEF IInv, FateInv, DecisionInv, AnswersAreTrue
<1>3. CASE ~Decided(q)
  <2>1. request[q].place \in {"unfiled", "queued"}
    BY <1>1, <1>3 DEF Alone, InClaim, Decided, IInv, AnswersAreTrue, Request, Places
  <2> QED
    BY <2>1 DEF IInv, FateInv, DecisionInv
<1> QED
  BY <1>2, <1>3

\* Execution starts with the lock, alone and under a new key.
LEMMA ExecuteKeeps ==
  ASSUME IInv, Execute
  PROVE  IInv'
<1>1. /\ UNCHANGED <<request, fate, abandoned, hold, drained, production, bounds>>
      /\ agent.at = "process" /\ Sources(Req) = {}
      /\ request[Req].action # "check"
      /\ lock = "free" /\ lock' = "request"
  BY DEF Execute, Accepted
<1>2. /\ Req \in Requests /\ InClaim(Req) /\ ~Decided(Req) /\ fate[Req] = "none"
      /\ request[Req].action \in Actions
      /\ Alone(Req) /\ NewKey(Req)
      /\ updater \in [Updaters -> UpdaterState]
      /\ updater["child"].at = "off"
      /\ updater["own"].at \notin Holding
      /\ "child" \in Updaters /\ "own" \in Updaters
      /\ ~drained
      /\ agent \in AgentState
  BY <1>1, KeyIsNew DEF IInv, TypeOK, AgentInv, FateInv, DecisionInv, AloneInv, LockInv, DrainInv, Serving,
     Request, Updaters
<1>3. \/ /\ request[Req].action = "apply"
         /\ updater'["child"].at = "admit" /\ updater'["child"].req = Req
         /\ agent' = [agent EXCEPT !.at = "await"]
         /\ updater' \in [Updaters -> UpdaterState]
         /\ updater'["own"] = updater["own"]
      \/ /\ request[Req].action \in {"rollback", "set_auto_apply"}
         /\ updater' = updater
         /\ agent' = [agent EXCEPT !.at = "compare"]
  <2>1. CASE request[Req].action = "apply"
    <3> DEFINE v == [Idle EXCEPT !.at = "admit", !.req = Req]
    <3>1. v \in UpdaterState /\ v.at = "admit" /\ v.req = Req
      BY <1>2 DEF Idle, UpdaterState, Phases, Evidence
    <3>2. updater' = [updater EXCEPT !["child"] = v] /\ agent' = [agent EXCEPT !.at = "await"]
      BY <2>1 DEF Execute, Goto
    <3> HIDE DEF v
    <3> QED
      BY <1>2, <2>1, <3>1, <3>2
  <2>2. CASE request[Req].action # "apply"
    BY <1>1, <1>2, <2>2 DEF Execute, Goto, Actions
  <2> QED BY <2>1, <2>2
<1>4. /\ agent' \in AgentState
      /\ agent'.req = Req
      /\ agent'.at = IF request[Req].action = "apply" THEN "await" ELSE "compare"
  BY <1>2, <1>3 DEF AgentState, Points, Req
<1>5. TypeOK'
  BY <1>1, <1>2, <1>3, <1>4 DEF IInv, TypeOK, LockInv, Holding, Acting, Updaters
<1>6. AgentInv'
  BY <1>1, <1>2, <1>3, <1>4 DEF AgentInv, Serving, InClaim, Decided, Req
<1>7. ChildInv'
  BY <1>1, <1>2, <1>3, <1>4 DEF IInv, ChildInv, InClaim, Decided, Req
<1>8. LockInv'
  BY <1>1, <1>2, <1>3, <1>4 DEF IInv, LockInv, Holding, Acting
<1>9. FateInv'
  BY <1>1, <1>2, <1>3, <1>4 DEF IInv, FateInv, DecisionInv, Decided, Req
<1>10. AnswersAreTrue'
  BY <1>1 DEF IInv, AnswersAreTrue
<1>11. AloneInv'
  BY <1>1, <1>2, <1>3, <1>4 DEF AloneInv, Alone, NewKey, InClaim, Req
<1>12. GuardInv' /\ DrainInv'
  BY <1>1, <1>2, <1>3, <1>4 DEF GuardInv, DrainInv
<1> QED
  BY <1>5, <1>6, <1>7, <1>8, <1>9, <1>10, <1>11, <1>12 DEF IInv

\* The agent ends with its claim answered; the lock goes if it has it.
LEMMA LeaveKeeps ==
  ASSUME IInv, agent.at \in {"status", "clean"},
         NEW q \in Request,
         request' = [request EXCEPT ![Req] = q],
         q = [request[Req] EXCEPT !.place = q.place, !.told = q.told],
         q.place \in {"bare", "claimed", "gone"},
         q.told,
         agent' = Off,
         Unlock,
         UNCHANGED <<fate, updater, abandoned, hold, drained, production, bounds>>
  PROVE  IInv'
<1>1. /\ request \in [Requests -> Request]
      /\ Req \in Requests /\ InClaim(Req) /\ Decided(Req)
      /\ updater["child"].at = "off"
      /\ ~drained
      /\ Off \in AgentState /\ Off.at = "off"
  BY DEF IInv, TypeOK, AgentInv, Serving, DrainInv, Off, AgentState, Points
<1>2. /\ q.action = request[Req].action /\ q.decision = request[Req].decision
  BY <1>1 DEF Request
<1>3. /\ request' \in [Requests -> Request]
      /\ request'[Req] = q
      /\ \A p \in Requests : p # Req => request'[p] = request[p]
  BY <1>1
<1>4. \A p \in Requests : /\ request'[p].decision = request[p].decision
                          /\ request'[p].action = request[p].action
                          /\ request[p].decision.source \in Requests \cup {None}
                          /\ Decided(p)' <=> Decided(p)
  BY <1>1, <1>2, <1>3 DEF Request, Decision, Decided
<1>5. /\ lock' \in {"free", "request", "own"}
      /\ \A u \in Updaters : updater[u].at \in Acting => lock' = FileOf(u)
      /\ updater["own"].at \in Holding => lock' = "own"
  BY <1>1 DEF IInv, TypeOK, LockInv, Holding, Unlock, Acting, FileOf, Updaters
<1>6. TypeOK'
  BY <1>1, <1>3, <1>5 DEF IInv, TypeOK
<1>7. AgentInv' /\ ChildInv' /\ LockInv' /\ GuardInv' /\ DrainInv' /\ AloneInv'
  BY <1>1, <1>5 DEF IInv, AgentInv, ChildInv, LockInv, GuardInv, DrainInv, AloneInv, Serving,
     Holding, Acting
<1>8. FateInv'
  <2>1. \A p \in Requests : request'[p].place \in {"unfiled", "queued"} =>
                                request[p].place \in {"unfiled", "queued"}
    BY <1>1, <1>3
  <2>2. \A p \in Requests : DecisionInv(p)'
    BY <1>4, <2>1, ConstantsAssumption DEF IInv, FateInv, DecisionInv, Decided
  <2> QED
    BY <1>1, <1>4, <2>2 DEF FateInv
<1>9. AnswersAreTrue'
  BY <1>1, <1>3, <1>4 DEF IInv, AnswersAreTrue, Decided
<1> QED
  BY <1>6, <1>7, <1>8, <1>9 DEF IInv

\* The answer is published and the claim cleaned up, or kept if in doubt.
LEMMA PublishKeeps ==
  ASSUME IInv, PublishStatus \/ CleanUp
  PROVE  IInv'
<1>1. /\ agent.at \in {"status", "clean"}
      /\ UNCHANGED <<fate, updater, abandoned, hold, drained, production, bounds>>
      /\ Req \in Requests /\ InClaim(Req)
      /\ request \in [Requests -> Request]
      /\ agent \in AgentState
      /\ agent.at = "clean" => request[Req].told
  BY DEF PublishStatus, CleanUp, IInv, TypeOK, AgentInv, Serving
<1>2. PICK q \in Request :
        /\ request' = [request EXCEPT ![Req] = q]
        /\ q = [request[Req] EXCEPT !.place = q.place, !.told = q.told]
        /\ q.told
        /\ \/ agent' = Off /\ Unlock /\ q.place \in {"bare", "claimed", "gone"}
           \/ agent' = [agent EXCEPT !.at = "clean"] /\ UNCHANGED lock /\ q.place \in {"bare", "claimed"}
  <2>1. CASE PublishStatus
    <3> DEFINE q == [request[Req] EXCEPT !.told = TRUE]
    <3>1. /\ q \in Request /\ q.told /\ q.place \in {"bare", "claimed"}
          /\ q = [request[Req] EXCEPT !.place = q.place, !.told = q.told]
      BY <1>1 DEF Request, InClaim
    <3>2. request' = [request EXCEPT ![Req] = q]
      BY <2>1, <1>1 DEF PublishStatus
    <3> HIDE DEF q
    <3> QED
      BY <2>1, <3>1, <3>2 DEF PublishStatus, Goto
  <2>2. CASE CleanUp /\ request[Req].place = "claimed"
    <3> DEFINE q == [request[Req] EXCEPT !.place = "bare"]
    <3>1. /\ q \in Request /\ q.told = request[Req].told /\ q.place = "bare"
          /\ q = [request[Req] EXCEPT !.place = q.place, !.told = q.told]
      BY <1>1 DEF Request, Places
    <3>2. request' = [request EXCEPT ![Req] = q] /\ UNCHANGED <<agent, lock>>
      BY <2>2, <1>1 DEF CleanUp
    <3>3. agent' = [agent EXCEPT !.at = "clean"] /\ q.told
      BY <1>1, <2>2, <3>1, <3>2 DEF CleanUp, AgentState
    <3> HIDE DEF q
    <3> QED
      BY <3>1, <3>2, <3>3
  <2>3. CASE CleanUp /\ request[Req].place # "claimed"
    <3> DEFINE q == [request[Req] EXCEPT !.place = "gone"]
    <3>1. /\ q \in Request /\ q.told = request[Req].told /\ q.place = "gone"
          /\ q = [request[Req] EXCEPT !.place = q.place, !.told = q.told]
      BY <1>1 DEF Request, Places
    <3>2. request' = [request EXCEPT ![Req] = q] /\ agent' = Off /\ Unlock /\ q.told
      BY <2>3, <1>1, <3>1 DEF CleanUp
    <3> HIDE DEF q
    <3> QED
      BY <3>1, <3>2
  <2> QED BY <2>1, <2>2, <2>3
<1>3. CASE agent' = Off /\ Unlock /\ q.place \in {"bare", "claimed", "gone"}
  BY <1>1, <1>2, <1>3, LeaveKeeps
<1>4. CASE agent' = [agent EXCEPT !.at = "clean"] /\ UNCHANGED lock /\ q.place \in {"bare", "claimed"}
  <2>1. InClaim(Req)'
    BY <1>1, <1>2, <1>4 DEF InClaim, Req, AgentState
  <2> QED
    BY <1>1, <1>2, <1>4, <2>1, ClaimKeeps DEF Points
<1> QED
  BY <1>2, <1>3, <1>4

\* The agent dies; the lock stays with its child.
LEMMA CrashAgentKeeps ==
  ASSUME IInv, CrashAgent
  PROVE  IInv'
<1> DEFINE v == [updater["child"] EXCEPT !.out = "none"]
<1>1. /\ UNCHANGED <<request, fate, abandoned, hold, drained, production>>
      /\ agent' = Off
      /\ lock' = IF lock = "request" /\ LastHolder THEN "free" ELSE lock
      /\ updater \in [Updaters -> UpdaterState]
      /\ "child" \in Updaters /\ "own" \in Updaters
      /\ Off \in AgentState /\ Off.at = "off"
  BY DEF CrashAgent, IInv, TypeOK, Updaters, Off, AgentState, Points
<1>2. /\ v \in UpdaterState
      /\ v.at = updater["child"].at /\ v.req = updater["child"].req
      /\ v.journal = updater["child"].journal
  BY <1>1 DEF UpdaterState, Evidence
<1>3. updater' = [updater EXCEPT !["child"] = v]
  BY <1>1 DEF CrashAgent
<1> HIDE DEF v
<1>4. /\ updater' \in [Updaters -> UpdaterState]
      /\ updater'["own"] = updater["own"]
      /\ updater'["child"] = v
  BY <1>1, <1>2, <1>3
<1>5. /\ lock' \in {"free", "request", "own"}
      /\ updater["own"].at \in Holding => lock' = "own"
      /\ updater["child"].at \in Holding => lock' = "request"
      /\ lock = "free" => lock' = "free"
  BY <1>1 DEF IInv, TypeOK, LockInv, Holding, Acting, LastHolder
<1>6. bounds' \in Bounds
  BY ConstantsAssumption DEF CrashAgent, Fault, Bounds, IInv, TypeOK
<1>7. TypeOK'
  BY <1>1, <1>2, <1>4, <1>5, <1>6 DEF IInv, TypeOK, Updaters, Holding, FileOf
<1>8. AgentInv' /\ ChildInv' /\ LockInv' /\ GuardInv' /\ DrainInv' /\ AloneInv'
  BY <1>1, <1>2, <1>4, <1>5 DEF IInv, AgentInv, ChildInv, LockInv, GuardInv, DrainInv, AloneInv,
     Serving, HoldActive, Alone, NewKey, InClaim, Decided
<1>9. FateInv' /\ AnswersAreTrue'
  BY <1>1, <1>2, <1>4 DEF IInv, FateInv, DecisionInv, AnswersAreTrue, Decided
<1> QED
  BY <1>7, <1>8, <1>9 DEF IInv

-----------------------------------------------------------------------------
(* The updater                                                             *)

\* What the types and the lock say of an updater at work.
LEMMA UpdaterFacts ==
  ASSUME IInv, NEW u \in Updaters
  PROVE  /\ updater \in [Updaters -> UpdaterState]
         /\ updater[u] \in UpdaterState
         /\ updater[u].journal \in BOOLEAN /\ updater[u].migrated \in BOOLEAN
         /\ fate \in [Requests -> Fates]
         /\ production \in Production /\ bounds \in Bounds /\ hold \in Hold
         /\ (Fault => bounds' \in Bounds) /\ (Controlled => bounds' \in Bounds)
         /\ u \in {"child", "own"} /\ "child" \in Updaters /\ "own" \in Updaters
<1>1. /\ updater \in [Updaters -> UpdaterState]
      /\ fate \in [Requests -> Fates]
      /\ production \in Production /\ bounds \in Bounds /\ hold \in Hold
  BY DEF IInv, TypeOK
<1>2. u \in {"child", "own"} /\ "child" \in Updaters /\ "own" \in Updaters
  BY DEF Updaters
<1>3. (Fault => bounds' \in Bounds) /\ (Controlled => bounds' \in Bounds)
  BY <1>1, ConstantsAssumption DEF Fault, Controlled, Bounds
<1>4. updater[u] \in UpdaterState
  BY <1>1
<1> QED
  BY <1>1, <1>2, <1>3, <1>4 DEF UpdaterState

\* An updater ends before anything was done, or without an end.
LEMMA ExitKeeps ==
  ASSUME IInv, NEW u \in Updaters,
         \/ TakeLock /\ u = "own" /\ lock # "free"
         \/ AdmitChild /\ u = "child" /\ ~AdmittedAgain
         \/ Verify(u) /\ ~Move(u, "begin")
         \/ Begin(u) /\ updater'[u].at # "prepare"
         \/ Stillborn(u)
         \/ PublishFailure(u)
         \/ Crash(u)
  PROVE  IInv'
<1>1. /\ updater \in [Updaters -> UpdaterState]
      /\ updater[u].journal \in BOOLEAN
      /\ fate \in [Requests -> Fates]
      /\ Fault => bounds' \in Bounds
      /\ bounds \in Bounds
  BY UpdaterFacts
<1>2. PICK out \in Evidence, open \in BOOLEAN :
        /\ Die(u, out, open)
        /\ open => updater[u].journal \/ updater[u].at \in Holding
        /\ out \notin {"applied", "rolled_back"}
        /\ out = "refused" => updater[u].at \in {"verify", "begin"}
  <2>1. CASE Stillborn(u)
    BY <2>1 DEF Stillborn, Evidence, Holding
  <2>2. CASE ~Stillborn(u)
    <3>1. PICK out \in Evidence :
            /\ End(u, out)
            /\ out \notin {"applied", "rolled_back"}
            /\ out = "refused" => updater[u].at \in {"verify", "begin"}
      <4>1. CASE TakeLock /\ u = "own" /\ lock # "free"
        BY <4>1 DEF TakeLock, Evidence
      <4>2. CASE AdmitChild /\ u = "child" /\ ~AdmittedAgain
        BY <4>2 DEF AdmitChild, Evidence
      <4>3. CASE Verify(u) /\ ~Move(u, "begin")
        BY <4>3 DEF Verify, Evidence
      <4>4. CASE Begin(u) /\ updater'[u].at # "prepare"
        <5>1. [updater EXCEPT ![u].at = "prepare", ![u].journal = TRUE][u].at = "prepare"
          BY <1>1 DEF UpdaterState
        <5> QED
          BY <4>4, <5>1 DEF Begin, Evidence
      <4>5. CASE PublishFailure(u)
        BY <4>5 DEF PublishFailure, Evidence
      <4>6. CASE Crash(u)
        BY <4>6 DEF Crash, Evidence
      <4> QED
        BY <2>2, <4>1, <4>2, <4>3, <4>4, <4>5, <4>6
    <3> QED
      BY <1>1, <3>1 DEF End
  <2> QED BY <2>1, <2>2
<1>3. /\ updater[u].at # "off"
      /\ UNCHANGED <<request, agent, drained, production>>
      /\ hold' = hold \/ hold' = Published
  BY DEF TakeLock, AdmitChild, Verify, Begin, Stillborn, PublishFailure, Crash, AfterUpdater,
     FailClosed
<1>4. bounds' \in Bounds
  BY <1>1 DEF TakeLock, AdmitChild, Verify, Begin, Stillborn, PublishFailure, Crash
<1>5. fate' = fate
  <2>1. CASE Begin(u) /\ updater'[u].at # "prepare"
    <3>1. [updater EXCEPT ![u].at = "prepare", ![u].journal = TRUE][u].at = "prepare"
      BY <1>1 DEF UpdaterState
    <3> QED
      BY <2>1, <3>1 DEF Begin
  <2>2. CASE ~(Begin(u) /\ updater'[u].at # "prepare")
    BY <2>2 DEF TakeLock, AdmitChild, Verify, Stillborn, PublishFailure, Crash
  <2> QED BY <2>1, <2>2
<1>6. u = "child" /\ agent.at = "await" => (out = "refused" => fate'[Req] = "none")
  BY <1>2, <1>3, <1>5 DEF IInv, FateInv, ChildInv
<1> QED
  BY <1>1, <1>2, <1>3, <1>4, <1>5, <1>6, DieKeeps

\* The update has ended, as its journal says.
LEMMA TerminalKeeps ==
  ASSUME IInv, NEW u \in Updaters, Terminal(u)
  PROVE  IInv'
<1>1. /\ updater[u].at = "terminal"
      /\ UNCHANGED <<request, agent, drained, hold, production>>
      /\ fate' = [r \in Requests |-> IF r # updater[u].req THEN fate[r]
                                     ELSE IF production.image = 1 THEN "done" ELSE "undone"]
      /\ fate \in [Requests -> Fates]
      /\ bounds' \in Bounds
      /\ u \in {"child", "own"}
  BY UpdaterFacts DEF Terminal, AfterUpdater
<1>2. /\ updater["own"].req = None
      /\ u = "child" => updater["child"].req \in Requests
      /\ u = "child" /\ agent.at = "await" => updater["child"].req = Req
  BY <1>1 DEF IInv, ChildInv
<1>3. /\ fate' \in [Requests -> Fates]
      /\ \A r \in Requests : u = "own" \/ r # updater["child"].req => fate'[r] = fate[r]
  BY <1>1, <1>2, ConstantsAssumption DEF Fates
<1>4. PICK out \in Evidence :
        /\ Die(u, out, FALSE)
        /\ out # "refused"
        /\ out = "applied" => production.image = 1
        /\ out = "rolled_back" => production.image # 1
  BY DEF Terminal, Evidence
<1>5. u = "child" /\ agent.at = "await" =>
            /\ out = "applied" => fate'[Req] = "done"
            /\ out = "rolled_back" => fate'[Req] = "undone"
            /\ out = "refused" => fate'[Req] = "none"
  BY <1>1, <1>2, <1>4
<1> QED
  BY <1>1, <1>3, <1>4, <1>5, DieKeeps

\* An updater takes a step towards its begin, or from its end to its exit: nothing is
\* changed but its memory and the lock.
LEMMA StepKeeps ==
  ASSUME IInv, NEW u \in Updaters, NEW v \in UpdaterState,
         updater' = [updater EXCEPT ![u] = v],
         v.req = updater[u].req,
         UNCHANGED <<request, fate, agent, abandoned, drained, production>>,
         bounds' \in Bounds,
         hold' = hold \/ hold' = Published,
         \/ /\ u = "own" /\ updater[u].at = "off" /\ v.at \in {"off", "lock"}
            /\ UNCHANGED lock /\ v.journal = updater[u].journal /\ ~HoldActive
         \/ /\ u = "own" /\ updater[u].at = "lock" /\ v.at = "verify"
            /\ lock = "free" /\ lock' = "own" /\ v.journal = updater[u].journal
         \/ /\ u = "child" /\ updater[u].at = "admit" /\ v.at = "verify"
            /\ ~abandoned /\ ~updater["own"].journal
            /\ UNCHANGED lock /\ v.journal = updater[u].journal
         \/ /\ updater[u].at = "verify" /\ v.at = "begin"
            /\ UNCHANGED lock /\ v.journal = updater[u].journal
         \/ /\ updater[u].at = "note" /\ v.at = "publish"
            /\ lock' = IF lock = FileOf(u) THEN "free" ELSE lock
  PROVE  IInv'
<1>1. /\ updater' \in [Updaters -> UpdaterState]
      /\ updater'[u] = v
      /\ \A w \in Updaters : w # u => updater'[w] = updater[w]
      /\ u \in {"child", "own"} /\ "child" \in Updaters /\ "own" \in Updaters
  BY UpdaterFacts
<1>2. hold' \in Hold /\ (HoldActive => hold' = hold)
  BY UpdaterFacts DEF Hold, Published, HoldActive
<1>3. TypeOK'
  <2>1. \A w \in Updaters : updater'[w].at \in Acting => lock' = FileOf(w)
    <3> SUFFICES ASSUME NEW w \in Updaters, updater'[w].at \in Acting PROVE lock' = FileOf(w)
      OBVIOUS
    <3>1. v.at \notin Acting
      BY DEF Acting
    <3>2. w # u
      BY <1>1, <3>1
    <3>3. lock = FileOf(w) /\ lock # "free" /\ lock # FileOf(u)
      BY <1>1, <3>2 DEF IInv, TypeOK, FileOf, Updaters
    <3> QED
      BY <3>3
  <2>2. agent'.at \in {"compare", "mutate", "settle"} => lock' = "request"
    BY <1>1 DEF IInv, TypeOK, AgentInv, FileOf
  <2>3. lock' \in {"free", "request", "own"}
    BY DEF IInv, TypeOK
  <2> QED
    BY <1>1, <1>2, <2>1, <2>2, <2>3 DEF IInv, TypeOK
<1>4. AgentInv' /\ ChildInv'
  BY <1>1 DEF IInv, AgentInv, ChildInv, Serving, InClaim, Decided, Req
<1>5. LockInv'
  BY <1>1 DEF IInv, LockInv, AgentInv, Holding, Acting, FileOf
<1>6. FateInv' /\ AnswersAreTrue'
  BY <1>1 DEF IInv, FateInv, DecisionInv, AnswersAreTrue, Decided, Req
<1>7. AloneInv'
  BY <1>1 DEF IInv, AloneInv, ChildInv, Alone, NewKey, InClaim, Req
<1>8. GuardInv'
  BY <1>1 DEF IInv, GuardInv, LockInv, Holding, Acting, FileOf
<1>9. DrainInv'
  BY <1>1, <1>2 DEF IInv, DrainInv, LockInv, HoldActive, InClaim, Holding, Acting, FileOf
<1> QED
  BY <1>3, <1>4, <1>5, <1>6, <1>7, <1>8, <1>9 DEF IInv

\* A step that only moves an updater.
LEMMA MoveIs ==
  ASSUME IInv, NEW u \in Updaters, NEW at \in Phases, Move(u, at)
  PROVE  \E v \in UpdaterState : /\ updater' = [updater EXCEPT ![u] = v]
                                 /\ v.at = at /\ v.req = updater[u].req
                                 /\ v.journal = updater[u].journal
<1> DEFINE v == [updater[u] EXCEPT !.at = at]
<1>1. updater \in [Updaters -> UpdaterState] /\ updater[u] \in UpdaterState
  BY UpdaterFacts
<1>2. /\ v \in UpdaterState
      /\ v.at = at /\ v.req = updater[u].req /\ v.journal = updater[u].journal
  BY <1>1 DEF UpdaterState
<1>3. updater' = [updater EXCEPT ![u] = v]
  BY <1>1 DEF Move
<1> HIDE DEF v
<1> QED
  BY <1>2, <1>3

\* The steps of an updater before it begins, and its note.
LEMMA AdvanceKeeps ==
  ASSUME IInv, NEW u \in Updaters,
         \/ Run /\ u = "own"
         \/ TakeLock /\ u = "own" /\ lock = "free"
         \/ AdmitChild /\ u = "child" /\ AdmittedAgain
         \/ Verify(u) /\ Move(u, "begin")
         \/ Note(u)
  PROVE  IInv'
<1>1. /\ updater \in [Updaters -> UpdaterState]
      /\ updater[u] \in UpdaterState
      /\ bounds \in Bounds
      /\ Fault => bounds' \in Bounds
      /\ Controlled => bounds' \in Bounds
      /\ "own" \in Updaters /\ u \in {"child", "own"}
      /\ {"lock", "verify", "begin", "publish"} \subseteq Phases
  BY UpdaterFacts DEF Phases
<1>2. CASE Run /\ u = "own"
  <2>1. /\ UNCHANGED <<request, fate, agent, lock, abandoned, drained, production>>
        /\ updater["own"].at = "off" /\ ~HoldActive
        /\ bounds' \in Bounds
        /\ hold' = hold \/ hold' = Published
        /\ updater' = updater \/ Move("own", "lock")
    BY <1>1, <1>2 DEF Run, AfterUpdater
  <2>2. PICK v \in UpdaterState : /\ updater' = [updater EXCEPT ![u] = v]
                                  /\ v.at \in {"off", "lock"} /\ v.req = updater[u].req
                                  /\ v.journal = updater[u].journal
    <3>1. CASE updater' = updater
      <4>1. updater' = [updater EXCEPT ![u] = updater[u]]
        BY <1>1, <3>1
      <4> QED
        BY <1>1, <1>2, <2>1, <4>1
    <3>2. CASE Move("own", "lock")
      BY <1>1, <1>2, <3>2, MoveIs
    <3> QED BY <2>1, <3>1, <3>2
  <2> QED
    BY <1>2, <2>1, <2>2, StepKeeps
<1>3. CASE TakeLock /\ u = "own" /\ lock = "free"
  <2>1. /\ UNCHANGED <<request, fate, agent, abandoned, drained, production, hold, bounds>>
        /\ updater["own"].at = "lock" /\ lock' = "own"
        /\ Move("own", "verify")
    BY <1>3 DEF TakeLock, AfterUpdater
  <2>2. PICK v \in UpdaterState : /\ updater' = [updater EXCEPT ![u] = v]
                                  /\ v.at = "verify" /\ v.req = updater[u].req
                                  /\ v.journal = updater[u].journal
    BY <1>1, <1>3, <2>1, MoveIs
  <2> QED
    BY <1>1, <1>3, <2>1, <2>2, StepKeeps
<1>4. CASE AdmitChild /\ u = "child" /\ AdmittedAgain
  <2>1. /\ UNCHANGED <<request, fate, agent, lock, abandoned, drained, production, hold, bounds>>
        /\ updater["child"].at = "admit"
        /\ Move("child", "verify")
    BY <1>4 DEF AdmitChild, AfterUpdater
  <2>2. PICK v \in UpdaterState : /\ updater' = [updater EXCEPT ![u] = v]
                                  /\ v.at = "verify" /\ v.req = updater[u].req
                                  /\ v.journal = updater[u].journal
    BY <1>1, <1>4, <2>1, MoveIs
  <2>3. ~abandoned /\ ~updater["own"].journal
    BY <1>1, <1>4 DEF AdmittedAgain, ScanClean
  <2> QED
    BY <1>1, <1>4, <2>1, <2>2, <2>3, StepKeeps
<1>5. CASE Verify(u) /\ Move(u, "begin")
  <2>1. PICK v \in UpdaterState : /\ updater' = [updater EXCEPT ![u] = v]
                                  /\ v.at = "begin" /\ v.req = updater[u].req
                                  /\ v.journal = updater[u].journal
    BY <1>1, <1>5, MoveIs
  <2>2. \A out : ~End(u, out)
    <3> SUFFICES ASSUME NEW out, End(u, out) PROVE FALSE
      OBVIOUS
    <3>1. [Idle EXCEPT !.out = IF u = "child" /\ agent.at = "await" THEN out ELSE "none"].at = "off"
      BY DEF Idle
    <3> QED
      BY <1>1, <2>1, <3>1 DEF End, Die
  <2>3. /\ UNCHANGED <<request, fate, agent, lock, abandoned, drained, production, hold, bounds>>
        /\ updater[u].at = "verify"
    BY <1>5, <2>2 DEF Verify, AfterUpdater
  <2> QED
    BY <1>1, <2>1, <2>3, StepKeeps
<1>6. CASE Note(u)
  <2>1. /\ UNCHANGED <<request, fate, agent, abandoned, drained, production, hold>>
        /\ bounds' \in Bounds
        /\ updater[u].at = "note"
        /\ lock' = IF lock = FileOf(u) THEN "free" ELSE lock
    BY <1>1, <1>6 DEF Note, AfterUpdater
  <2>2. PICK v \in UpdaterState : /\ updater' = [updater EXCEPT ![u] = v]
                                  /\ v.at = "publish" /\ v.req = updater[u].req
    <3>1. CASE updater' = [updater EXCEPT ![u].at = "publish", ![u].journal = TRUE]
      <4> DEFINE v == [updater[u] EXCEPT !.at = "publish", !.journal = TRUE]
      <4>1. v \in UpdaterState /\ v.at = "publish" /\ v.req = updater[u].req
        BY <1>1 DEF UpdaterState
      <4>2. updater' = [updater EXCEPT ![u] = v]
        BY <1>1, <3>1
      <4> HIDE DEF v
      <4> QED BY <4>1, <4>2
    <3>2. CASE Move(u, "publish")
      BY <1>1, <3>2, MoveIs
    <3> QED BY <1>6, <3>1, <3>2 DEF Note
  <2> QED
    BY <1>1, <2>1, <2>2, StepKeeps
<1> QED
  BY <1>2, <1>3, <1>4, <1>5, <1>6

\* Execution begins: the child finds what the administrator saw.
LEMMA BeginKeeps ==
  ASSUME IInv, NEW u \in Updaters, Begin(u), updater'[u].at = "prepare"
  PROVE  IInv'
<1>1. /\ updater \in [Updaters -> UpdaterState]
      /\ updater[u] \in UpdaterState
      /\ fate \in [Requests -> Fates]
      /\ u \in {"child", "own"} /\ "child" \in Updaters /\ "own" \in Updaters
  BY UpdaterFacts
<1> DEFINE v == [updater[u] EXCEPT !.at = "prepare", !.journal = TRUE]
<1>2. v \in UpdaterState /\ v.at = "prepare" /\ v.req = updater[u].req
  BY <1>1 DEF UpdaterState, Phases
<1>3. /\ updater[u].at = "begin"
      /\ GuardPasses(u)
      /\ updater' = [updater EXCEPT ![u] = v]
      /\ fate' = [r \in Requests |-> IF r = updater[u].req THEN "begun" ELSE fate[r]]
      /\ UNCHANGED <<request, agent, drained, lock, abandoned, hold, production, bounds>>
  <2>1. updater[u].at = "begin" /\ UNCHANGED <<request, agent, drained, hold, production, bounds>>
    BY DEF Begin, AfterUpdater
  <2>2. ~End(u, "refused")
    <3>1. [Idle EXCEPT !.out = IF u = "child" /\ agent.at = "await" THEN "refused" ELSE "none"].at = "off"
      BY DEF Idle
    <3> QED
      BY <1>1, <3>1 DEF End, Die
  <2>3. /\ GuardPasses(u) /\ UNCHANGED <<lock, abandoned>>
        /\ updater' = [updater EXCEPT ![u].at = "prepare", ![u].journal = TRUE]
        /\ fate' = [r \in Requests |-> IF r = updater[u].req THEN "begun" ELSE fate[r]]
    BY <2>2 DEF Begin
  <2> QED
    BY <1>1, <2>1, <2>3
<1> HIDE DEF v
<1>4. /\ updater' \in [Updaters -> UpdaterState]
      /\ updater'[u] = v
      /\ \A w \in Updaters : w # u => updater'[w] = updater[w]
  BY <1>1, <1>2, <1>3
<1>5. /\ fate' \in [Requests -> Fates]
      /\ \A r \in Requests : u = "own" \/ r # updater["child"].req => fate'[r] = fate[r]
  BY <1>1, <1>3, ConstantsAssumption DEF Fates, IInv, ChildInv
<1>6. u = "child" => ~Decided(updater["child"].req) /\ InClaim(updater["child"].req)
                     /\ updater["child"].req \in Requests
                     /\ agent.at \in {"off", "await"}
                     /\ (agent.at = "await" => updater["child"].req = Req)
  BY <1>3 DEF IInv, ChildInv, AgentInv
<1>7. \A r \in Requests : Decided(r) \/ ~InClaim(r) => fate'[r] = fate[r]
  BY <1>1, <1>5, <1>6
<1>8. TypeOK'
  BY <1>1, <1>2, <1>3, <1>4, <1>5 DEF IInv, TypeOK, LockInv, Holding, Acting, FileOf
<1>9. AgentInv' /\ ChildInv' /\ LockInv' /\ DrainInv'
  BY <1>1, <1>2, <1>3, <1>4 DEF IInv, AgentInv, ChildInv, LockInv, DrainInv, HoldActive, Holding,
     Acting, InClaim, Decided, Req
<1>10. FateInv'
  <2>1. \A r \in Requests : DecisionInv(r)'
    BY <1>3, <1>7 DEF IInv, FateInv, DecisionInv, InClaim, Decided
  <2>2. agent.at \in {"made", "process", "compare", "mutate"} => u = "own" /\ Req \in Requests
    BY <1>1, <1>6 DEF IInv, AgentInv, Serving
  <2>3. updater["child"].at # "off" => updater["child"].req \in Requests
    BY DEF IInv, ChildInv
  <2>4. agent.at = "await" => Req \in Requests
    BY DEF IInv, AgentInv, Serving
  <2> QED
    BY <1>1, <1>2, <1>3, <1>4, <1>5, <2>1, <2>2, <2>3, <2>4 DEF IInv, FateInv, Req
<1>11. AnswersAreTrue'
  <2>1. \A r \in Requests :
          LET s == request[r].decision.source
          IN  /\ request[r].decision.verdict # "none" => fate'[r] = fate[r]
              /\ s # None => s \in Requests /\ fate'[s] = fate[s]
              /\ request[r].decision.attempted = "false" => Decided(r)
    BY <1>7 DEF IInv, FateInv, DecisionInv, Decided, Undecided, TypeOK, Request, Decision
  <2> QED
    BY <1>3, <2>1 DEF IInv, AnswersAreTrue, Decided
<1>12. AloneInv'
  <2>1. agent.at \in {"compare", "mutate"} => u = "own"
    BY <1>1, <1>6
  <2> QED
    BY <1>1, <1>2, <1>3, <1>4, <1>5, <2>1 DEF IInv, AloneInv, ChildInv, Alone, NewKey, InClaim, Req
<1>13. GuardInv'
  <2>1. u = "child" => production = request[updater["child"].req].bound
    <3>1. u = "child" => request[updater["child"].req].action = "apply"
      BY <1>3 DEF IInv, ChildInv
    <3> QED
      BY <1>3, <3>1 DEF GuardPasses, Matches
  <2>2. updater["child"].at \in {"verify", "begin", "prepare", "switch"} => u = "child"
    BY <1>1, <1>3 DEF IInv, LockInv, Holding, Acting
  <2> QED
    BY <1>1, <1>2, <1>3, <1>4, <2>1, <2>2 DEF IInv, GuardInv
<1> QED
  BY <1>8, <1>9, <1>10, <1>11, <1>12, <1>13 DEF IInv

\* The steps of an operation that has begun.
Phase(u) ==
    \/ Prepare(u)
    \/ SwitchImage(u) \/ SwitchVersion(u) \/ Health(u) \/ Record(u)
    \/ RestoreImage(u) \/ RestoreVersion(u) \/ RecordFailure(u)
    \/ SwitchFails(u) \/ Trouble(u)

\* The steps of an operation, each by PhaseKeeps.
LEMMA OperationKeeps ==
  ASSUME IInv, NEW u \in Updaters, Phase(u)
  PROVE  IInv'
<1>1. /\ updater \in [Updaters -> UpdaterState]
      /\ updater[u] \in UpdaterState
      /\ production \in Production
      /\ bounds \in Bounds
      /\ Fault => bounds' \in Bounds
  BY UpdaterFacts
<1> DEFINE w(at, journal, migrated) ==
              [updater[u] EXCEPT !.at = at, !.journal = journal, !.migrated = migrated]
<1>2. ASSUME NEW at \in Phases, NEW journal \in BOOLEAN, NEW migrated \in BOOLEAN
      PROVE  /\ w(at, journal, migrated) \in UpdaterState
             /\ w(at, journal, migrated).at = at
             /\ w(at, journal, migrated).req = updater[u].req
  BY <1>1 DEF UpdaterState
<1>3. updater[u].journal \in BOOLEAN /\ updater[u].migrated \in BOOLEAN
  BY <1>1 DEF UpdaterState
<1>4. ASSUME NEW at \in Phases, Move(u, at)
      PROVE  updater' = [updater EXCEPT ![u] = w(at, updater[u].journal, updater[u].migrated)]
  BY <1>1, <1>4 DEF Move, UpdaterState
<1>5. AfterPhase /\ updater[u].at \in Acting /\ bounds' \in Bounds
  BY <1>1 DEF Phase, Prepare, SwitchImage, SwitchVersion, Health, Record, RestoreImage,
     RestoreVersion, RecordFailure, Step, SwitchFails, Trouble, Acting
<1>6. production' \in Production
  <2>1. \A i \in {0, 1} : [production EXCEPT !.image = i] \in Production
                          /\ [production EXCEPT !.version = i] \in Production
    BY <1>1 DEF Production
  <2>2. [production EXCEPT !.record = @ + 1] \in Production
    BY <1>1 DEF Production
  <2> QED
    BY <1>1, <2>1, <2>2 DEF Phase, Prepare, SwitchImage, SwitchVersion, Health, Record, RestoreImage,
       RestoreVersion, RecordFailure, Step, SwitchFails, Trouble
<1>7. PICK at \in (Acting \ {"prepare"}) \cup {"note"}, journal \in BOOLEAN, migrated \in BOOLEAN :
        /\ updater' = [updater EXCEPT ![u] = w(at, journal, migrated)]
        /\ at = "switch" => production' = production /\ updater[u].at = "prepare"
  <2>1. CASE Prepare(u)
    <3>1. PICK migrates \in BOOLEAN, at \in {"switch", "restore"} :
             updater' = [updater EXCEPT ![u].at = at, ![u].migrated = migrates]
      BY <2>1 DEF Prepare
    <3>2. updater' = [updater EXCEPT ![u] = w(at, updater[u].journal, migrates)]
      BY <1>1, <3>1 DEF UpdaterState
    <3>3. production' = production /\ updater[u].at = "prepare"
      BY <2>1 DEF Prepare
    <3>4. at \in (Acting \ {"prepare"}) \cup {"note"}
      BY <3>1 DEF Acting
    <3> HIDE DEF w
    <3> QED
      BY <1>3, <3>2, <3>3, <3>4
  <2>2. CASE Trouble(u)
    <3>1. PICK journal \in BOOLEAN :
             updater' = [updater EXCEPT ![u].at = "note", ![u].journal = journal]
      BY <2>2 DEF Trouble
    <3>2. PICK at \in {"note"} :
             updater' = [updater EXCEPT ![u] = w(at, journal, updater[u].migrated)]
      BY <1>1, <3>1 DEF UpdaterState
    <3> HIDE DEF w
    <3> QED
      BY <1>3, <3>1, <3>2
  <2>3. CASE ~Prepare(u) /\ ~Trouble(u)
    <3>1. PICK at \in (Acting \ {"prepare", "switch"}) \cup {"note"} : Move(u, at)
      BY <2>3 DEF Phase, SwitchImage, SwitchVersion, Health, Record, RestoreImage,
         RestoreVersion, RecordFailure, Step, SwitchFails, Acting
    <3>2. updater' = [updater EXCEPT ![u] = w(at, updater[u].journal, updater[u].migrated)]
      BY <1>4, <3>1 DEF Acting, Phases
    <3> HIDE DEF w
    <3> QED
      BY <1>3, <3>1, <3>2
  <2> QED BY <2>1, <2>2, <2>3
<1> HIDE DEF w
<1>8. /\ w(at, journal, migrated) \in UpdaterState
      /\ w(at, journal, migrated).at = at
      /\ w(at, journal, migrated).req = updater[u].req
  <2>1. at \in Phases
    BY <1>7 DEF Acting, Phases
  <2> QED
    BY <1>2, <1>7, <2>1
<1> QED
  BY <1>5, <1>6, <1>7, <1>8, PhaseKeeps

-----------------------------------------------------------------------------
(* The invariants                                                          *)

\* The invariant holds when nothing has been filed.
LEMMA InitInv == Init => IInv
<1> SUFFICES ASSUME Init PROVE IInv
  OBVIOUS
<1> DEFINE q == [place |-> "unfiled", action |-> "check", key |-> 0,
                 bound |-> [image |-> 0, version |-> 0, policy |-> FALSE, record |-> 0],
                 since |-> 0, decision |-> Undecided, told |-> FALSE]
<1>1. /\ q \in Request
      /\ q.place = "unfiled" /\ q.decision = Undecided
  BY DEF Request, Places, Actions, Production, Decision, Verdicts, Undecided
<1>2. request = [r \in Requests |-> q]
  BY DEF Init
<1> HIDE DEF q
<1>3. /\ request \in [Requests -> Request]
      /\ \A r \in Requests : request[r] = q
      /\ fate \in [Requests -> Fates]
      /\ \A r \in Requests : fate[r] = "none"
  BY <1>1, <1>2 DEF Init, Fates
<1>4. /\ agent \in AgentState /\ agent.at = "off"
      /\ updater \in [Updaters -> UpdaterState]
      /\ \A u \in Updaters : updater[u] = Idle
      /\ Idle.at = "off" /\ Idle.req = None
      /\ "child" \in Updaters /\ "own" \in Updaters
  BY IdleType DEF Init, Off, AgentState, Points, Idle, Updaters
<1>5. /\ production \in Production /\ hold \in Hold /\ bounds \in Bounds
      /\ lock = "free" /\ ~drained /\ abandoned \in BOOLEAN
  <2>1. production \in Production
    BY DEF Init, Production
  <2>2. hold \in Hold /\ lock = "free" /\ ~drained /\ abandoned \in BOOLEAN
    BY DEF Init, Hold
  <2>3. bounds \in Bounds
    BY ConstantsAssumption DEF Init, Bounds
  <2> QED BY <2>1, <2>2, <2>3
<1>6. TypeOK
  BY <1>3, <1>4, <1>5 DEF TypeOK, Init, Acting
<1>7. AgentInv /\ ChildInv /\ LockInv /\ AloneInv /\ GuardInv /\ DrainInv
  BY <1>3, <1>4, <1>5 DEF AgentInv, ChildInv, LockInv, AloneInv, GuardInv, DrainInv, Serving,
     Holding, Acting
<1>8. FateInv /\ AnswersAreTrue
  BY <1>1, <1>3, <1>4 DEF FateInv, DecisionInv, AnswersAreTrue, Decided, Undecided
<1> QED
  BY <1>6, <1>7, <1>8 DEF IInv

\* Every step keeps the invariant.
LEMMA NextKeeps == IInv /\ [Next]_vars => IInv'
<1> SUFFICES ASSUME IInv, [Next]_vars PROVE IInv'
  OBVIOUS
<1>1. CASE Operator
  BY <1>1, FileKeeps, MaintenanceKeeps DEF Operator
<1>2. CASE AgentStep
  <2>1. ASSUME NEW r \in Requests, Republish(r) \/ LeaveClaim(r) \/ WriteOff(r) \/ TakeRequest(r)
        PROVE  IInv'
    BY <2>1, SweepKeeps, TakeKeeps
  <2>2. CASE Admit \/ WriteClaim \/ NothingToDo
    BY <2>2, AdmitKeeps, WriteClaimKeeps, NothingToDoKeeps
  <2>3. CASE Replay \/ Refuse \/ Check \/ Compare
    BY <2>3, ProcessKeeps, CompareKeeps
  <2>4. CASE Execute \/ Judge \/ PublishStatus \/ CleanUp
    BY <2>4, ExecuteKeeps, JudgeKeeps, PublishKeeps
  <2>5. CASE Mutate \/ Settle
    BY <2>5, MutationKeeps, MutateActsKeeps
  <2> QED
    BY <1>2, <2>1, <2>2, <2>3, <2>4, <2>5 DEF AgentStep
<1>3. CASE CrashAgent
  BY <1>3, CrashAgentKeeps
<1>4. CASE Run \/ TakeLock \/ AdmitChild
  <2>1. "own" \in Updaters /\ "child" \in Updaters
    BY DEF Updaters
  <2> QED
    BY <1>4, <2>1, AdvanceKeeps, ExitKeeps
<1>5. ASSUME NEW u \in Updaters,
             UpdaterStep(u) \/ Stillborn(u) \/ SwitchFails(u) \/ Trouble(u) \/ Crash(u)
      PROVE  IInv'
  <2>1. CASE Verify(u)
    BY <2>1, AdvanceKeeps, ExitKeeps
  <2>2. CASE Begin(u)
    BY <2>2, BeginKeeps, ExitKeeps
  <2>3. CASE Phase(u)
    BY <2>3, OperationKeeps
  <2>4. CASE Terminal(u) \/ Note(u)
    BY <2>4, TerminalKeeps, AdvanceKeeps
  <2>5. CASE PublishFailure(u) \/ Stillborn(u) \/ Crash(u)
    BY <2>5, ExitKeeps
  <2> QED
    BY <1>5, <2>1, <2>2, <2>3, <2>4, <2>5 DEF UpdaterStep, Phase
<1>6. CASE UNCHANGED vars
  BY SMTT(20), <1>6
     DEF vars, IInv, TypeOK, AgentInv, ChildInv, LockInv, FateInv, DecisionInv, AnswersAreTrue,
     AloneInv, GuardInv, DrainInv, HoldActive, InClaim, Decided, Req, Alone, NewKey
<1> QED
  BY <1>1, <1>2, <1>3, <1>4, <1>5, <1>6 DEF Next

\* The invariant holds of every behaviour.
LEMMA Invariance == Spec => []IInv
BY InitInv, NextKeeps, PTL DEF Spec

\* The variables keep their types, and whoever changes the installation holds the
\* production-state lock, also an updater that has outlived its agent
\* (acquire_production_state_lock and the inherited descriptor of process_apply).
THEOREM TypeCorrect == Spec => []TypeOK
<1>1. IInv => TypeOK
  BY DEF IInv
<1> QED
  BY Invariance, <1>1, PTL

\* Whatever an answer says of the installation is what was done to it, through
\* replays, crashes and claims that are written off (process_claim,
\* reconcile_stale_claims, publish_terminal_decision).
THEOREM AnswersHold == Spec => []AnswersAreTrue
<1>1. IInv => AnswersAreTrue
  BY DEF IInv
<1> QED
  BY Invariance, <1>1, PTL

-----------------------------------------------------------------------------
(* What a step may not do                                                  *)

\* Who changes the installation: its agent's mutation, its undoing, and updaters
\* in the course of an operation.
LEMMA WhoChanges ==
  ASSUME Next, production' # production
  PROVE  \/ agent.at = "mutate" /\ Matches(Req)
         \/ agent.at = "settle"
         \/ \E u \in Updaters : Phase(u) /\ ~Prepare(u) /\ ~Health(u) /\ ~SwitchFails(u)
<1>1. ~Operator
  BY DEF Operator, File, PublishHold, ClearHold, Drain, Control
<1>2. CASE AgentStep
  <2>1. Mutate \/ Settle
    BY <1>2 DEF AgentStep, Admit, Republish, LeaveClaim, WriteOff, TakeRequest, AfterSweep, WriteClaim,
       NothingToDo, Replay, Refuse, Check, Execute, Compare, AfterProcess, Judge, PublishStatus, CleanUp
  <2> QED
    BY <2>1 DEF Mutate, Settle
<1>3. ~CrashAgent /\ ~Run /\ ~TakeLock /\ ~AdmitChild
  BY DEF CrashAgent, Run, TakeLock, AdmitChild
<1>4. ASSUME NEW u \in Updaters,
             UpdaterStep(u) \/ Stillborn(u) \/ SwitchFails(u) \/ Trouble(u) \/ Crash(u)
      PROVE  Phase(u) /\ ~Prepare(u) /\ ~Health(u) /\ ~SwitchFails(u)
  <2>1. ~Verify(u) /\ ~Begin(u) /\ ~Terminal(u) /\ ~Note(u) /\ ~PublishFailure(u) /\ ~Stillborn(u)
        /\ ~Crash(u) /\ ~Prepare(u) /\ ~Health(u) /\ ~SwitchFails(u)
    BY DEF Verify, Begin, Terminal, Note, PublishFailure, Stillborn, Crash, Prepare, Health, Step,
       SwitchFails
  <2> QED
    BY <1>4, <2>1 DEF UpdaterStep, Phase
<1> QED
  BY <1>1, <1>2, <1>3, <1>4 DEF Next

\* Once drain has answered "drained", nothing is changed and nothing claimed until
\* the hold is cleared (maintenance_drain_status and the barriers of agent and updater).
THEOREM DrainedStaysQuiet == Spec => DrainedIsQuiet
<1>1. IInv /\ IInv' /\ [Next]_vars =>
        [(drained /\ drained') => /\ UNCHANGED production
                                  /\ \A r \in Requests : ~InClaim(r)']_vars
  <2> SUFFICES ASSUME IInv, IInv', Next, drained, drained'
               PROVE  /\ UNCHANGED production
                      /\ \A r \in Requests : ~InClaim(r)'
    OBVIOUS
  <2>1. \A r \in Requests : ~InClaim(r)'
    BY DEF IInv, DrainInv
  <2>2. /\ lock = "free"
        /\ \A r \in Requests : ~InClaim(r)
    BY DEF IInv, DrainInv
  <2>3. agent.at \notin {"mutate", "settle"}
    BY <2>2 DEF IInv, LockInv
  <2>4. \A u \in Updaters : updater[u].at \notin Acting
    BY <2>2 DEF IInv, TypeOK, FileOf
  <2>5. \A u \in Updaters : Phase(u) => updater[u].at \in Acting
    BY DEF Phase, Prepare, SwitchImage, SwitchVersion, Health, Record, RestoreImage,
       RestoreVersion, RecordFailure, Step, SwitchFails, Trouble, Acting
  <2> QED
    BY <2>1, <2>3, <2>4, <2>5, WhoChanges
<1> QED
  BY Invariance, <1>1, PTL DEF Spec, DrainedIsQuiet

\* Who begins to change the installation for r.
LEMMA WhoBegins ==
  ASSUME IInv, Next, NEW r \in Requests, fate[r] = "none", fate'[r] = "begun"
  PROVE  \/ agent.at = "mutate" /\ Req = r
         \/ updater["child"].at = "begin" /\ updater["child"].req = r
<1>1. fate \in [Requests -> Fates]
  BY DEF IInv, TypeOK
<1>2. ~Operator
  BY DEF Operator, File, PublishHold, ClearHold, Drain, Control
<1>3. CASE AgentStep
  <2>1. Mutate \/ Settle
    BY <1>3 DEF AgentStep, Admit, Republish, LeaveClaim, WriteOff, TakeRequest, AfterSweep, WriteClaim,
       NothingToDo, Replay, Refuse, Check, Execute, Compare, AfterProcess, Judge, PublishStatus, CleanUp
  <2> QED
    BY <1>1, <2>1 DEF Mutate, Settle
<1>4. ~CrashAgent /\ ~Run /\ ~TakeLock /\ ~AdmitChild
  BY DEF CrashAgent, Run, TakeLock, AdmitChild, AfterUpdater
<1>5. ASSUME NEW u \in Updaters,
             UpdaterStep(u) \/ Stillborn(u) \/ SwitchFails(u) \/ Trouble(u) \/ Crash(u)
      PROVE  updater["child"].at = "begin" /\ updater["child"].req = r
  <2>1. ~Terminal(u)
    BY DEF Terminal
  <2>2. Begin(u) /\ r = updater[u].req
    BY <1>5, <2>1 DEF UpdaterStep, Verify, Begin, Prepare, SwitchImage, SwitchVersion, Health, Record,
       RestoreImage, RestoreVersion, RecordFailure, Step, AfterPhase, Note, PublishFailure, Stillborn,
       SwitchFails, Trouble, Crash
  <2>3. u = "child"
    BY <2>2, ConstantsAssumption DEF IInv, ChildInv, Updaters
  <2> QED
    BY <2>2, <2>3 DEF Begin
<1> QED
  BY <1>2, <1>3, <1>4, <1>5 DEF Next

\* No requested change begins beside a claim that waits for reconciliation, and no
\* requested update while the journal of a dead updater lacks its end
\* (claim_next_request and updater_admission_barrier).
THEOREM UncertaintyStops == Spec => UncertainStopsRequests
<1>1. IInv /\ [Next]_vars =>
        [\A r \in Requests : (fate[r] = "none" /\ fate'[r] = "begun") =>
            /\ ~\E q \in Requests : InClaim(q) /\ Uncertain(q)
            /\ request[r].action = "apply" => ~abandoned]_vars
  <2> SUFFICES ASSUME IInv, Next, NEW r \in Requests, fate[r] = "none", fate'[r] = "begun"
               PROVE  /\ ~\E q \in Requests : InClaim(q) /\ Uncertain(q)
                      /\ request[r].action = "apply" => ~abandoned
    OBVIOUS
  <2>1. Alone(r) /\ ~Decided(r) /\ (request[r].action = "apply" => ~abandoned)
    <3>1. CASE agent.at = "mutate" /\ Req = r
      BY <3>1 DEF IInv, AgentInv, AloneInv, Serving
    <3>2. CASE updater["child"].at = "begin" /\ updater["child"].req = r
      BY <3>2 DEF IInv, ChildInv, AloneInv, GuardInv
    <3> QED
      BY <3>1, <3>2, WhoBegins
  <2> QED
    BY <2>1 DEF Alone, Decided, Uncertain
<1> QED
  BY Invariance, <1>1, PTL DEF Spec, UncertainStopsRequests

\* The installation is changed for a request only while it is what the administrator
\* saw, and for one request per key (expected_matches, validate_request_guard and
\* history_idempotency_source).
THEOREM ConfirmedChanges == Spec => ChangedAsConfirmed
<1>1. IInv /\ [Next]_vars =>
        [\A r \in Requests :
          (ActsFor(r) /\ production' # production) =>
              /\ request[r].action # "set_auto_apply" =>
                     /\ production.image = request[r].bound.image
                     /\ production.version = request[r].bound.version
                     /\ production.record = request[r].bound.record
              /\ request[r].action # "rollback" => production.policy = request[r].bound.policy
              /\ \A q \in Requests \ {r} : request[q].key = request[r].key => fate[q] = "none"]_vars
  <2> SUFFICES ASSUME IInv, Next, NEW r \in Requests, ActsFor(r), production' # production
               PROVE  /\ request[r].action # "set_auto_apply" =>
                             /\ production.image = request[r].bound.image
                             /\ production.version = request[r].bound.version
                             /\ production.record = request[r].bound.record
                      /\ request[r].action # "rollback" => production.policy = request[r].bound.policy
                      /\ NewKey(r)
    BY DEF NewKey
  <2>1. request[r].bound \in Production /\ production \in Production
    BY DEF IInv, TypeOK, Request
  <2>2. CASE agent.at = "mutate" /\ Matches(Req)
    <3>1. r = Req /\ NewKey(r) /\ request[r].action \in {"rollback", "set_auto_apply"}
      BY <2>2 DEF ActsFor, Req, IInv, AgentInv, AloneInv
    <3>2. CASE request[r].action = "rollback"
      <4>1. production = [request[r].bound EXCEPT !.policy = production.policy]
        BY <2>2, <3>1, <3>2 DEF Matches
      <4> QED
        BY <2>1, <3>1, <3>2, <4>1 DEF Production
    <3>3. CASE request[r].action = "set_auto_apply"
      BY <2>2, <3>1, <3>3 DEF Matches
    <3> QED
      BY <3>1, <3>2, <3>3
  <2>3. CASE \E u \in Updaters : Phase(u)
    <3>1. PICK u \in Updaters : Phase(u)
      BY <2>3
    <3>2. updater[u].at \in Acting /\ lock = FileOf(u)
      BY <3>1 DEF IInv, TypeOK, Phase, Prepare, SwitchImage, SwitchVersion, Health, Record, RestoreImage,
         RestoreVersion, RecordFailure, Step, SwitchFails, Trouble, Acting
    <3>3. lock = "request"
      BY DEF ActsFor, IInv, LockInv, Holding, Acting
    <3>4. u = "child"
      BY <3>2, <3>3 DEF FileOf, Updaters
    <3>5. updater["child"].at = "switch" /\ updater["child"].req = r
      BY <3>2, <3>4 DEF ActsFor, IInv, AgentInv, Acting
    <3>6. production = request[r].bound /\ NewKey(r)
      BY <3>5 DEF IInv, GuardInv, AloneInv
    <3> QED
      BY <3>6
  <2>4. agent.at # "settle"
    BY DEF ActsFor, IInv, AgentInv
  <2> QED
    BY <2>2, <2>3, <2>4, WhoChanges
<1> QED
  BY Invariance, <1>1, PTL DEF Spec, ChangedAsConfirmed
=============================================================================
