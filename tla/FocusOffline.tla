---------------------------- MODULE FocusOffline ----------------------------
(***************************************************************************)
(* The offline queue of the focus timer and the session commands of the    *)
(* server (apps/web/lib/client/focus-offline-*.ts, components/focus-*.ts,  *)
(* apps/web/lib/study/session-*-service.ts).                               *)
(*                                                                         *)
(* A page writes each command of the user to the browser's queue and then  *)
(* posts it; what was not answered stays queued and the page shows what    *)
(* the command will do.  Every tab also runs a sync loop, one at a time by *)
(* a lease that may run out, which lists the queue once, sends it in order *)
(* and moves each command onto the session its predecessor returned.  The  *)
(* server takes a command by its idempotency key and a compare-and-swap on *)
(* the session's version, in a transaction that reads and then writes.     *)
(* Requests and answers get lost, and a request may arrive after its       *)
(* sender has given it up.                                                 *)
(*                                                                         *)
(* A session is known by the queue as "local" until the server has created *)
(* it as "server"; "foreign" is one that another device started.           *)
(***************************************************************************)
EXTENDS Naturals, Sequences, FiniteSets

CONSTANTS
    Commands,   \* what the user may do once each
    Action,     \* the action of each command
    Pages,      \* pages the user acts in
    Loops,      \* tabs that synchronise the queue
    MaxEvents,  \* bound on what other devices do, on lost and failed requests,
                \* stopped tabs and lost leases
    None

Actions == {"start", "pause", "resume", "prepare", "complete", "context"}
Active == {"running", "paused", "closing"}
Statuses == Active \cup {"none", "completed"}
ServerIds == {"server", "foreign"}
Ids == ServerIds \cup {"local", "none"}
Clients == Pages \cup Loops

ASSUME CommandsAssumption == Action \in [Commands -> Actions]
ASSUME OneStartAssumption ==
    \A c, d \in Commands : Action[c] = "start" /\ Action[d] = "start" => c = d
ASSUME ClientsAssumption == Pages \cap Loops = {}
ASSUME NoneAssumption == None \notin Clients \cup Commands \cup Nat
ASSUME BoundsAssumption == MaxEvents \in Nat

VARIABLES
    online,     \* the browser has a network
    srv,        \* StudySession: status and updatedAt (a version) per session
    audit,      \* AuditEvent per command: the version its body named, or None
    applied,    \* history: how often each command took effect
    queue,      \* the browser's command store, shared by its tabs
    home,       \* localSessionId: the session a command was made for
    order,      \* createdAt: the commands made so far, oldest first
    lease,      \* the tab that holds the sync lock
    calls,      \* requests on their way or in a transaction of the server
    answer,     \* what each client's request came back with
    page,       \* each page: what it shows and whether it waits for an answer
    loop,       \* each tab's sync loop
    announced,  \* the session the syncs have last published to the pages
    told,       \* commands whose end the user was told or chose
    postponed,  \* history: the commands the user has deferred
    events      \* how many of them there were

vars == <<online, srv, audit, applied, queue, home, order, lease, calls, answer, page, loop,
          announced, told, postponed, events>>
server == <<online, srv, audit, applied>>
store == <<queue, home, order>>
user == <<told, postponed>>

-----------------------------------------------------------------------------
(* What a session, a queued command and a request consist of.              *)

NoSession == [id |-> "none", status |-> "none", ver |-> 0]
ServerSession == [id : ServerIds, status : Statuses, ver : Nat] \cup {NoSession}
Session == ServerSession \cup [id : {"local"}, status : Statuses, ver : Nat]

\* FocusOfflineCommand: of its body only the version it expects is kept, 0 for
\* the timestamp of a local projection, which no version of the server equals.
Row == [state : {"absent", "pending", "blocked", "deferred"},
        sid : ServerIds \cup {"none"}, exp : Nat, conflict : ServerSession]
NoRow == [state |-> "absent", sid |-> "none", exp |-> 0, conflict |-> NoSession]

Present(rows) == {c \in Commands : rows[c].state # "absent"}
Queued == Present(queue)
Before(c, d) == \E i, j \in DOMAIN order : i < j /\ order[i] = c /\ order[j] = d
First(S) == CHOOSE c \in S : \A d \in S \ {c} : Before(c, d)

Call == [from : Clients \cup {None}, cmd : Commands, sid : Ids, exp : Nat, pre : Nat,
         at : {"sent", "read"}]
Answers == {"none", "ok", "conflict", "refused", "failed", "unauthorized", "lost"}
Answer == [kind : Answers, latest : ServerSession]
NoAnswer == [kind |-> "none", latest |-> NoSession]
LostAnswer == [kind |-> "lost", latest |-> NoSession]

\* The statuses from which the server carries out an action, and its result.
From(a) == CASE a = "pause" -> {"running"}
             [] a = "resume" -> {"paused", "closing"}
             [] a = "prepare" -> {"running", "paused"}
             [] a = "complete" -> {"closing"}
             [] OTHER -> Active
After(a, status) == CASE a = "pause" -> "paused"
                      [] a \in {"start", "resume"} -> "running"
                      [] a = "prepare" -> "closing"
                      [] a = "complete" -> "completed"
                      [] OTHER -> status

\* applyLocalFocusCommand: what the page shows; only the server completes.
Projected(c, view) ==
    [id |-> view.id, ver |-> 0,
     status |-> IF Action[c] = "complete" THEN view.status
                ELSE After(Action[c], view.status)]

Current(id) == [id |-> id, status |-> srv[id].status, ver |-> srv[id].ver]
Running == {id \in ServerIds : srv[id].status \in Active}
ActiveSession == IF Running = {} THEN NoSession
                 ELSE Current(CHOOSE id \in Running : TRUE)

PageState == [at : {"idle", "post"}, cmd : Commands \cup {None}, view : Session]
Shows(view) == [at |-> "idle", cmd |-> None, view |-> view]

\* What updateCommand is to change in the commands "patches", one after the other.
Patch == [kind : {"body", "block", "keep", "remap"}, exp : Nat, latest : ServerSession]
NoPatch == [kind |-> "keep", exp |-> 0, latest |-> NoSession]

\* todo: the commands of the listing that the loop has not yet dealt with.
LoopState == [at : {"off", "next", "get", "put", "send", "wait", "drop", "end"},
              todo : [Commands -> Row], latest : ServerSession, known : BOOLEAN,
              patches : SUBSET Commands, patch : Patch, row : Row,
              then : {"send", "drop", "end"}]
Off == [at |-> "off", todo |-> [c \in Commands |-> NoRow], latest |-> NoSession,
        known |-> FALSE, patches |-> {}, patch |-> NoPatch, row |-> NoRow, then |-> "end"]

Init ==
    /\ online = FALSE
    /\ srv = [id \in ServerIds |-> [status |-> "none", ver |-> 0]]
    /\ audit = [c \in Commands |-> None]
    /\ applied = [c \in Commands |-> 0]
    /\ queue = [c \in Commands |-> NoRow]
    /\ home = [c \in Commands |-> "none"]
    /\ order = <<>>
    /\ lease = None
    /\ calls = {}
    /\ answer = [x \in Clients |-> NoAnswer]
    /\ page = [p \in Pages |-> Shows(NoSession)]
    /\ loop = [l \in Loops |-> Off]
    /\ announced = NoSession
    /\ told = {}
    /\ postponed = {}
    /\ events = 0

-----------------------------------------------------------------------------
(* The server: startStudySession in one serialised transaction, the other  *)
(* commands in a transaction that reads, decides and compares-and-swaps.   *)

Reply(q, kind, latest) ==
    /\ calls' = calls \ {q}
    /\ answer' = IF q.from = None THEN answer
                 ELSE [answer EXCEPT ![q.from] = [kind |-> kind, latest |-> latest]]

Serving == UNCHANGED <<store, lease, page, loop, announced, user, events>>

\* A command takes effect: the new version and the audit event commit together.
Effect(q, id) ==
    /\ srv' = [srv EXCEPT ![id].status = After(Action[q.cmd], @), ![id].ver = @ + 1]
    /\ UNCHANGED online
    /\ audit' = [audit EXCEPT ![q.cmd] = q.exp]
    /\ applied' = [applied EXCEPT ![q.cmd] = @ + 1]
    /\ Reply(q, "ok", [id |-> id, status |-> srv'[id].status, ver |-> srv'[id].ver])

IsStart(q) == q.at = "sent" /\ Action[q.cmd] = "start"

ReplayStart(q) ==
    /\ IsStart(q)
    /\ audit[q.cmd] # None
    /\ Reply(q, "ok", Current("server"))
    /\ UNCHANGED server /\ Serving

RefuseStart(q) ==
    /\ IsStart(q)
    /\ audit[q.cmd] = None
    /\ Running # {}
    /\ Reply(q, "conflict", ActiveSession)
    /\ UNCHANGED server /\ Serving

Start(q) ==
    /\ IsStart(q)
    /\ audit[q.cmd] = None
    /\ Running = {}
    /\ Effect(q, "server")
    /\ Serving

\* getSessionCommandPreimage finds no such session.
Known(q) == q.sid \in ServerIds /\ srv[q.sid].status # "none"

Unknown(q) ==
    /\ q.at = "sent" /\ Action[q.cmd] # "start"
    /\ ~Known(q)
    /\ Reply(q, "refused", NoSession)
    /\ UNCHANGED server /\ Serving

\* isReusedSessionCommand: the key was used before, by the same body or not.
Reused(q) == audit[q.cmd] # None
SameBody(q) == audit[q.cmd] = q.exp

Replay(q) ==
    /\ q.at = "sent" /\ Action[q.cmd] # "start"
    /\ Known(q)
    /\ Reused(q)
    /\ IF SameBody(q) THEN Reply(q, "ok", Current(q.sid))
                      ELSE Reply(q, "conflict", NoSession)
    /\ UNCHANGED server /\ Serving

\* assertSessionCommandExpectation and the status the action needs.
Expected(q) == /\ q.exp = srv[q.sid].ver
               /\ srv[q.sid].status \in From(Action[q.cmd])

Refuse(q) ==
    /\ q.at = "sent" /\ Action[q.cmd] # "start"
    /\ Known(q)
    /\ ~Reused(q)
    /\ ~Expected(q)
    /\ Reply(q, "conflict",
             IF Action[q.cmd] = "complete" /\ q.exp = srv[q.sid].ver
             THEN NoSession ELSE Current(q.sid))
    /\ UNCHANGED server /\ Serving

Admit(q) ==
    /\ q.at = "sent" /\ Action[q.cmd] # "start"
    /\ Known(q)
    /\ ~Reused(q)
    /\ Expected(q)
    /\ calls' = (calls \ {q}) \cup {[q EXCEPT !.at = "read", !.pre = srv[q.sid].ver]}
    /\ UNCHANGED <<server, answer>> /\ Serving

\* applySessionCas and the audit event, or its conflict.
\* Seeded bug: the update does not compare the version it read.
SwapsBlindly(q) == TRUE
Swaps(q) == srv[q.sid].ver = q.pre

Apply(q) ==
    /\ q.at = "read"
    /\ Swaps(q)
    /\ Effect(q, q.sid)
    /\ Serving

Overtaken(q) ==
    /\ q.at = "read"
    /\ ~Swaps(q)
    /\ Reply(q, "conflict", NoSession)
    /\ UNCHANGED server /\ Serving

Serve(q) == ReplayStart(q) \/ RefuseStart(q) \/ Start(q) \/ Unknown(q) \/ Replay(q)
            \/ Refuse(q) \/ Admit(q) \/ Apply(q) \/ Overtaken(q)

\* Another device of the user starts or changes a session.
Event == events < MaxEvents /\ events' = events + 1

OtherStarts ==
    /\ Event
    /\ Running = {} /\ srv["foreign"].status = "none"
    /\ srv' = [srv EXCEPT !["foreign"].status = "running", !["foreign"].ver = @ + 1]
    /\ UNCHANGED <<online, audit, applied, store, lease, calls, answer, page, loop,
                   announced, user>>

OtherActs(id, a) ==
    /\ Event
    /\ srv[id].status \in Active /\ srv[id].status \in From(a)
    /\ srv' = [srv EXCEPT ![id].status = After(a, @), ![id].ver = @ + 1]
    /\ UNCHANGED <<online, audit, applied, store, lease, calls, answer, page, loop,
                   announced, user>>

-----------------------------------------------------------------------------
(* The page: executeFocusSessionCommand, the launcher's start, the dialogs. *)

\* Without a network the request fails at once.
Send(x, c, sid, exp) ==
    /\ calls' = IF online
                THEN calls \cup {[from |-> x, cmd |-> c, sid |-> sid, exp |-> exp,
                                  pre |-> 0, at |-> "sent"]}
                ELSE calls
    /\ answer' = [answer EXCEPT ![x] = IF online THEN NoAnswer ELSE LostAnswer]

Enqueue(c, id, row) ==
    /\ queue' = [queue EXCEPT ![c] = row]
    /\ home' = [home EXCEPT ![c] = id]
    /\ order' = Append(order, c)

Unmade(c) == \A i \in DOMAIN order : order[i] # c

StartSession(p, c) ==
    /\ page[p].at = "idle" /\ page[p].view.status \notin Active
    /\ Unmade(c) /\ Action[c] = "start"
    /\ Enqueue(c, "local", [NoRow EXCEPT !.state = "pending"])
    /\ Send(p, c, "local", 0)
    /\ page' = [page EXCEPT ![p].at = "post", ![p].cmd = c]
    /\ UNCHANGED <<server, lease, loop, announced, told, postponed, events>>

\* A command on a local session is queued and projected, any other posted.
Command(p, c) ==
    LET view == page[p].view IN
    /\ page[p].at = "idle" /\ view.status \in Active
    /\ Unmade(c) /\ Action[c] # "start" /\ view.status \in From(Action[c])
    /\ Enqueue(c, view.id,
               [NoRow EXCEPT !.state = "pending", !.exp = view.ver,
                             !.sid = IF view.id = "local" THEN "none" ELSE view.id])
    /\ IF view.id = "local"
       THEN /\ page' = [page EXCEPT ![p] = Shows(Projected(c, view))]
            /\ UNCHANGED <<calls, answer>>
       ELSE /\ page' = [page EXCEPT ![p].at = "post", ![p].cmd = c]
            /\ Send(p, c, view.id, view.ver)
    /\ UNCHANGED <<server, lease, loop, announced, told, postponed, events>>

Removed(c) == [queue EXCEPT ![c] = NoRow]

\* What the page does with its answer; a conflict may be looked at or adopted.
Answered(p, kinds) == page[p].at = "post" /\ answer[p].kind \in kinds
Taken(x) == answer' = [answer EXCEPT ![x] = NoAnswer]
PageFrame ==
    /\ postponed' = postponed \cup {c \in Commands : queue'[c].state = "deferred"}
    /\ UNCHANGED <<server, home, order, lease, calls, loop, announced, events>>
PageStep == PageFrame /\ UNCHANGED answer

PageApplied(p) ==
    /\ Answered(p, {"ok"})
    /\ queue' = Removed(page[p].cmd)
    /\ page' = [page EXCEPT ![p] = Shows(answer[p].latest)]
    /\ UNCHANGED told /\ PageFrame /\ Taken(p)

PageRefused(p) ==
    /\ \/ Answered(p, {"refused"})
       \/ Answered(p, {"conflict"})
          /\ (Action[page[p].cmd] = "start" => answer[p].latest = NoSession)
    /\ queue' = Removed(page[p].cmd)
    /\ told' = told \cup {page[p].cmd}
    /\ \E view \in {page[p].view} \cup ({answer[p].latest} \ {NoSession}) :
         page' = [page EXCEPT ![p] = Shows(view)]
    /\ PageFrame /\ Taken(p)

\* The local session a page shows while its start waits.
LocalSession == [id |-> "local", status |-> "running", ver |-> 0]
Postponed(p) == IF Action[page[p].cmd] = "start" THEN LocalSession
                ELSE Projected(page[p].cmd, page[p].view)

\* A start that meets an active session: keep the command, or adopt the session.
PageMeetsActive(p) ==
    /\ Answered(p, {"conflict"})
    /\ Action[page[p].cmd] = "start" /\ answer[p].latest # NoSession
    /\ \/ /\ page' = [page EXCEPT ![p] = Shows(LocalSession)]
          /\ UNCHANGED <<queue, told>>
       \/ /\ queue' = [c \in Commands |-> IF home[c] = "local" THEN NoRow ELSE queue[c]]
          /\ told' = told \cup {c \in Queued : home[c] = "local"}
          /\ page' = [page EXCEPT ![p] = Shows(answer[p].latest)]
    /\ PageFrame /\ Taken(p)

\* Seeded bug: a command without an answer is given up.
PageForgets(p) ==
    /\ Answered(p, {"failed", "lost"})
    /\ queue' = Removed(page[p].cmd)
    /\ page' = [page EXCEPT ![p] = Shows(page[p].view)]
    /\ UNCHANGED told /\ PageFrame /\ Taken(p)

PageUnanswered(p) ==
    /\ Answered(p, {"failed", "lost"})
    /\ page' = [page EXCEPT ![p] = Shows(Postponed(p))]
    /\ UNCHANGED <<queue, told>> /\ PageFrame /\ Taken(p)

\* The session has expired: the command stays, a start waits for an explicit retry.
PageLoggedOut(p) ==
    /\ Answered(p, {"unauthorized"})
    /\ queue' = IF Action[page[p].cmd] = "start" /\ page[p].cmd \in Queued
                THEN [queue EXCEPT ![page[p].cmd].state = "deferred"] ELSE queue
    /\ page' = [page EXCEPT ![p] = Shows(page[p].view)]
    /\ UNCHANGED told /\ PageFrame /\ Taken(p)

\* The heartbeat or a reload shows the server's active session.
Refresh(p) ==
    /\ page[p].at = "idle" /\ page[p].view.id # "local"
    /\ Running # {} /\ page[p].view # ActiveSession
    /\ page' = [page EXCEPT ![p] = Shows(ActiveSession)]
    /\ UNCHANGED <<queue, told>> /\ PageStep

\* The event of a sync replaces the local session by the one it carries.
Hear(p) ==
    /\ page[p].at = "idle" /\ page[p].view.id = "local"
    /\ announced # NoSession
    /\ page' = [page EXCEPT ![p] = Shows(announced)]
    /\ UNCHANGED <<queue, told>> /\ PageStep

\* getFocusOfflineConflict: the first command that waits for the user.
Waiting == {c \in Queued : queue[c].state \in {"blocked", "deferred"}}
FirstWaiting(c) == c \in Waiting /\ \A d \in Waiting \ {c} : Before(c, d)
Related(c) == {d \in Queued : home[d] = home[c]}

\* Adopt the server's session or abandon the commands: none is sent any more.
Resolve(p, c) ==
    /\ page[p].at = "idle" /\ FirstWaiting(c)
    /\ queue' = [d \in Commands |-> IF d \in Related(c) THEN NoRow ELSE queue[d]]
    /\ told' = told \cup Related(c)
    /\ page' = IF queue[c].conflict = NoSession THEN page
               ELSE [page EXCEPT ![p] = Shows(queue[c].conflict)]
    /\ PageStep

Defer(p, c) ==
    /\ page[p].at = "idle" /\ FirstWaiting(c) /\ queue[c].state = "blocked"
    /\ queue' = [d \in Commands |-> IF d \in Related(c)
                                    THEN [queue[d] EXCEPT !.state = "deferred"]
                                    ELSE queue[d]]
    /\ UNCHANGED <<page, told>> /\ PageStep

Retry(p, c) ==
    /\ page[p].at = "idle" /\ FirstWaiting(c) /\ queue[c].state = "deferred"
    /\ queue' = [d \in Commands |->
                   IF d \in Related(c) /\ queue[d].state = "deferred"
                   THEN [queue[d] EXCEPT !.state = "pending"] ELSE queue[d]]
    /\ UNCHANGED <<page, told>> /\ PageStep

-----------------------------------------------------------------------------
(* The sync loop of a tab: syncFocusOfflineQueueInternal under its lease.   *)

Todo(l) == Present(loop[l].todo)

LoopStep == UNCHANGED <<server, home, order, page, user, events>>
Goto(l, state) == loop' = [loop EXCEPT ![l] = state]

\* listFocusCommands: the commands are read once.
Begin(l) ==
    /\ loop[l].at = "off" /\ lease = None /\ online
    /\ Queued # {}
    /\ lease' = l
    /\ Goto(l, [Off EXCEPT !.at = "next", !.todo = queue])
    /\ UNCHANGED <<queue, calls, answer, announced>> /\ LoopStep

End(l) ==
    /\ loop[l].at = "end" \/ (loop[l].at = "next" /\ Todo(l) = {})
    /\ lease' = IF lease = l THEN None ELSE lease
    /\ announced' = IF loop[l].latest = NoSession THEN announced ELSE loop[l].latest
    /\ Goto(l, Off)
    /\ UNCHANGED <<queue, calls, answer>> /\ LoopStep

\* The command at hand, as it was when it was listed, and the others without it.
AtCommand(l) == loop[l].at = "next" /\ Todo(l) # {}
Item(l) == First(Todo(l))
Listed(l) == loop[l].todo[Item(l)]
Others(l) == [loop[l].todo EXCEPT ![Item(l)] = NoRow]

\* serverSessionId, else what this loop has learned, else the local id.
Target(l) == IF Listed(l).sid # "none" THEN Listed(l).sid
             ELSE IF home[Item(l)] = "local" /\ loop[l].known THEN "server"
             ELSE home[Item(l)]

Rebases(l) == Action[Item(l)] # "start" /\ loop[l].latest.id = Target(l)
Body(l) == IF Rebases(l) THEN loop[l].latest.ver ELSE Listed(l).exp

Skip(l) ==
    /\ AtCommand(l) /\ Listed(l).state = "deferred"
    /\ Goto(l, [loop[l] EXCEPT !.todo = Others(l),
                               !.latest = IF Listed(l).conflict = NoSession THEN @
                                          ELSE Listed(l).conflict])
    /\ UNCHANGED <<queue, lease, calls, answer, announced>> /\ LoopStep

StopAtBlocked(l) ==
    /\ AtCommand(l) /\ Listed(l).state = "blocked"
    /\ Goto(l, [loop[l] EXCEPT !.at = "end", !.latest = NoSession])
    /\ UNCHANGED <<queue, lease, calls, answer, announced>> /\ LoopStep

\* The body is moved onto the latest session and saved before it is sent.
Prepare(l) ==
    /\ AtCommand(l) /\ Listed(l).state = "pending"
    /\ Goto(l, IF Rebases(l)
               THEN [loop[l] EXCEPT !.at = "get", !.then = "send", !.patches = {Item(l)},
                                    !.patch = [kind |-> "body", exp |-> Body(l),
                                               latest |-> NoSession]]
               ELSE [loop[l] EXCEPT !.at = "send", !.then = "send"])
    /\ UNCHANGED <<queue, lease, calls, answer, announced>> /\ LoopStep

\* updateCommand reads the record in one transaction and writes it in another.
Patched(row, patch) ==
    CASE patch.kind = "body" -> [row EXCEPT !.exp = patch.exp]
      [] patch.kind = "block" -> [row EXCEPT !.state = "blocked", !.conflict = patch.latest]
      [] patch.kind = "keep" -> [row EXCEPT !.state = "pending"]
      [] OTHER -> [row EXCEPT !.sid = patch.latest.id]

Patching(l) == First(loop[l].patches)

Advance(l) ==
    LET left == loop[l].patches \ {Patching(l)} IN
    IF left = {}
    THEN [loop[l] EXCEPT !.at = loop[l].then, !.patches = {}, !.patch = NoPatch, !.row = NoRow]
    ELSE [loop[l] EXCEPT !.at = "get", !.patches = left, !.row = NoRow]

\* Seeded bug: a record that has been removed meanwhile is written all the same.
GetAnyway(l) ==
    /\ loop[l].at = "get"
    /\ Goto(l, [loop[l] EXCEPT !.at = "put", !.row = queue[Patching(l)]])
    /\ UNCHANGED <<queue, lease, calls, answer, announced>> /\ LoopStep

Get(l) ==
    LET row == queue[Patching(l)] IN
    /\ loop[l].at = "get"
    /\ Goto(l, IF row.state = "absent" THEN Advance(l)
               ELSE [loop[l] EXCEPT !.at = "put", !.row = row])
    /\ UNCHANGED <<queue, lease, calls, answer, announced>> /\ LoopStep

Put(l) ==
    /\ loop[l].at = "put"
    /\ queue' = [queue EXCEPT ![Patching(l)] = Patched(loop[l].row, loop[l].patch)]
    /\ Goto(l, Advance(l))
    /\ UNCHANGED <<lease, calls, answer, announced>> /\ LoopStep

Post(l) ==
    /\ loop[l].at = "send"
    /\ Send(l, Item(l), Target(l), Body(l))
    /\ Goto(l, [loop[l] EXCEPT !.at = "wait"])
    /\ UNCHANGED <<queue, lease, announced>> /\ LoopStep

Heard(l, kinds) == loop[l].at = "wait" /\ answer[l].kind \in kinds

\* remapQueuedCommands: every queued command of the local session.
Remapped(l) == IF Action[Item(l)] = "start" THEN {c \in Queued : home[c] = "local"} ELSE {}

Succeed(l) ==
    /\ Heard(l, {"ok"})
    /\ Goto(l, [loop[l] EXCEPT !.at = IF Remapped(l) = {} THEN "drop" ELSE "get",
                               !.then = "drop", !.patches = Remapped(l),
                               !.patch = IF Remapped(l) = {} THEN NoPatch
                                         ELSE [kind |-> "remap", exp |-> 0,
                                               latest |-> answer[l].latest],
                               !.latest = answer[l].latest,
                               !.known = @ \/ home[Item(l)] = "local"])
    /\ announced' = answer[l].latest
    /\ Taken(l) /\ UNCHANGED <<queue, lease, calls>> /\ LoopStep

\* Seeded bug: the loop goes on with the next command after a failure.
FailAndContinue(l) ==
    /\ Heard(l, {"conflict", "refused", "failed"})
    /\ Goto(l, [loop[l] EXCEPT !.at = "next", !.todo = Others(l)])
    /\ Taken(l) /\ UNCHANGED <<queue, lease, calls, announced>> /\ LoopStep

\* A conflict blocks the command, any other refusal leaves it pending.  No page
\* adopts the session of a blocked sync's event.
Fail(l) ==
    /\ Heard(l, {"conflict", "refused", "failed"})
    /\ Goto(l, [loop[l] EXCEPT !.at = "get", !.then = "end",
                  !.latest = IF answer[l].kind = "conflict" THEN NoSession ELSE @,
                  !.patches = {Item(l)},
                  !.patch = [kind |-> IF answer[l].kind = "conflict" THEN "block" ELSE "keep",
                             exp |-> 0, latest |-> answer[l].latest]])
    /\ Taken(l) /\ UNCHANGED <<queue, lease, calls, announced>> /\ LoopStep

Interrupted(l) ==
    /\ Heard(l, {"unauthorized", "lost"})
    /\ Goto(l, [loop[l] EXCEPT !.at = "end"])
    /\ Taken(l) /\ UNCHANGED <<queue, lease, calls, announced>> /\ LoopStep

Drop(l) ==
    /\ loop[l].at = "drop"
    /\ queue' = Removed(Item(l))
    /\ Goto(l, [loop[l] EXCEPT !.at = "next", !.todo = Others(l)])
    /\ UNCHANGED <<lease, calls, answer, announced>> /\ LoopStep

Sync(l) == End(l) \/ Skip(l) \/ StopAtBlocked(l) \/ Prepare(l) \/ Get(l) \/ Put(l)
           \/ Post(l) \/ Succeed(l) \/ Fail(l) \/ Interrupted(l) \/ Drop(l)

-----------------------------------------------------------------------------
(* Faults: of the network, of the server, of a tab and of its lease.       *)

Expecting(x) == IF x \in Pages THEN page[x].at = "post" ELSE loop[x].at = "wait"
\* The network is back.
Connect ==
    /\ ~online
    /\ online' = TRUE
    /\ UNCHANGED <<srv, audit, applied, store, lease, calls, answer, page, loop,
                   announced, user, events>>

\* The answer is lost; the request may have been lost, served, or still be on its way.
LoseAnswer(x) ==
    /\ Expecting(x) /\ answer[x].kind # "lost"
    /\ Event
    /\ answer' = [answer EXCEPT ![x] = LostAnswer]
    /\ LET mine == {q \in calls : q.from = x} IN
       calls' \in {calls \ mine, (calls \ mine) \cup {[q EXCEPT !.from = None] : q \in mine}}
    /\ UNCHANGED <<server, store, lease, page, loop, announced, user>>

\* The server answers 5xx, or 401 because the login has expired.
RejectCall(q) ==
    /\ q.from # None
    /\ Event
    /\ \E kind \in {"failed", "unauthorized"} : Reply(q, kind, NoSession)
    /\ UNCHANGED <<server, store, lease, page, loop, announced, user>>

\* A tab is closed in the middle of its loop; its lease stays behind.
StopTab(l) ==
    /\ loop[l].at # "off"
    /\ Event
    /\ Goto(l, Off)
    /\ answer' = [answer EXCEPT ![l] = NoAnswer]
    /\ calls' = {IF q.from = l THEN [q EXCEPT !.from = None] ELSE q : q \in calls}
    /\ UNCHANGED <<server, store, lease, page, announced, user>>

\* The lease of a tab that stopped, or of one that was frozen, runs out.
\* Seeded bug: only the tab itself gives its lease back.
LeaseIsKept == FALSE

LeaseRunsOut ==
    /\ lease # None
    /\ IF loop[lease].at = "off" THEN UNCHANGED events ELSE Event
    /\ lease' = None
    /\ UNCHANGED <<server, store, calls, answer, page, loop, announced, user>>

Page(p) == PageApplied(p) \/ PageRefused(p) \/ PageMeetsActive(p)
           \/ PageUnanswered(p) \/ PageLoggedOut(p)

Next ==
    \/ \E q \in calls : Serve(q) \/ RejectCall(q)
    \/ OtherStarts
    \/ \E id \in ServerIds, a \in Actions \ {"start"} : OtherActs(id, a)
    \/ \E p \in Pages, c \in Commands : StartSession(p, c) \/ Command(p, c)
    \/ \E p \in Pages : Page(p) \/ Refresh(p) \/ Hear(p)
    \/ \E p \in Pages, c \in Commands : Resolve(p, c) \/ Defer(p, c) \/ Retry(p, c)
    \/ \E l \in Loops : Begin(l) \/ Sync(l) \/ StopTab(l)
    \/ \E x \in Clients : LoseAnswer(x)
    \/ Connect \/ LeaseRunsOut

Spec == Init /\ [][Next]_vars

\* Requests are served, answers handled, loops go on, an open tab polls again
\* (use-shell-activity-status.ts) and an abandoned lease runs out.  The user may
\* stop at any time.
FairSpec ==
    /\ Spec
    /\ WF_vars(\E q \in calls : Serve(q))
    /\ \A p \in Pages : WF_vars(Page(p))
    /\ \A l \in Loops : WF_vars(Sync(l))
    /\ WF_vars(\E l \in Loops : Begin(l))
    /\ WF_vars(Connect)
    /\ WF_vars(LeaseRunsOut /\ UNCHANGED events)

-----------------------------------------------------------------------------
(* Properties.                                                             *)

TypeOK ==
    /\ online \in BOOLEAN
    /\ srv \in [ServerIds -> [status : Statuses, ver : Nat]]
    /\ audit \in [Commands -> Nat \cup {None}]
    /\ applied \in [Commands -> Nat]
    /\ queue \in [Commands -> Row]
    /\ home \in [Commands -> Ids]
    /\ order \in Seq(Commands)
    /\ lease \in Loops \cup {None}
    /\ calls \subseteq Call
    /\ answer \in [Clients -> Answer]
    /\ page \in [Pages -> PageState]
    /\ loop \in [Loops -> LoopState]
    /\ \A l \in Loops :
         /\ (loop[l].at \in {"get", "put"} <=> loop[l].patches # {})
         /\ (loop[l].at = "put" => loop[l].row.state # "absent")
         /\ (loop[l].at \in {"get", "put", "send", "wait", "drop"} => Todo(l) # {})
    /\ announced \in ServerSession
    /\ told \subseteq Commands
    /\ postponed \subseteq Commands
    /\ events \in Nat

\* No command of the user takes effect twice, however often pages and loops send
\* it, whichever answers are lost and although a loop rewrites its body.
AppliedOnce == \A c \in Commands : applied[c] <= 1

\* A command leaves the queue only when it took effect or the user was told.
NothingLost ==
    \A c \in Commands : Unmade(c) \/ c \in Queued \cup told \/ applied[c] > 0

\* The commands of a session that was started offline take effect in the order
\* the user gave them, a failed, lost or repeated sync and a lost lease
\* notwithstanding; only a command the user has deferred may be overtaken.
OfflineOrder ==
    \A c, d \in Commands :
        Before(d, c) /\ home[c] = "local" /\ home[d] = "local" /\ applied[c] > 0
            => applied[d] > 0 \/ d \in told \cup postponed

\* A command of a session the loop cannot name: its start has been synchronised,
\* and it was queued after the others had been given the server's id.
Names(c) == home[c] = "local" /\ (Action[c] = "start" \/ queue[c].sid # "none")
Stranded(c) ==
    /\ queue[c].state = "pending" /\ home[c] = "local"
    /\ ~Names(c)
    /\ ~\E d \in Queued : Before(d, c) /\ Names(d)

\* Again and again the queue comes to rest, whichever tabs, leases and answers get
\* lost: all of it is synchronised or a command is put to the user, unless a
\* stranded command stands before the others.
Pending == {c \in Commands : queue[c].state = "pending"}
Settles == []<>(Pending = {} \/ Waiting # {} \/ \E c \in Commands : Stranded(c))

\* What docs/modules/timer.md says of the queue: once online it is synchronised in order.
Synchronised == []<>(Pending = {} \/ Waiting # {})

=============================================================================
