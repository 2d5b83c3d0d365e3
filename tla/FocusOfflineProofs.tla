------------------------- MODULE FocusOfflineProofs -------------------------
(***************************************************************************)
(* Proofs about FocusOffline, for any commands with at most one start, any *)
(* pages, loops and number of faults.  The inductive invariant says in     *)
(* which order commands were made (OrderInv, StartInv), what a record of   *)
(* the queue may say of its command (RowInv), what a command that took     *)
(* effect has left behind (EffectInv), and what a request, an answer and a *)
(* loop stand for (CallInv, AnswerInv, LoopInv).                           *)
(***************************************************************************)
EXTENDS FocusOffline, TLAPS, WellFoundedInduction

-----------------------------------------------------------------------------
(* The inductive invariant                                                 *)

Made(c) == home[c] # "none"

\* What the user knows or what has happened: such a command may be overtaken.
Settled(d) == applied[d] > 0 \/ d \in told \cup postponed

\* The commands before c are settled.
Clear(c) == \A d \in Commands : Before(d, c) => Settled(d)

StartMade == \E s \in Commands : Action[s] = "start" /\ Made(s)

\* The session of the server for which a command is made.
Server(id) == IF id = "local" THEN "server" ELSE id

\* The command a client waits for an answer to.
Asked(x) == IF x \in Pages THEN page[x].cmd ELSE Item(x)

\* A command is made once, when it is appended to the order.
OrderInv ==
    /\ \A i, j \in DOMAIN order : order[i] = order[j] => i = j
    /\ \A c \in Commands : Made(c) <=> ~Unmade(c)

\* The start of the local session is the first of its commands.
StartInv ==
    /\ \A c \in Commands : Action[c] = "start" => home[c] \in {"none", "local"}
    /\ \A c \in Commands : home[c] = "local" => StartMade
    /\ \A p \in Pages : page[p].view.id = "local" => StartMade
    /\ \A c, d \in Commands :
         Before(d, c) /\ home[c] = "local" /\ home[d] = "local" => Action[c] # "start"

\* A record names no session but that of its command, and only the local one is
\* without a name of the server.
RowInv(c, row) ==
    row.state # "absent" =>
        /\ Made(c)
        /\ row.sid \in {"none", Server(home[c])}
        /\ row.sid = "none" => home[c] = "local"
        /\ row.state = "deferred" => c \in postponed

QueueInv == \A c \in Commands : RowInv(c, queue[c])

\* A command took effect if and only if it has its audit event; a command of the
\* local session not before those made earlier were settled; none is lost.
EffectInv(c) ==
    /\ applied[c] = IF audit[c] = None THEN 0 ELSE 1
    /\ audit[c] # None => Made(c)
    /\ home[c] = "local" /\ Action[c] # "start" /\ audit[c] # None => Clear(c)
    /\ Made(c) => c \in Queued \cup told \/ applied[c] > 0

EffectsInv == \A c \in Commands : EffectInv(c)

\* A request is for the session of its command.  Between its reads and its writes
\* either the session has moved on or the command has not taken effect.
CallInv(q) ==
    /\ Made(q.cmd)
    /\ Action[q.cmd] = "start" => q.at = "sent"
    /\ Action[q.cmd] # "start" => q.sid \in {home[q.cmd], Server(home[q.cmd])}
    /\ home[q.cmd] = "local" /\ Action[q.cmd] # "start" => Clear(q.cmd)
    /\ q.at = "read" => /\ q.sid \in ServerIds
                        /\ q.pre <= srv[q.sid].ver
                        /\ srv[q.sid].ver = q.pre => audit[q.cmd] = None

\* A client has one request, for the command it has asked for, and no answer yet.
SenderInv(q) ==
    q.from # None => /\ Expecting(q.from)
                     /\ answer[q.from].kind = "none"
                     /\ q.cmd = Asked(q.from)
                     /\ \A r \in calls : r.from = q.from => r = q

CallsInv == \A q \in calls : CallInv(q)

SendersInv == \A q \in calls : SenderInv(q)

\* Who is told that its command is done can rely on it.
AnswerInv(x) ==
    Expecting(x) /\ answer[x].kind = "ok" =>
        /\ applied[Asked(x)] > 0
        /\ Action[Asked(x)] = "start" => answer[x].latest.id = "server"

AnswersInv == \A x \in Clients : AnswerInv(x)

\* A page that waits shows the session it has sent its command for.
PagesInv == \A p \in Pages : page[p].at = "post" =>
                /\ page[p].cmd \in Commands
                /\ Made(page[p].cmd)
                /\ Action[page[p].cmd] # "start" => page[p].view.status \in Active

\* What a loop has listed stands for the commands before it, however old the list
\* is; a command it is about to drop took effect; a remap is of the local session.
LoopInv(l) ==
    /\ \A c \in Commands : RowInv(c, loop[l].todo[c])
    /\ \A c \in Todo(l), d \in Commands : Before(d, c) => d \in Todo(l) \/ Settled(d)
    /\ \A c \in loop[l].patches : /\ Made(c)
                                  /\ loop[l].patch.kind = "remap" =>
                                       home[c] = "local" /\ loop[l].patch.latest.id = "server"
    /\ loop[l].at = "put" => RowInv(Patching(l), loop[l].row)
    /\ loop[l].at = "drop" \/ (loop[l].patches # {} /\ loop[l].then = "drop") =>
         applied[Item(l)] > 0

LoopsInv == \A l \in Loops : LoopInv(l)

IInv ==
    /\ TypeOK
    /\ OrderInv
    /\ StartInv
    /\ QueueInv
    /\ EffectsInv
    /\ CallsInv
    /\ SendersInv
    /\ AnswersInv
    /\ PagesInv
    /\ LoopsInv

-----------------------------------------------------------------------------
(* The order of the commands                                               *)

LEMMA Indices == TypeOK => DOMAIN order = 1..Len(order) /\ Len(order) \in Nat
BY DEF TypeOK

\* Of two commands one at most was made before the other.
LEMMA OneBefore ==
  ASSUME TypeOK, OrderInv, NEW c, NEW d, Before(c, d), Before(d, c)
  PROVE  FALSE
<1>1. PICK i, j \in DOMAIN order : i < j /\ order[i] = c /\ order[j] = d
  BY DEF Before
<1>2. PICK m, n \in DOMAIN order : m < n /\ order[m] = d /\ order[n] = c
  BY DEF Before
<1>3. m = j /\ n = i
  BY <1>1, <1>2 DEF OrderInv
<1> QED BY <1>1, <1>2, <1>3, Indices

\* Among some commands one was made first.
LEMMA FirstIsFirst ==
  ASSUME TypeOK, OrderInv, NEW S \in SUBSET Commands, S # {}, \A c \in S : Made(c)
  PROVE  First(S) \in S /\ \A d \in S \ {First(S)} : Before(First(S), d)
<1> DEFINE places == {i \in DOMAIN order : order[i] \in S}
<1>1. \A c \in S : \E i \in DOMAIN order : order[i] = c
  BY DEF OrderInv, Unmade
<1>2. places \subseteq Nat /\ places # {}
  BY <1>1, Indices
<1>3. PICK i \in places : \A j \in places : ~(<<j, i>> \in OpToRel(<, Nat))
  BY <1>2, NatLessThanWellFounded, WFMin
<1>4. i \in DOMAIN order /\ order[i] \in S
  OBVIOUS
<1>5. ASSUME NEW d \in S, d # order[i] PROVE Before(order[i], d)
  <2>1. PICK j \in DOMAIN order : order[j] = d
    BY <1>1
  <2>2. j \in places /\ j # i
    BY <2>1, <1>5
  <2>3. ~(j < i)
    BY <1>2, <1>3, <2>2 DEF OpToRel
  <2>4. i < j
    BY <2>2, <2>3, <1>4, Indices
  <2> QED BY <2>1, <2>4, <1>4 DEF Before
<1>6. \E c \in S : \A d \in S \ {c} : Before(c, d)
  BY <1>4, <1>5
<1> QED BY <1>6 DEF First

LEMMA SameOrder ==
  ASSUME UNCHANGED order
  PROVE  /\ \A c, d : Before(c, d)' <=> Before(c, d)
         /\ \A c : Unmade(c)' <=> Unmade(c)
         /\ \A S : First(S)' = First(S)
BY DEF Before, Unmade, First

\* The command a loop has at hand is one it has listed, and the first of them.
LEMMA ItemIsListed ==
  ASSUME TypeOK, OrderInv, NEW l \in Loops, Todo(l) # {},
         \A c \in Commands : RowInv(c, loop[l].todo[c])
  PROVE  /\ Item(l) \in Todo(l) /\ Item(l) \in Commands /\ Made(Item(l))
         /\ \A d \in Todo(l) \ {Item(l)} : Before(Item(l), d)
<1>1. Todo(l) \in SUBSET Commands /\ \A c \in Todo(l) : Made(c)
  BY DEF Todo, Present, RowInv
<1> QED BY <1>1, FirstIsFirst DEF Item

\* A new command comes after all others and changes nothing among them.
LEMMA NewOrder ==
  ASSUME TypeOK, OrderInv, NEW c \in Commands, Unmade(c), order' = Append(order, c),
         NEW id \in Ids \ {"none"}, home' = [home EXCEPT ![c] = id]
  PROVE  /\ order' \in Seq(Commands)
         /\ OrderInv'
         /\ \A a : ~Before(c, a)'
         /\ \A a, b : b # c => (Before(a, b)' <=> Before(a, b))
         /\ \A S \in SUBSET Commands :
              S # {} /\ (\A a \in S : Made(a)) => First(S)' = First(S)
<1> DEFINE n == Len(order)
<1>1. /\ n \in Nat /\ order' \in Seq(Commands) /\ DOMAIN order = 1..n
      /\ DOMAIN order' = 1..(n + 1) /\ order'[n + 1] = c
      /\ \A i \in 1..n : order'[i] = order[i]
  BY Indices DEF TypeOK
<1>2. \A i \in 1..n : order[i] # c
  BY <1>1 DEF Unmade
<1> HIDE DEF n
<1>3. \A a : Unmade(a)' <=> Unmade(a) /\ a # c
  <2>1. \A i \in 1..(n + 1) : i \in 1..n \/ i = n + 1
    BY <1>1
  <2>2. 1..n \subseteq 1..(n + 1) /\ n + 1 \in 1..(n + 1)
    BY <1>1
  <2> QED BY <2>1, <2>2, <1>1 DEF Unmade
<1>4. OrderInv'
  <2>1. \A i, j \in 1..(n + 1) : order'[i] = order'[j] => i = j
    <3>1. \A i \in 1..(n + 1) : i \in 1..n \/ i = n + 1
      BY <1>1
    <3>2. \A i, j \in 1..n : order[i] = order[j] => i = j
      BY <1>1 DEF OrderInv
    <3> QED BY <3>1, <3>2, <1>1, <1>2
  <2>2. \A a \in Commands : Made(a)' <=> ~Unmade(a)'
    <3>1. \A a \in Commands : home'[a] = IF a = c THEN id ELSE home[a]
      BY DEF TypeOK
    <3> QED BY <3>1, <1>3 DEF OrderInv, Made
  <2> QED BY <2>1, <2>2, <1>1 DEF OrderInv
<1>5. ASSUME NEW a PROVE ~Before(c, a)'
  <2> SUFFICES ASSUME NEW i \in 1..(n + 1), NEW j \in 1..(n + 1), i < j, order'[i] = c
               PROVE  FALSE
    BY <1>1 DEF Before
  <2>1. i \in 1..n
    BY <1>1
  <2> QED BY <2>1, <1>1, <1>2
<1>6. ASSUME NEW a, NEW b, b # c PROVE Before(a, b)' <=> Before(a, b)
  <2>1. ASSUME NEW i \in 1..(n + 1), NEW j \in 1..(n + 1), i < j, order'[i] = a, order'[j] = b
        PROVE  Before(a, b)
    <3>1. i \in 1..n /\ j \in 1..n
      BY <2>1, <1>1, <1>6
    <3> QED BY <3>1, <2>1, <1>1 DEF Before
  <2>2. ASSUME NEW i \in 1..n, NEW j \in 1..n, i < j, order[i] = a, order[j] = b
        PROVE  Before(a, b)'
    <3>1. i \in 1..(n + 1) /\ j \in 1..(n + 1)
      BY <1>1
    <3> QED BY <3>1, <2>2, <1>1 DEF Before
  <2> QED BY <2>1, <2>2, <1>1 DEF Before
<1>7. ASSUME NEW S \in SUBSET Commands, S # {}, \A a \in S : Made(a)
      PROVE  First(S)' = First(S)
  <2>1. First(S) \in S /\ \A d \in S \ {First(S)} : Before(First(S), d)
    BY <1>7, FirstIsFirst
  <2>2. ~Made(c)
    BY DEF OrderInv
  <2>3. \A a, b \in S : Before(a, b)' <=> Before(a, b)
    BY <2>2, <1>6, <1>7
  <2>7. PICK f : f = First(S)'
    OBVIOUS
  <2>4. f \in S /\ \A d \in S \ {f} : Before(f, d)'
    <3>1. \E x \in S : \A d \in S \ {x} : Before(x, d)'
      BY <2>1, <2>3
    <3> QED BY <3>1, <2>7 DEF First
  <2>5. \A d \in S \ {f} : Before(f, d)
    BY <2>3, <2>4
  <2>6. First(S) = f
    BY <2>1, <2>4, <2>5, OneBefore
  <2> QED BY <2>6, <2>7
<1> QED BY <1>1, <1>4, <1>5, <1>6, <1>7

-----------------------------------------------------------------------------
(* What stays as it is                                                     *)

\* A step keeps what the user knows and what took effect.
Grows == /\ told \subseteq told' /\ postponed \subseteq postponed'
         /\ \A c \in Commands : applied[c] > 0 => applied'[c] > 0

\* A step keeps the sessions and the order of the commands made so far.
Keeps == /\ \A c \in Commands : Made(c) => home'[c] = home[c]
         /\ \A c \in Commands : Made(c) => \A d : Before(d, c)' <=> Before(d, c)
         /\ \A S \in SUBSET Commands :
              S # {} /\ (\A c \in S : Made(c)) => First(S)' = First(S)

LEMMA SameKeeps ==
  ASSUME UNCHANGED <<home, order>>
  PROVE  Keeps
BY SameOrder DEF Keeps

LEMMA MadeStays ==
  ASSUME Keeps, NEW c \in Commands, Made(c)
  PROVE  Made(c)' /\ home'[c] = home[c]
BY DEF Keeps, Made

LEMMA SettledStays ==
  ASSUME Grows, NEW d \in Commands, Settled(d)
  PROVE  Settled(d)'
BY DEF Grows, Settled

LEMMA RowStays ==
  ASSUME Keeps, Grows, NEW c \in Commands, NEW row, RowInv(c, row)
  PROVE  RowInv(c, row)'
BY DEF RowInv, Made, Grows, Keeps

LEMMA LoopStays ==
  ASSUME TypeOK, OrderInv, Keeps, Grows, NEW l \in Loops, loop'[l] = loop[l], LoopInv(l)
  PROVE  LoopInv(l)'
<1>1. /\ Todo(l)' = Todo(l) /\ Todo(l) \in SUBSET Commands /\ \A c \in Todo(l) : Made(c)
      /\ loop[l].patches \in SUBSET Commands /\ \A c \in loop[l].patches : Made(c)
  BY DEF Todo, Present, LoopInv, RowInv, TypeOK, LoopState
<1>2. /\ Todo(l) # {} => Item(l)' = Item(l) /\ Item(l) \in Commands
      /\ loop[l].patches # {} => Patching(l)' = Patching(l) /\ Patching(l) \in Commands
  BY <1>1, FirstIsFirst DEF Item, Patching, Keeps
<1>3. (\A c \in Commands : RowInv(c, loop[l].todo[c]))'
  BY DEF LoopInv, RowInv, Made, Grows, Keeps
<1>4. (\A c \in Todo(l), d \in Commands : Before(d, c) => d \in Todo(l) \/ Settled(d))'
  BY <1>1, SettledStays DEF LoopInv, Keeps
<1>5. (\A c \in loop[l].patches :
          /\ Made(c)
          /\ loop[l].patch.kind = "remap" =>
               home[c] = "local" /\ loop[l].patch.latest.id = "server")'
  BY <1>1, MadeStays DEF LoopInv
<1>6. (loop[l].at = "put" => RowInv(Patching(l), loop[l].row))'
  <2>1. loop[l].at = "put" => loop[l].patches # {} /\ RowInv(Patching(l), loop[l].row)
    BY DEF TypeOK, LoopInv
  <2> QED BY <1>2, <2>1 DEF RowInv, Made, Grows, Keeps
<1>7. (loop[l].at = "drop" \/ (loop[l].patches # {} /\ loop[l].then = "drop") =>
         applied[Item(l)] > 0)'
  <2>1. loop[l].at = "drop" \/ (loop[l].patches # {} /\ loop[l].then = "drop") =>
          Todo(l) # {} /\ applied[Item(l)] > 0
    BY DEF TypeOK, LoopInv
  <2> QED BY <1>2, <2>1 DEF Grows
<1> QED BY <1>3, <1>4, <1>5, <1>6, <1>7 DEF LoopInv

LEMMA ClearStays ==
  ASSUME Keeps, Grows, NEW c \in Commands, Made(c), Clear(c)
  PROVE  Clear(c)'
BY SettledStays DEF Clear, Keeps

LEMMA CallStays ==
  ASSUME Keeps, Grows, NEW q, q.cmd \in Commands, CallInv(q),
         q.at = "read" => /\ srv[q.sid].ver \in Nat /\ srv'[q.sid].ver \in Nat /\ q.pre \in Nat
                          /\ srv[q.sid].ver <= srv'[q.sid].ver
                          /\ srv'[q.sid].ver = srv[q.sid].ver => audit'[q.cmd] = audit[q.cmd]
  PROVE  CallInv(q)'
<1>1. Made(q.cmd) /\ Made(q.cmd)' /\ home'[q.cmd] = home[q.cmd]
  BY MadeStays DEF CallInv
<1>2. (home[q.cmd] = "local" /\ Action[q.cmd] # "start" => Clear(q.cmd))'
  BY <1>1, ClearStays DEF CallInv
<1>3. (q.at = "read" => /\ q.sid \in ServerIds
                        /\ q.pre <= srv[q.sid].ver
                        /\ srv[q.sid].ver = q.pre => audit[q.cmd] = None)'
  BY DEF CallInv
<1> QED BY <1>1, <1>2, <1>3 DEF CallInv

LEMMA VersionTypes ==
  ASSUME TypeOK, NEW q \in calls
  PROVE  q \in Call /\ q.pre \in Nat /\ q.exp \in Nat /\ q.cmd \in Commands
         /\ (q.sid \in ServerIds => srv[q.sid].ver \in Nat)
BY DEF TypeOK, Call

LEMMA EffectStays ==
  ASSUME Keeps, Grows, NEW c \in Commands, Made(c) \/ ~Made(c)', c \in Queued => c \in Queued',
         applied'[c] = applied[c], audit'[c] = audit[c], EffectInv(c)
  PROVE  EffectInv(c)'
<1>1. CASE Made(c)
  <2>1. Made(c)' /\ home'[c] = home[c]
    BY <1>1, MadeStays
  <2>2. (home[c] = "local" /\ Action[c] # "start" /\ audit[c] # None => Clear(c))'
    BY <1>1, <2>1, ClearStays DEF EffectInv
  <2> QED BY <1>1, <2>1, <2>2 DEF EffectInv, Grows
<1>2. CASE ~Made(c) /\ ~Made(c)'
  BY <1>2 DEF EffectInv
<1> QED BY <1>1, <1>2

LEMMA OrderStays ==
  ASSUME UNCHANGED <<home, order, page>>, OrderInv, StartInv, PagesInv
  PROVE  OrderInv' /\ StartInv' /\ PagesInv'
<1>1. OrderInv'
  BY SameOrder DEF OrderInv, Made
<1>2. StartInv'
  BY SameOrder DEF StartInv, StartMade, Made
<1>3. PagesInv'
  BY DEF PagesInv, Made
<1> QED BY <1>1, <1>2, <1>3

\* What a client waits for is a command that was made.
LEMMA AskedIsMade ==
  ASSUME IInv, NEW x \in Clients, Expecting(x)
  PROVE  Asked(x) \in Commands /\ Made(Asked(x))
<1>1. CASE x \in Pages
  BY <1>1 DEF Asked, Expecting, IInv, PagesInv
<1>2. CASE x \notin Pages
  <2>1. x \in Loops /\ loop[x].at = "wait"
    BY <1>2 DEF Clients, Expecting
  <2>2. Todo(x) # {} /\ (\A c \in Commands : RowInv(c, loop[x].todo[c]))
    BY <2>1 DEF IInv, TypeOK, LoopsInv, LoopInv
  <2> QED BY <1>2, <2>1, <2>2, ItemIsListed DEF IInv, Asked
<1> QED BY <1>1, <1>2

\* A client's question does not change while it waits.
LEMMA AskedStays ==
  ASSUME IInv, Keeps, NEW x \in Clients, Expecting(x),
         x \in Pages => page'[x] = page[x],
         x \notin Pages => loop'[x].todo = loop[x].todo
  PROVE  Asked(x)' = Asked(x)
<1>1. CASE x \in Pages
  BY <1>1 DEF Asked
<1>2. CASE x \notin Pages
  <2>1. x \in Loops /\ loop[x].at = "wait"
    BY <1>2 DEF Clients, Expecting
  <2>2. Todo(x) # {} /\ (\A c \in Commands : RowInv(c, loop[x].todo[c]))
    BY <2>1 DEF IInv, TypeOK, LoopsInv, LoopInv
  <2>3. Todo(x) \in SUBSET Commands /\ (\A c \in Todo(x) : Made(c)) /\ Todo(x)' = Todo(x)
    BY <1>2, <2>2 DEF Todo, Present, RowInv
  <2> QED BY <1>2, <2>2, <2>3 DEF Asked, Item, Keeps
<1> QED BY <1>1, <1>2

LEMMA StandStill ==
  ASSUME IInv, UNCHANGED <<home, order, page, loop>>
  PROVE  Keeps /\ \A x \in Clients : /\ Expecting(x)' = Expecting(x)
                                     /\ Expecting(x) => Asked(x)' = Asked(x)
<1>1. Keeps
  BY SameKeeps
<1>2. ASSUME NEW x \in Clients PROVE Expecting(x)' = Expecting(x)
  BY DEF Expecting
<1> QED BY <1>1, <1>2, AskedStays

LEMMA EffectsStay ==
  ASSUME EffectsInv, Keeps, Grows, UNCHANGED <<home, queue, applied, audit>>
  PROVE  EffectsInv'
<1>1. ASSUME NEW c \in Commands PROVE (Made(c) \/ ~Made(c)') /\ (c \in Queued => c \in Queued')
  BY DEF Made, Queued, Present
<1> QED BY <1>1, EffectStays DEF EffectsInv

-----------------------------------------------------------------------------
(* The server                                                              *)

\* The commands of every client are in its own hands: a step of the server keeps
\* the invariant when it keeps what is said of effects, requests and answers.
LEMMA ServerKeeps ==
  ASSUME IInv, UNCHANGED <<home, order, queue, page, loop, announced, told, postponed>>,
         Grows, online' \in BOOLEAN, lease' \in Loops \cup {None}, events' \in Nat,
         srv' \in [ServerIds -> [status : Statuses, ver : Nat]],
         audit' \in [Commands -> Nat \cup {None}], applied' \in [Commands -> Nat],
         calls' \subseteq Call, answer' \in [Clients -> Answer],
         EffectsInv', CallsInv', SendersInv', AnswersInv'
  PROVE  IInv'
<1>1. TypeOK'
  BY DEF IInv, TypeOK, Todo, Present
<1>2. OrderInv' /\ StartInv' /\ PagesInv'
  BY OrderStays DEF IInv
<1>3. QueueInv'
  BY RowStays, SameKeeps DEF IInv, QueueInv
<1>4. LoopsInv'
  BY LoopStays, SameKeeps DEF IInv, LoopsInv
<1> QED BY <1>1, <1>2, <1>3, <1>4 DEF IInv

\* An answer ends its request.
LEMMA ReplyKeeps ==
  ASSUME IInv, UNCHANGED <<home, order, page, loop>>, Grows,
         NEW q \in calls, NEW kind \in Answers, NEW latest \in ServerSession,
         Reply(q, kind, latest),
         \A r \in calls \ {q} : CallInv(r)',
         kind = "ok" => /\ applied'[q.cmd] > 0
                        /\ Action[q.cmd] = "start" => latest.id = "server"
  PROVE  /\ calls' \subseteq Call /\ answer' \in [Clients -> Answer]
         /\ CallsInv' /\ SendersInv' /\ AnswersInv'
<1> DEFINE a == [kind |-> kind, latest |-> latest]
<1>1. /\ calls' = calls \ {q} /\ q \in Call /\ a \in Answer
      /\ answer' = IF q.from = None THEN answer ELSE [answer EXCEPT ![q.from] = a]
  BY DEF Reply, IInv, TypeOK, Answer
<1>2. answer \in [Clients -> Answer] /\ calls \subseteq Call /\ q.from \in Clients \cup {None}
  BY <1>1 DEF IInv, TypeOK, Call
<1>3. answer' \in [Clients -> Answer] /\ calls' \subseteq Call
  BY <1>1, <1>2
<1>4. ASSUME NEW x \in Clients
      PROVE  answer'[x] = IF x = q.from /\ q.from # None THEN a ELSE answer[x]
  BY <1>1, <1>2
<1> HIDE DEF a
<1>5. SendersInv'
  <2> SUFFICES ASSUME NEW r \in calls', r.from # None PROVE SenderInv(r)'
    BY DEF SendersInv, SenderInv
  <2>1. r \in calls /\ r # q /\ SenderInv(r) /\ SenderInv(q) /\ r.from \in Clients
    BY <1>1, <1>2 DEF IInv, SendersInv, Call
  <2>2. r.from # q.from
    BY <2>1 DEF SenderInv
  <2> QED BY <2>1, <2>2, <1>1, <1>4, StandStill DEF SenderInv
<1>6. AnswersInv'
  <2> SUFFICES ASSUME NEW x \in Clients, Expecting(x)', answer'[x].kind = "ok"
               PROVE  /\ applied'[Asked(x)'] > 0
                      /\ Action[Asked(x)'] = "start" => answer'[x].latest.id = "server"
    BY DEF AnswersInv, AnswerInv
  <2>1. Asked(x)' = Asked(x) /\ Expecting(x) /\ AnswerInv(x) /\ SenderInv(q)
    BY StandStill DEF IInv, AnswersInv, SendersInv
  <2>2. CASE x = q.from /\ q.from # None
    BY <2>1, <2>2, <1>4 DEF SenderInv, a
  <2>3. CASE ~(x = q.from /\ q.from # None)
    <3>1. applied[Asked(x)] > 0 /\ (Action[Asked(x)] = "start" => answer'[x].latest.id = "server")
      BY <2>1, <2>3, <1>4 DEF AnswerInv
    <3>2. Asked(x) \in Commands
      BY <2>1, AskedIsMade
    <3> QED BY <2>1, <3>1, <3>2 DEF Grows
  <2> QED BY <2>2, <2>3
<1> QED BY <1>1, <1>3, <1>5, <1>6 DEF CallsInv

\* Replays, conflicts and refusals: an answer, and nothing else happens.
LEMMA AnsweringKeeps ==
  ASSUME IInv, UNCHANGED <<home, order, queue, lease, page, loop, announced, told, postponed>>,
         UNCHANGED <<online, srv, audit, applied>>, events' \in Nat,
         NEW q \in calls, NEW kind \in Answers, NEW latest \in ServerSession,
         Reply(q, kind, latest),
         kind = "ok" => /\ audit[q.cmd] # None
                        /\ Action[q.cmd] = "start" => latest.id = "server"
  PROVE  IInv'
<1>1. Grows
  BY DEF Grows
<1>2. q.cmd \in Commands
  BY DEF IInv, TypeOK, Call
<1>3. kind = "ok" => applied'[q.cmd] > 0
  BY <1>2 DEF IInv, EffectsInv, EffectInv
<1>4. \A r \in calls \ {q} : CallInv(r)'
  BY <1>1, CallStays, StandStill, VersionTypes DEF IInv, CallsInv, CallInv
<1>5. EffectsInv'
  BY <1>1, StandStill, EffectsStay DEF IInv
<1>6. /\ lease' \in Loops \cup {None} /\ online' \in BOOLEAN
      /\ srv' \in [ServerIds -> [status : Statuses, ver : Nat]]
      /\ audit' \in [Commands -> Nat \cup {None}] /\ applied' \in [Commands -> Nat]
  BY DEF IInv, TypeOK
<1>7. /\ calls' \subseteq Call /\ answer' \in [Clients -> Answer]
      /\ CallsInv' /\ SendersInv' /\ AnswersInv'
  BY <1>1, <1>3, <1>4, ReplyKeeps
<1> QED BY <1>1, <1>5, <1>6, <1>7, ServerKeeps

\* What the server returns is a session of its own.
LEMMA CurrentType ==
  ASSUME TypeOK
  PROVE  /\ \A id \in ServerIds : Current(id) \in ServerSession /\ Current(id).id = id
         /\ ActiveSession \in ServerSession /\ NoSession \in ServerSession
<1>1. ASSUME NEW id \in ServerIds PROVE Current(id) \in ServerSession /\ Current(id).id = id
  BY DEF TypeOK, Current, ServerSession
<1>2. NoSession \in ServerSession
  BY DEF ServerSession
<1>3. ActiveSession \in ServerSession
  <2>1. CASE Running = {}
    BY <2>1, <1>2 DEF ActiveSession
  <2>2. CASE Running # {}
    <3>1. (CHOOSE id \in Running : TRUE) \in ServerIds
      BY <2>2 DEF Running
    <3> QED BY <2>2, <3>1, <1>1 DEF ActiveSession
  <2> QED BY <2>1, <2>2
<1> QED BY <1>1, <1>2, <1>3

LEMMA ServedWithoutEffectKeeps ==
  ASSUME IInv, NEW q \in calls,
         \/ ReplayStart(q) \/ RefuseStart(q) \/ Unknown(q) \/ Replay(q) \/ Refuse(q)
         \/ Overtaken(q)
  PROVE  IInv'
<1>a. TypeOK /\ q \in Call
  BY DEF IInv, TypeOK
<1>1. UNCHANGED <<home, order, queue, lease, page, loop, announced, told, postponed>>
      /\ UNCHANGED <<online, srv, audit, applied>> /\ events' \in Nat
  BY <1>a DEF ReplayStart, RefuseStart, Unknown, Replay, Refuse, Overtaken, Serving, server,
     store, user, TypeOK
<1>2. "ok" \in Answers /\ "conflict" \in Answers /\ "refused" \in Answers /\ "server" \in ServerIds
  BY DEF Answers, ServerIds
<1>3. CASE ReplayStart(q)
  <2>1. Reply(q, "ok", Current("server")) /\ audit[q.cmd] # None
    BY <1>3 DEF ReplayStart
  <2> QED BY <2>1, <1>a, <1>1, <1>2, CurrentType, AnsweringKeeps
<1>4. CASE RefuseStart(q)
  <2>1. Reply(q, "conflict", ActiveSession)
    BY <1>4 DEF RefuseStart
  <2> QED BY <2>1, <1>a, <1>1, <1>2, CurrentType, AnsweringKeeps
<1>5. CASE Unknown(q)
  <2>1. Reply(q, "refused", NoSession)
    BY <1>5 DEF Unknown
  <2> QED BY <2>1, <1>a, <1>1, <1>2, CurrentType, AnsweringKeeps
<1>6. CASE Replay(q)
  <2>1. q.sid \in ServerIds /\ Action[q.cmd] # "start" /\ audit[q.cmd] # None
    BY <1>6 DEF Replay, Known, Reused
  <2>2. Reply(q, "ok", Current(q.sid)) \/ Reply(q, "conflict", NoSession)
    BY <1>6 DEF Replay
  <2>3. CASE Reply(q, "ok", Current(q.sid))
    BY <2>1, <2>3, <1>a, <1>1, <1>2, CurrentType, AnsweringKeeps
  <2>4. CASE Reply(q, "conflict", NoSession)
    BY <2>4, <1>a, <1>1, <1>2, CurrentType, AnsweringKeeps
  <2> QED BY <2>2, <2>3, <2>4
<1>7. CASE Refuse(q)
  <2>1. q.sid \in ServerIds
    BY <1>7 DEF Refuse, Known
  <2>2. PICK latest \in ServerSession : Reply(q, "conflict", latest)
    BY <1>7, <1>a, <2>1, CurrentType DEF Refuse
  <2> QED BY <2>2, <1>1, <1>2, AnsweringKeeps
<1>8. CASE Overtaken(q)
  <2>1. Reply(q, "conflict", NoSession)
    BY <1>8 DEF Overtaken
  <2> QED BY <2>1, <1>a, <1>1, <1>2, CurrentType, AnsweringKeeps
<1> QED BY <1>3, <1>4, <1>5, <1>6, <1>7, <1>8

LEMMA RejectCallKeeps ==
  ASSUME IInv, NEW q \in calls, RejectCall(q)
  PROVE  IInv'
<1>1. UNCHANGED <<home, order, queue, lease, page, loop, announced, told, postponed>>
      /\ UNCHANGED <<online, srv, audit, applied>>
  BY DEF RejectCall, server, store, user
<1>2. events' \in Nat
  BY DEF RejectCall, Event, IInv, TypeOK
<1>3. PICK kind \in {"failed", "unauthorized"} : Reply(q, kind, NoSession)
  BY DEF RejectCall
<1>4. kind \in Answers /\ kind # "ok" /\ NoSession \in ServerSession
  BY DEF Answers, ServerSession
<1> QED BY <1>1, <1>2, <1>3, <1>4, AnsweringKeeps

\* Between its reads and its writes a request rests on the version it has read.
LEMMA AdmitKeeps ==
  ASSUME IInv, NEW q \in calls, Admit(q)
  PROVE  IInv'
<1> DEFINE r == [q EXCEPT !.at = "read", !.pre = srv[q.sid].ver]
<1>1. /\ calls \subseteq Call /\ q \in Call /\ srv \in [ServerIds -> [status : Statuses, ver : Nat]]
      /\ CallInv(q) /\ SenderInv(q)
  BY DEF IInv, TypeOK, CallsInv, SendersInv
<1>2. /\ UNCHANGED <<home, order, queue, lease, page, loop, announced, told, postponed>>
      /\ UNCHANGED <<online, srv, audit, applied, answer, events>>
      /\ q.sid \in ServerIds /\ Action[q.cmd] # "start" /\ audit[q.cmd] = None
      /\ calls' = (calls \ {q}) \cup {r}
  BY DEF Admit, Serving, server, store, user, Known, Reused
<1>3. /\ r \in Call /\ r.cmd = q.cmd /\ r.from = q.from /\ r.sid = q.sid /\ r.at = "read"
      /\ r.pre = srv[q.sid].ver
  BY <1>1, <1>2 DEF Call
<1> HIDE DEF r
<1>4. Grows
  BY <1>2 DEF Grows
<1>5. CallsInv'
  <2>1. CallInv(r)
    BY <1>1, <1>2, <1>3 DEF CallInv
  <2>2. \A c \in calls' : CallInv(c)
    BY <1>2, <2>1 DEF IInv, CallsInv
  <2>3. \A c \in calls' : c \in Call
    BY <1>1, <1>2, <1>3
  <2>4. \A c \in calls' : /\ c.cmd \in Commands
                          /\ c.at = "read" => srv[c.sid].ver \in Nat /\ c.pre \in Nat
    BY <2>2, <2>3, <1>1 DEF CallInv, Call
  <2>5. Keeps
    BY <1>2, StandStill
  <2>6. ASSUME NEW c \in calls' PROVE CallInv(c)'
    BY <2>2, <2>4, <2>5, <1>2, <1>4, CallStays
  <2> QED BY <2>6 DEF CallsInv
<1>6. SendersInv'
  <2> SUFFICES ASSUME NEW c \in calls', c.from # None PROVE SenderInv(c)'
    BY DEF SendersInv, SenderInv
  <2>1. PICK b \in calls : b.from = c.from /\ b.cmd = c.cmd /\ (c = b \/ (c = r /\ b = q))
    BY <1>2, <1>3
  <2>2. SenderInv(b) /\ c.from \in Clients
    BY <2>1, <1>1 DEF IInv, SendersInv, Call
  <2>3. \A d \in calls' : d.from = c.from => d = c
    BY <1>2, <1>3, <2>1, <2>2 DEF SenderInv
  <2> QED BY <2>1, <2>2, <2>3, <1>2, StandStill DEF SenderInv
<1>7. EffectsInv'
  BY <1>2, <1>4, StandStill, EffectsStay DEF IInv
<1>8. AnswersInv'
  BY <1>2, StandStill DEF IInv, AnswersInv, AnswerInv
<1>9. /\ lease' \in Loops \cup {None} /\ online' \in BOOLEAN
      /\ srv' \in [ServerIds -> [status : Statuses, ver : Nat]]
      /\ audit' \in [Commands -> Nat \cup {None}] /\ applied' \in [Commands -> Nat]
      /\ events' \in Nat /\ answer' \in [Clients -> Answer] /\ calls' \subseteq Call
  BY <1>1, <1>2, <1>3 DEF IInv, TypeOK
<1> QED BY <1>2, <1>4, <1>5, <1>6, <1>7, <1>8, <1>9, ServerKeeps

\* A session with another status and version is one.
LEMMA SessionRecord ==
  ASSUME NEW r \in [status : Statuses, ver : Nat], NEW st \in Statuses
  PROVE  LET s == [r EXCEPT !.status = st, !.ver = r.ver + 1] IN
         s \in [status : Statuses, ver : Nat] /\ s.ver = r.ver + 1 /\ r.ver \in Nat
<1>1. r.ver \in Nat /\ r.ver + 1 \in Nat
  OBVIOUS
<1> QED BY <1>1

\* A command takes effect on the session it was made for: requests for the same
\* command, wherever they are, find the session moved on.
LEMMA EffectKeeps ==
  ASSUME IInv, UNCHANGED <<home, order, queue, lease, page, loop, announced, told, postponed>>,
         UNCHANGED events, NEW q \in calls, NEW id \in ServerIds, Effect(q, id),
         audit[q.cmd] = None, id = Server(home[q.cmd])
  PROVE  IInv'
<1> DEFINE latest == [id |-> id, status |-> srv'[id].status, ver |-> srv'[id].ver]
<1> DEFINE s == [srv[id] EXCEPT !.status = After(Action[q.cmd], srv[id].status),
                            !.ver = srv[id].ver + 1]
<1>1. /\ q \in Call /\ q.cmd \in Commands /\ q.exp \in Nat /\ CallInv(q) /\ EffectInv(q.cmd)
      /\ srv \in [ServerIds -> [status : Statuses, ver : Nat]]
      /\ audit \in [Commands -> Nat \cup {None}] /\ applied \in [Commands -> Nat]
      /\ home[q.cmd] \in Ids /\ Action[q.cmd] \in Actions
  BY CommandsAssumption DEF IInv, TypeOK, CallsInv, EffectsInv, Call
<1>2. /\ srv' = [srv EXCEPT ![id] = s] /\ online' = online
      /\ audit' = [audit EXCEPT ![q.cmd] = q.exp]
      /\ applied' = [applied EXCEPT ![q.cmd] = @ + 1]
      /\ Reply(q, "ok", latest)
  BY <1>1 DEF Effect
<1>3. s \in [status : Statuses, ver : Nat] /\ s.ver = srv[id].ver + 1 /\ srv[id].ver \in Nat
  <2>1. srv[id] \in [status : Statuses, ver : Nat]
    BY <1>1
  <2>2. After(Action[q.cmd], srv[id].status) \in Statuses
    BY <2>1 DEF After, Statuses, Active
  <2> QED BY <2>1, <2>2, SessionRecord
<1> HIDE DEF s
<1>4. /\ srv' \in [ServerIds -> [status : Statuses, ver : Nat]]
      /\ srv'[id].ver = srv[id].ver + 1
      /\ \A k \in ServerIds : k # id => srv'[k] = srv[k]
  BY <1>1, <1>2, <1>3
<1>5. latest \in ServerSession /\ latest.id = id
  BY <1>4 DEF ServerSession
<1> HIDE DEF latest
<1>6. /\ audit' \in [Commands -> Nat \cup {None}] /\ applied' \in [Commands -> Nat]
      /\ audit'[q.cmd] = q.exp /\ applied[q.cmd] = 0 /\ applied'[q.cmd] = 1
      /\ \A c \in Commands : c # q.cmd => audit'[c] = audit[c] /\ applied'[c] = applied[c]
  BY <1>1, <1>2 DEF EffectInv
<1>7. Grows
  BY <1>6 DEF Grows
<1>14. Keeps
  BY StandStill
<1>8. ASSUME NEW r \in calls \ {q} PROVE CallInv(r)'
  <2>1. /\ r \in Call /\ CallInv(r) /\ r.pre \in Nat /\ r.cmd \in Commands
        /\ \A k \in ServerIds : srv[k].ver \in Nat /\ srv'[k].ver \in Nat
    BY <1>1, <1>4, VersionTypes DEF IInv, CallsInv
  <2>2. ASSUME r.at = "read", r.cmd = q.cmd PROVE r.sid = id
    BY <2>1, <2>2 DEF CallInv, Server, ServerIds
  <2>3. ASSUME r.at = "read"
        PROVE  /\ r.sid \in ServerIds /\ srv[r.sid].ver <= srv'[r.sid].ver
               /\ srv'[r.sid].ver = srv[r.sid].ver => audit'[r.cmd] = audit[r.cmd]
    <3>1. r.sid \in ServerIds
      BY <2>1, <2>3 DEF CallInv
    <3>2. CASE r.sid = id
      BY <3>2, <1>3, <1>4
    <3>3. CASE r.sid # id
      BY <3>1, <3>3, <2>1, <2>2, <2>3, <1>4, <1>6
    <3> QED BY <3>1, <3>2, <3>3
  <2> QED BY <2>1, <2>3, <1>7, <1>14, CallStays
<1>9. EffectsInv'
  <2> SUFFICES ASSUME NEW c \in Commands PROVE EffectInv(c)'
    BY DEF EffectsInv
  <2>1. CASE c # q.cmd
    BY <2>1, <1>6, <1>7, <1>14, EffectStays DEF IInv, EffectsInv, Made, Queued, Present
  <2>2. CASE c = q.cmd
    <3>1. home[c] = "local" /\ Action[c] # "start" => Clear(c)'
      BY <2>2, <1>1, <1>7, <1>14, ClearStays DEF CallInv
    <3>2. audit'[c] # None /\ applied'[c] = 1 /\ Made(c)'
      BY <2>2, <1>1, <1>6, NoneAssumption DEF CallInv, Made
    <3> QED BY <3>1, <3>2 DEF EffectInv, Made
  <2> QED BY <2>1, <2>2
<1>10. "ok" \in Answers /\ applied'[q.cmd] > 0 /\ (Action[q.cmd] = "start" => latest.id = "server")
  <2>1. Action[q.cmd] = "start" => home[q.cmd] = "local"
    BY <1>1 DEF IInv, StartInv, CallInv, Made
  <2> QED BY <2>1, <1>5, <1>6 DEF Answers, Server
<1>11. /\ calls' \subseteq Call /\ answer' \in [Clients -> Answer]
       /\ CallsInv' /\ SendersInv' /\ AnswersInv'
  BY <1>2, <1>5, <1>7, <1>8, <1>10, ReplyKeeps
<1>12. lease' \in Loops \cup {None} /\ online' \in BOOLEAN /\ events' \in Nat
  BY <1>2 DEF IInv, TypeOK
<1> QED BY <1>4, <1>6, <1>7, <1>9, <1>11, <1>12, ServerKeeps

LEMMA StartKeeps ==
  ASSUME IInv, NEW q \in calls, Start(q)
  PROVE  IInv'
<1>1. UNCHANGED <<home, order, queue, lease, page, loop, announced, told, postponed>>
      /\ UNCHANGED events
  BY DEF Start, Serving, store, user
<1>2. Effect(q, "server") /\ audit[q.cmd] = None /\ Action[q.cmd] = "start" /\ Made(q.cmd)
      /\ q.cmd \in Commands
  BY VersionTypes DEF Start, IsStart, IInv, CallsInv, CallInv
<1>3. "server" = Server(home[q.cmd])
  BY <1>2 DEF IInv, StartInv, Made, Server
<1> QED BY <1>1, <1>2, <1>3, EffectKeeps DEF ServerIds

LEMMA ApplyKeeps ==
  ASSUME IInv, NEW q \in calls, Apply(q)
  PROVE  IInv'
<1>1. UNCHANGED <<home, order, queue, lease, page, loop, announced, told, postponed>>
      /\ UNCHANGED events
  BY DEF Apply, Serving, store, user
<1>2. Effect(q, q.sid) /\ CallInv(q) /\ q.at = "read" /\ srv[q.sid].ver = q.pre
  BY DEF Apply, Swaps, IInv, CallsInv
<1>3. audit[q.cmd] = None /\ q.sid \in ServerIds /\ q.sid = Server(home[q.cmd])
  BY <1>2 DEF CallInv, Server, ServerIds
<1> QED BY <1>1, <1>2, <1>3, EffectKeeps

\* Another device moves a session on.
LEMMA OthersKeep ==
  ASSUME IInv, UNCHANGED <<home, order, queue, lease, page, loop, announced, told, postponed>>,
         UNCHANGED <<online, audit, applied, calls, answer>>, events' \in Nat,
         NEW id \in ServerIds, NEW s \in [status : Statuses, ver : Nat],
         srv' = [srv EXCEPT ![id] = s], srv[id].ver <= s.ver
  PROVE  IInv'
<1>1. srv \in [ServerIds -> [status : Statuses, ver : Nat]]
  BY DEF IInv, TypeOK
<1>2. /\ srv' \in [ServerIds -> [status : Statuses, ver : Nat]]
      /\ \A k \in ServerIds : srv'[k].ver \in Nat /\ srv[k].ver \in Nat /\ srv[k].ver <= srv'[k].ver
  BY <1>1
<1>3. Grows
  BY DEF Grows
<1>4. CallsInv'
  <2> SUFFICES ASSUME NEW q \in calls PROVE CallInv(q)'
    BY DEF CallsInv
  <2>1. CallInv(q) /\ q.pre \in Nat
    BY VersionTypes DEF IInv, CallsInv
  <2>2. q.at = "read" => q.sid \in ServerIds
    BY <2>1 DEF CallInv
  <2> QED BY <2>1, <2>2, <1>2, <1>3, StandStill, CallStays, VersionTypes DEF IInv
<1>5. EffectsInv'
  BY <1>3, StandStill, EffectsStay DEF IInv
<1>6. SendersInv' /\ AnswersInv'
  BY StandStill DEF IInv, SendersInv, SenderInv, AnswersInv, AnswerInv, TypeOK, Call
<1>7. /\ lease' \in Loops \cup {None} /\ online' \in BOOLEAN
      /\ calls' \subseteq Call /\ answer' \in [Clients -> Answer]
      /\ audit' \in [Commands -> Nat \cup {None}] /\ applied' \in [Commands -> Nat]
  BY DEF IInv, TypeOK
<1> QED BY <1>2, <1>3, <1>4, <1>5, <1>6, <1>7, ServerKeeps

LEMMA OtherStartsKeeps ==
  ASSUME IInv, OtherStarts
  PROVE  IInv'
<1>1. /\ UNCHANGED <<home, order, queue, lease, page, loop, announced, told, postponed>>
      /\ UNCHANGED <<online, audit, applied, calls, answer>> /\ events' \in Nat
  BY DEF OtherStarts, Event, store, user, IInv, TypeOK
<1> DEFINE s == [srv["foreign"] EXCEPT !.status = "running", !.ver = srv["foreign"].ver + 1]
<1>2. /\ srv \in [ServerIds -> [status : Statuses, ver : Nat]] /\ "foreign" \in ServerIds
      /\ "running" \in Statuses
  BY DEF IInv, TypeOK, ServerIds, Statuses, Active
<1>3. srv["foreign"] \in [status : Statuses, ver : Nat]
  BY <1>2
<1>4. s \in [status : Statuses, ver : Nat] /\ srv["foreign"].ver <= s.ver
  <2>1. s.ver = srv["foreign"].ver + 1 /\ srv["foreign"].ver \in Nat
    BY <1>2, <1>3, SessionRecord
  <2>2. s \in [status : Statuses, ver : Nat]
    BY <1>2, <1>3, SessionRecord
  <2> HIDE DEF s
  <2> QED BY <2>1, <2>2
<1>5. srv' = [srv EXCEPT !["foreign"] = s]
  BY DEF OtherStarts
<1> HIDE DEF s
<1> QED BY <1>1, <1>2, <1>4, <1>5, OthersKeep

LEMMA OtherActsKeeps ==
  ASSUME IInv, NEW id \in ServerIds, NEW a \in Actions \ {"start"}, OtherActs(id, a)
  PROVE  IInv'
<1>1. /\ UNCHANGED <<home, order, queue, lease, page, loop, announced, told, postponed>>
      /\ UNCHANGED <<online, audit, applied, calls, answer>> /\ events' \in Nat
  BY DEF OtherActs, Event, store, user, IInv, TypeOK
<1> DEFINE s == [srv[id] EXCEPT !.status = After(a, srv[id].status), !.ver = srv[id].ver + 1]
<1>2. srv \in [ServerIds -> [status : Statuses, ver : Nat]]
  BY DEF IInv, TypeOK
<1>3. srv[id] \in [status : Statuses, ver : Nat]
  BY <1>2
<1>4. After(a, srv[id].status) \in Statuses
  BY <1>3 DEF After, Statuses, Active
<1>5. s \in [status : Statuses, ver : Nat] /\ srv[id].ver <= s.ver
  <2>1. s.ver = srv[id].ver + 1 /\ srv[id].ver \in Nat
    BY <1>3, <1>4, SessionRecord
  <2>2. s \in [status : Statuses, ver : Nat]
    BY <1>3, <1>4, SessionRecord
  <2> HIDE DEF s
  <2> QED BY <2>1, <2>2
<1>6. srv' = [srv EXCEPT ![id] = s]
  BY <1>2 DEF OtherActs
<1> HIDE DEF s
<1> QED BY <1>1, <1>5, <1>6, OthersKeep

\* The network, the sync lock and the count of events concern nobody else.
LEMMA SurroundingsKeep ==
  ASSUME IInv, UNCHANGED <<home, order, queue, page, loop, announced, told, postponed>>,
         UNCHANGED <<srv, audit, applied, calls, answer>>,
         online' \in BOOLEAN, lease' \in Loops \cup {None}, events' \in Nat
  PROVE  IInv'
<1>1. Grows
  BY DEF Grows
<1>2. /\ srv' \in [ServerIds -> [status : Statuses, ver : Nat]]
      /\ audit' \in [Commands -> Nat \cup {None}] /\ applied' \in [Commands -> Nat]
      /\ calls' \subseteq Call /\ answer' \in [Clients -> Answer]
  BY DEF IInv, TypeOK
<1>3. EffectsInv'
  BY <1>1, StandStill, EffectsStay DEF IInv
<1>4. CallsInv'
  BY <1>1, CallStays, StandStill, VersionTypes DEF IInv, CallsInv, CallInv
<1>5. SendersInv' /\ AnswersInv'
  BY StandStill DEF IInv, SendersInv, SenderInv, AnswersInv, AnswerInv, TypeOK, Call
<1> QED BY <1>1, <1>2, <1>3, <1>4, <1>5, ServerKeeps

LEMMA ConnectKeeps ==
  ASSUME IInv, Connect
  PROVE  IInv'
<1>1. /\ UNCHANGED <<home, order, queue, page, loop, announced, told, postponed>>
      /\ UNCHANGED <<srv, audit, applied, calls, answer>>
      /\ online' \in BOOLEAN /\ lease' \in Loops \cup {None} /\ events' \in Nat
  BY DEF Connect, store, user, IInv, TypeOK
<1> QED BY <1>1, SurroundingsKeep

LEMMA LeaseRunsOutKeeps ==
  ASSUME IInv, LeaseRunsOut
  PROVE  IInv'
<1>1. /\ UNCHANGED <<home, order, queue, page, loop, announced, told, postponed>>
      /\ UNCHANGED <<srv, audit, applied, calls, answer>>
      /\ online' \in BOOLEAN /\ lease' \in Loops \cup {None} /\ events' \in Nat
  BY DEF LeaseRunsOut, Event, server, store, user, IInv, TypeOK
<1> QED BY <1>1, SurroundingsKeep

LEMMA StutterKeeps ==
  ASSUME IInv, UNCHANGED vars
  PROVE  IInv'
<1>1. /\ UNCHANGED <<home, order, queue, page, loop, announced, told, postponed>>
      /\ UNCHANGED <<srv, audit, applied, calls, answer>>
      /\ online' \in BOOLEAN /\ lease' \in Loops \cup {None} /\ events' \in Nat
  BY DEF vars, IInv, TypeOK
<1> QED BY <1>1, SurroundingsKeep

\* An answer that is lost leaves its request without a sender, wherever it is.
LEMMA LoseAnswerKeeps ==
  ASSUME IInv, NEW x \in Clients, LoseAnswer(x)
  PROVE  IInv'
<1> DEFINE mine == {q \in calls : q.from = x}
<1> DEFINE orphans == {[q EXCEPT !.from = None] : q \in mine}
<1>1. /\ UNCHANGED <<home, order, queue, lease, page, loop, announced, told, postponed>>
      /\ UNCHANGED <<online, srv, audit, applied>> /\ events' \in Nat
      /\ answer' = [answer EXCEPT ![x] = LostAnswer]
      /\ calls' \in {calls \ mine, (calls \ mine) \cup orphans}
  BY DEF LoseAnswer, Event, server, store, user, IInv, TypeOK
<1>2. Grows
  BY <1>1 DEF Grows
<1>3. /\ calls \subseteq Call /\ answer \in [Clients -> Answer] /\ LostAnswer \in Answer
      /\ LostAnswer.kind = "lost"
  BY DEF IInv, TypeOK, LostAnswer, Answer, Answers, ServerSession
<1>4. /\ answer' \in [Clients -> Answer] /\ answer'[x] = LostAnswer
      /\ \A y \in Clients : y # x => answer'[y] = answer[y]
  BY <1>1, <1>3
<1>5. ASSUME NEW q \in mine
      PROVE  LET o == [q EXCEPT !.from = None] IN
             o \in Call /\ o.from = None /\ (CallInv(q) => CallInv(o))
  <2>1. q \in Call
    BY <1>3
  <2> QED BY <2>1 DEF Call, CallInv
<1>6. \A q \in calls' : q \in Call /\ CallInv(q) /\ (q.from # None => q \in calls /\ q.from # x)
  <2>1. ASSUME NEW q \in calls \ mine PROVE q \in Call /\ CallInv(q) /\ q.from # x
    BY <1>3 DEF IInv, CallsInv
  <2>2. ASSUME NEW o \in orphans PROVE o \in Call /\ CallInv(o) /\ o.from = None
    <3>1. PICK q \in mine : o = [q EXCEPT !.from = None]
      OBVIOUS
    <3>2. CallInv(q)
      BY <3>1 DEF IInv, CallsInv
    <3> QED BY <3>1, <3>2, <1>5
  <2> HIDE DEF mine, orphans
  <2>3. \A q \in calls' : q \in calls \ mine \/ q \in orphans
    BY <1>1
  <2> QED BY <2>1, <2>2, <2>3
<1> HIDE DEF mine, orphans
<1>7. CallsInv'
  <2>1. \A q \in calls' : q.at = "read" => srv[q.sid].ver \in Nat /\ q.pre \in Nat
    BY <1>6 DEF CallInv, Call, IInv, TypeOK
  <2> QED BY <1>1, <1>2, <1>6, <2>1, CallStays, StandStill DEF CallsInv, Call
<1>8. SendersInv'
  BY <1>1, <1>3, <1>4, <1>6, StandStill DEF IInv, SendersInv, SenderInv, Call
<1>9. AnswersInv'
  BY <1>1, <1>3, <1>4, StandStill DEF IInv, AnswersInv, AnswerInv
<1>10. EffectsInv'
  BY <1>1, <1>2, StandStill, EffectsStay DEF IInv
<1>11. /\ lease' \in Loops \cup {None} /\ online' \in BOOLEAN
       /\ srv' \in [ServerIds -> [status : Statuses, ver : Nat]]
       /\ audit' \in [Commands -> Nat \cup {None}] /\ applied' \in [Commands -> Nat]
       /\ calls' \subseteq Call
  BY <1>1, <1>6 DEF IInv, TypeOK
<1> QED BY <1>1, <1>2, <1>4, <1>7, <1>8, <1>9, <1>10, <1>11, ServerKeeps

-----------------------------------------------------------------------------
(* The page makes commands                                                 *)

\* A request goes out, or fails at once; nobody waited for an answer before.
LEMMA SendKeeps ==
  ASSUME IInv, Keeps, Grows, NEW x \in Clients, ~Expecting(x), Expecting(x)',
         \A y \in Clients \ {x} : /\ Expecting(y)' = Expecting(y)
                                  /\ Expecting(y) => Asked(y)' = Asked(y),
         NEW c \in Commands, NEW sid \in Ids, NEW exp \in Nat, Send(x, c, sid, exp),
         Asked(x)' = c, UNCHANGED <<srv, audit>>, Made(c)',
         Action[c] # "start" => sid \in {home'[c], Server(home'[c])},
         home'[c] = "local" /\ Action[c] # "start" => Clear(c)'
  PROVE  /\ calls' \subseteq Call /\ answer' \in [Clients -> Answer]
         /\ CallsInv' /\ SendersInv' /\ AnswersInv'
<1> DEFINE q == [from |-> x, cmd |-> c, sid |-> sid, exp |-> exp, pre |-> 0, at |-> "sent"]
<1>1. /\ calls' = IF online THEN calls \cup {q} ELSE calls
      /\ answer' = [answer EXCEPT ![x] = IF online THEN NoAnswer ELSE LostAnswer]
  BY DEF Send
<1>2. /\ q \in Call /\ q.from = x /\ q.cmd = c /\ q.sid = sid /\ q.at = "sent"
  BY DEF Call
<1> HIDE DEF q
<1>3. /\ answer \in [Clients -> Answer] /\ calls \subseteq Call
      /\ NoAnswer \in Answer /\ LostAnswer \in Answer
      /\ NoAnswer.kind = "none" /\ LostAnswer.kind = "lost"
  BY DEF IInv, TypeOK, NoAnswer, LostAnswer, Answer, Answers, ServerSession
<1>4. /\ answer' \in [Clients -> Answer] /\ calls' \subseteq Call
      /\ answer'[x].kind = IF online THEN "none" ELSE "lost"
      /\ \A y \in Clients \ {x} : answer'[y] = answer[y]
  BY <1>1, <1>2, <1>3
<1>5. ASSUME NEW r \in calls PROVE CallInv(r)' /\ r.from # x
  <2>1. CallInv(r) /\ SenderInv(r) /\ r.cmd \in Commands /\ r.pre \in Nat
    BY VersionTypes DEF IInv, CallsInv, SendersInv
  <2>2. r.at = "read" => srv[r.sid].ver \in Nat
    BY <2>1, VersionTypes DEF IInv, CallInv
  <2>3. x # None
    BY NoneAssumption
  <2> QED BY <2>1, <2>2, <2>3, CallStays DEF SenderInv
<1>6. CallInv(q)'
  BY <1>2 DEF CallInv
<1>7. CallsInv'
  BY <1>1, <1>5, <1>6 DEF CallsInv
<1>8. SendersInv'
  <2> SUFFICES ASSUME NEW r \in calls', r.from # None PROVE SenderInv(r)'
    BY DEF SendersInv, SenderInv
  <2>1. CASE r \in calls
    <3>1. SenderInv(r) /\ r.from \in Clients \ {x}
      BY <2>1, <1>3, <1>5 DEF IInv, SendersInv, Call
    <3> QED BY <3>1, <1>1, <1>2, <1>4 DEF SenderInv
  <2>2. CASE online /\ r = q
    BY <2>2, <1>1, <1>2, <1>4, <1>5 DEF SenderInv
  <2> QED BY <2>1, <2>2, <1>1
<1>9. AnswersInv'
  <2> SUFFICES ASSUME NEW y \in Clients, Expecting(y)', answer'[y].kind = "ok"
               PROVE  /\ applied'[Asked(y)'] > 0
                      /\ Action[Asked(y)'] = "start" => answer'[y].latest.id = "server"
    BY DEF AnswersInv, AnswerInv
  <2>1. y # x
    BY <1>4
  <2>2. Expecting(y) /\ Asked(y)' = Asked(y) /\ AnswerInv(y) /\ answer'[y] = answer[y]
    BY <2>1, <1>4 DEF IInv, AnswersInv
  <2>3. Asked(y) \in Commands
    BY <2>2, AskedIsMade
  <2> QED BY <2>2, <2>3 DEF AnswerInv, Grows
<1> QED BY <1>4, <1>7, <1>8, <1>9

\* A new command is the last of all, for the session the page shows.
LEMMA MadeKeeps ==
  ASSUME IInv, NEW p \in Pages, NEW c \in Commands, Unmade(c), NEW id \in Ids \ {"none"},
         NEW row \in Row, Enqueue(c, id, row),
         row.state = "pending", row.sid \in {"none", Server(id)}, row.sid = "none" => id = "local",
         Action[c] = "start" => id = "local", id = "local" => Action[c] = "start" \/ StartMade,
         page[p].at = "idle", NEW s \in PageState, page' = [page EXCEPT ![p] = s],
         s.at = "post" => s.cmd = c /\ (Action[c] # "start" => s.view.status \in Active),
         s.view.id = "local" => page[p].view.id = "local",
         \/ s.at = "idle" /\ UNCHANGED <<calls, answer>>
         \/ s.at = "post" /\ \E exp \in Nat : Send(p, c, id, exp),
         id = "local" /\ Action[c] # "start" => s.at = "idle",
         UNCHANGED <<online, srv, audit, applied, lease, loop, announced, told, postponed, events>>
  PROVE  IInv'
<1>a. /\ TypeOK /\ OrderInv /\ StartInv /\ QueueInv /\ EffectsInv /\ CallsInv /\ SendersInv
      /\ AnswersInv /\ PagesInv /\ LoopsInv
  BY DEF IInv
<1>1. queue' = [queue EXCEPT ![c] = row] /\ home' = [home EXCEPT ![c] = id]
      /\ order' = Append(order, c)
  BY DEF Enqueue
<1>2. /\ order' \in Seq(Commands) /\ OrderInv'
      /\ \A a : ~Before(c, a)'
      /\ \A a, b : b # c => (Before(a, b)' <=> Before(a, b))
      /\ \A S \in SUBSET Commands : S # {} /\ (\A a \in S : Made(a)) => First(S)' = First(S)
  BY <1>a, <1>1, NewOrder
<1>3. ~Made(c) /\ c \notin Queued
  BY <1>a DEF OrderInv, QueueInv, RowInv, Queued, Present
<1>4. /\ home' \in [Commands -> Ids] /\ home'[c] = id
      /\ \A b \in Commands : b # c => home'[b] = home[b]
      /\ queue' \in [Commands -> Row] /\ queue'[c] = row
      /\ \A b \in Commands : b # c => queue'[b] = queue[b]
      /\ page' \in [Pages -> PageState] /\ page'[p] = s
      /\ \A o \in Pages : o # p => page'[o] = page[o]
  BY <1>a, <1>1 DEF TypeOK
<1>5. Keeps
  BY <1>2, <1>3, <1>4 DEF Keeps, Made
<1>6. Grows
  BY DEF Grows
<1>7. Made(c)' /\ (Action[c] = "start" => Made(c)')
  BY <1>4 DEF Made
<1>8. \A b \in Commands : Made(b) => Made(b)' /\ home'[b] = home[b]
  BY <1>5, MadeStays
<1>9. StartInv'
  <2>1. \A b \in Commands : Action[b] = "start" => home'[b] \in {"none", "local"}
    BY <1>a, <1>4 DEF StartInv
  <2>2. StartMade => StartMade'
    BY <1>8 DEF StartMade
  <2>3. Action[c] = "start" => StartMade'
    BY <1>7 DEF StartMade
  <2>4. \A b \in Commands : home'[b] = "local" => StartMade'
    BY <1>a, <1>4, <2>2, <2>3 DEF StartInv
  <2>5. \A o \in Pages : page'[o].view.id = "local" => StartMade'
    BY <1>a, <1>4, <2>2 DEF StartInv
  <2>6. ASSUME NEW a \in Commands, NEW b \in Commands, Before(b, a)', home'[a] = "local",
               home'[b] = "local", Action[a] = "start"
        PROVE  FALSE
    <3>1. b # c
      BY <2>6, <1>2
    <3>2. CASE a # c
      BY <2>6, <3>1, <3>2, <1>2, <1>4, <1>a DEF StartInv
    <3>3. CASE a = c
      <4>1. StartMade
        BY <2>6, <3>1, <1>4, <1>a DEF StartInv
      <4>2. PICK t \in Commands : Action[t] = "start" /\ Made(t)
        BY <4>1 DEF StartMade
      <4> QED BY <4>2, <2>6, <3>3, <1>3, OneStartAssumption
    <3> QED BY <3>2, <3>3
  <2> QED BY <2>1, <2>4, <2>5, <2>6 DEF StartInv
<1>10. QueueInv'
  <2> SUFFICES ASSUME NEW b \in Commands PROVE RowInv(b, queue[b])'
    BY DEF QueueInv
  <2>1. CASE b = c
    BY <2>1, <1>4, <1>7 DEF RowInv
  <2>2. CASE b # c
    BY <2>2, <1>4, <1>a DEF QueueInv, RowInv, Made
  <2> QED BY <2>1, <2>2
<1>11. EffectsInv'
  <2> SUFFICES ASSUME NEW b \in Commands PROVE EffectInv(b)'
    BY DEF EffectsInv
  <2>1. EffectInv(b)
    BY <1>a DEF EffectsInv
  <2>2. CASE b = c
    <3>1. audit[c] = None
      BY <2>1, <2>2, <1>3 DEF EffectInv
    <3>2. c \in Queued'
      BY <1>4 DEF Queued, Present
    <3> QED BY <2>1, <2>2, <3>1, <3>2 DEF EffectInv
  <2>3. CASE b # c
    <3>1. (Made(b) \/ ~Made(b)') /\ (b \in Queued => b \in Queued')
      BY <2>3, <1>4 DEF Made, Queued, Present
    <3> QED BY <2>1, <3>1, <1>5, <1>6, EffectStays
  <2> QED BY <2>2, <2>3
<1>12. PagesInv'
  BY <1>a, <1>4, <1>7, <1>8 DEF PagesInv
<1>13. LoopsInv'
  BY <1>a, <1>5, <1>6, LoopStays DEF LoopsInv
<1>14. \A y \in Clients \ {p} : /\ Expecting(y)' = Expecting(y)
                                /\ Expecting(y) => Asked(y)' = Asked(y)
  <2>1. ASSUME NEW y \in Clients \ {p} PROVE Expecting(y)' = Expecting(y)
    BY <1>4 DEF Expecting
  <2> QED BY <2>1, <1>4, <1>5, AskedStays
<1>15. ~Expecting(p) /\ p \in Clients
  BY DEF Expecting, Clients
<1>16. /\ calls' \subseteq Call /\ answer' \in [Clients -> Answer]
       /\ CallsInv' /\ SendersInv' /\ AnswersInv'
  <2>1. CASE s.at = "post"
    <3>1. PICK exp \in Nat : Send(p, c, id, exp)
      BY <2>1
    <3>2. Expecting(p)' /\ Asked(p)' = c
      BY <2>1, <1>4 DEF Expecting, Asked
    <3>3. Action[c] # "start" => id # "local"
      BY <2>1
    <3> QED BY <3>1, <3>2, <3>3, <1>4, <1>5, <1>6, <1>7, <1>14, <1>15, SendKeeps
  <2>2. CASE s.at = "idle"
    <3>1. UNCHANGED <<calls, answer>>
      BY <2>2
    <3>2. ~Expecting(p)'
      BY <2>2, <1>4 DEF Expecting
    <3>3. calls' \subseteq Call /\ answer' \in [Clients -> Answer]
      BY <1>a, <3>1 DEF TypeOK
    <3>4. CallsInv'
      BY <1>a, <1>5, <1>6, <3>1, CallStays, VersionTypes DEF CallsInv, CallInv
    <3>5. SendersInv'
      <4> SUFFICES ASSUME NEW q \in calls, q.from # None PROVE SenderInv(q)'
        BY <3>1 DEF SendersInv, SenderInv
      <4>1. SenderInv(q) /\ q.from \in Clients
        BY <1>a DEF SendersInv, TypeOK, Call
      <4> QED BY <4>1, <3>1, <1>14, <1>15 DEF SenderInv
    <3>6. AnswersInv'
      BY <1>a, <1>14, <3>1, <3>2 DEF AnswersInv, AnswerInv
    <3> QED BY <3>3, <3>4, <3>5, <3>6
  <2> QED BY <2>1, <2>2
<1>17. TypeOK'
  BY <1>a, <1>2, <1>4, <1>16 DEF TypeOK, Todo, Present
<1> QED BY <1>2, <1>9, <1>10, <1>11, <1>12, <1>13, <1>16, <1>17 DEF IInv

LEMMA StartSessionKeeps ==
  ASSUME IInv, NEW p \in Pages, NEW c \in Commands, StartSession(p, c)
  PROVE  IInv'
<1> DEFINE row == [NoRow EXCEPT !.state = "pending"]
<1> DEFINE s == [page[p] EXCEPT !.at = "post", !.cmd = c]
<1>1. page \in [Pages -> PageState] /\ page[p] \in PageState
  BY DEF IInv, TypeOK
<1>2. row \in Row /\ row.state = "pending" /\ row.sid = "none"
  BY DEF Row, NoRow, ServerSession, NoSession
<1>3. s \in PageState /\ s.at = "post" /\ s.cmd = c /\ s.view = page[p].view
  BY <1>1 DEF PageState
<1>4. /\ Enqueue(c, "local", row) /\ Send(p, c, "local", 0) /\ Unmade(c) /\ Action[c] = "start"
      /\ page[p].at = "idle" /\ page' = [page EXCEPT ![p] = s]
      /\ UNCHANGED <<online, srv, audit, applied, lease, loop, announced, told, postponed, events>>
  BY <1>1 DEF StartSession, server
<1> HIDE DEF row, s
<1>5. "local" \in Ids \ {"none"} /\ 0 \in Nat
  BY DEF Ids
<1> QED BY <1>2, <1>3, <1>4, <1>5, MadeKeeps

LEMMA CommandKeeps ==
  ASSUME IInv, NEW p \in Pages, NEW c \in Commands, Command(p, c)
  PROVE  IInv'
<1>1. page \in [Pages -> PageState] /\ page[p] \in PageState
  BY DEF IInv, TypeOK
<1>2. PICK view \in Session : view = page[p].view
  BY <1>1 DEF PageState
<1> DEFINE row == [NoRow EXCEPT !.state = "pending", !.exp = view.ver,
                                !.sid = IF view.id = "local" THEN "none" ELSE view.id]
<1> DEFINE s == [page[p] EXCEPT !.at = "post", !.cmd = c]
<1>3. view.id \in ServerIds \cup {"local"} /\ view.ver \in Nat /\ view.status \in Active
  BY <1>2 DEF Command, Session, ServerSession, NoSession, Active
<1>4. row \in Row /\ row.state = "pending"
      /\ row.sid = (IF view.id = "local" THEN "none" ELSE view.id)
  BY <1>3 DEF Row, NoRow, ServerSession, NoSession
<1>5. s \in PageState /\ s.at = "post" /\ s.cmd = c /\ s.view = view
  BY <1>1, <1>2 DEF PageState
<1>6. /\ Enqueue(c, view.id, row) /\ Unmade(c) /\ Action[c] # "start" /\ page[p].at = "idle"
      /\ UNCHANGED <<online, srv, audit, applied, lease, loop, announced, told, postponed, events>>
  BY <1>1, <1>2 DEF Command, server
<1>7. view.id = "local" => /\ page' = [page EXCEPT ![p] = Shows(Projected(c, view))]
                           /\ UNCHANGED <<calls, answer>>
  BY <1>2 DEF Command
<1>8. view.id # "local" => page' = [page EXCEPT ![p] = s] /\ Send(p, c, view.id, view.ver)
  BY <1>1, <1>2 DEF Command
<1> HIDE DEF row, s
<1>9. view.id = "local" => StartMade
  BY <1>2 DEF IInv, StartInv
<1>10. view.id \in Ids \ {"none"} /\ row.sid \in {"none", Server(view.id)}
       /\ (row.sid = "none" => view.id = "local")
  BY <1>3, <1>4 DEF Ids, ServerIds, Server
<1>11. CASE view.id = "local"
  <2> DEFINE t == Shows(Projected(c, view))
  <2>1. Projected(c, view) \in Session
    BY <1>3, <1>11 DEF Projected, Session, Statuses, Active, After
  <2>2. t \in PageState /\ t.at = "idle" /\ t.view = Projected(c, view)
    BY <2>1 DEF Shows, PageState
  <2> HIDE DEF t
  <2>3. page' = [page EXCEPT ![p] = t]
    BY <1>7, <1>11 DEF t
  <2> QED BY <2>2, <2>3, <1>2, <1>4, <1>6, <1>7, <1>9, <1>10, <1>11, MadeKeeps
<1>12. CASE view.id # "local"
  BY <1>12, <1>2, <1>3, <1>4, <1>5, <1>6, <1>8, <1>10, MadeKeeps
<1> QED BY <1>11, <1>12

-----------------------------------------------------------------------------
(* The page and what has become of its commands                            *)

\* A page that ends its waiting, or did not wait, leaves the requests alone; what
\* it takes out of the queue took effect or is told to the user.
LEMMA PageKeeps ==
  ASSUME IInv, NEW p \in Pages, NEW s \in PageState, page' = [page EXCEPT ![p] = s],
         s.at = "idle", s.view.id = "local" => StartMade, PageFrame,
         queue' \in [Commands -> Row],
         \A c \in Commands : queue'[c].state # "absent" =>
                                queue[c].state # "absent" /\ queue'[c].sid = queue[c].sid,
         told \subseteq told', told' \subseteq Commands,
         \A c \in Queued : queue'[c].state = "absent" => c \in told' \/ applied[c] > 0,
         \/ page[p].at = "idle" /\ UNCHANGED answer
         \/ Answered(p, Answers \ {"none"}) /\ Taken(p)
  PROVE  IInv'
<1>a. /\ TypeOK /\ OrderInv /\ StartInv /\ QueueInv /\ EffectsInv /\ CallsInv /\ SendersInv
      /\ AnswersInv /\ PagesInv /\ LoopsInv
  BY DEF IInv
<1>1. /\ UNCHANGED <<online, srv, audit, applied, home, order, lease, calls, loop, announced>>
      /\ UNCHANGED events
      /\ postponed' = postponed \cup {c \in Commands : queue'[c].state = "deferred"}
  BY DEF PageFrame, server
<1>2. /\ page' \in [Pages -> PageState] /\ page'[p] = s
      /\ \A o \in Pages : o # p => page'[o] = page[o]
  BY <1>a DEF TypeOK
<1>3. Grows /\ Keeps
  BY <1>1, SameKeeps DEF Grows
<1>4. OrderInv'
  BY <1>a, <1>1, SameOrder DEF OrderInv, Made
<1>5. StartInv'
  <2>1. StartMade' <=> StartMade
    BY <1>1 DEF StartMade, Made
  <2>2. \A o \in Pages : page'[o].view.id = "local" => StartMade
    BY <1>a, <1>2 DEF StartInv
  <2> QED BY <1>a, <1>1, <2>1, <2>2, SameOrder DEF StartInv
<1>6. QueueInv'
  <2> SUFFICES ASSUME NEW c \in Commands PROVE RowInv(c, queue[c])'
    BY DEF QueueInv
  <2>1. RowInv(c, queue[c])
    BY <1>a DEF QueueInv
  <2> QED BY <2>1, <1>1 DEF RowInv, Made
<1>7. EffectsInv'
  <2> SUFFICES ASSUME NEW c \in Commands PROVE EffectInv(c)'
    BY DEF EffectsInv
  <2>1. EffectInv(c)
    BY <1>a DEF EffectsInv
  <2>2. Made(c) => c \in Queued' \cup told' \/ applied[c] > 0
    BY <2>1 DEF EffectInv, Queued, Present
  <2>3. (home[c] = "local" /\ Action[c] # "start" /\ audit[c] # None => Clear(c))'
    BY <2>1, <1>1, <1>3, ClearStays DEF EffectInv
  <2> QED BY <2>1, <2>2, <2>3, <1>1 DEF EffectInv, Made
<1>8. PagesInv'
  BY <1>a, <1>1, <1>2 DEF PagesInv, Made
<1>9. LoopsInv'
  BY <1>a, <1>1, <1>3, LoopStays DEF LoopsInv
<1>10. CallsInv'
  BY <1>a, <1>1, <1>3, CallStays, VersionTypes DEF CallsInv, CallInv
<1>11. \A x \in Clients \ {p} : /\ Expecting(x)' = Expecting(x)
                                /\ Expecting(x) => Asked(x)' = Asked(x)
  <2>1. ASSUME NEW x \in Clients \ {p} PROVE Expecting(x)' = Expecting(x)
    BY <1>1, <1>2 DEF Expecting
  <2> QED BY <2>1, <1>1, <1>2, <1>3, AskedStays
<1>12. ~Expecting(p)'
  BY <1>2 DEF Expecting
<1>13. /\ answer' \in [Clients -> Answer]
       /\ \A x \in Clients \ {p} : answer'[x] = answer[x]
  <2>1. CASE UNCHANGED answer
    BY <1>a, <2>1 DEF TypeOK
  <2>2. CASE Taken(p)
    <3>1. answer' = [answer EXCEPT ![p] = NoAnswer] /\ NoAnswer \in Answer
      BY <2>2 DEF Taken, NoAnswer, Answer, Answers, ServerSession
    <3> QED BY <1>a, <3>1 DEF TypeOK
  <2> QED BY <2>1, <2>2
<1>14. ASSUME NEW q \in calls PROVE q.from # p
  <2>1. SenderInv(q) /\ p # None
    BY <1>a, NoneAssumption DEF SendersInv, Clients
  <2>2. ~(Expecting(p) /\ answer[p].kind = "none")
    BY DEF Expecting, Answered
  <2> QED BY <2>1, <2>2 DEF SenderInv
<1>15. SendersInv'
  <2> SUFFICES ASSUME NEW q \in calls, q.from # None PROVE SenderInv(q)'
    BY <1>1 DEF SendersInv, SenderInv
  <2>1. SenderInv(q) /\ q.from \in Clients \ {p}
    BY <1>a, <1>14 DEF SendersInv, TypeOK, Call
  <2> QED BY <2>1, <1>1, <1>11, <1>13 DEF SenderInv
<1>16. AnswersInv'
  BY <1>a, <1>1, <1>11, <1>12, <1>13 DEF AnswersInv, AnswerInv
<1>17. TypeOK'
  BY <1>a, <1>1, <1>2, <1>13 DEF TypeOK, Todo, Present
<1> QED BY <1>4, <1>5, <1>6, <1>7, <1>8, <1>9, <1>10, <1>15, <1>16, <1>17 DEF IInv

LEMMA ShowsType ==
  ASSUME NEW view \in Session
  PROVE  Shows(view) \in PageState /\ Shows(view).at = "idle" /\ Shows(view).view = view
BY DEF Shows, PageState

\* A page shows sessions of the server unless it shows the local one.
LEMMA ViewTypes ==
  ASSUME TypeOK, NEW p \in Pages
  PROVE  /\ page[p] \in PageState /\ page[p].view \in Session
         /\ answer[p].latest \in ServerSession /\ p \in Clients /\ answer[p].kind \in Answers
         /\ announced \in ServerSession
         /\ \A v \in ServerSession : v \in Session /\ v.id # "local"
BY DEF TypeOK, PageState, Answer, Clients, Session, ServerSession, NoSession, ServerIds

\* A record that is removed is absent.
LEMMA RemovedRows ==
  ASSUME TypeOK, NEW S \in SUBSET Commands,
         queue' = [c \in Commands |-> IF c \in S THEN NoRow ELSE queue[c]]
  PROVE  /\ queue' \in [Commands -> Row]
         /\ \A c \in S : queue'[c].state = "absent"
         /\ \A c \in Commands \ S : queue'[c] = queue[c]
<1>1. NoRow \in Row /\ NoRow.state = "absent"
  BY DEF Row, NoRow, ServerSession
<1> QED BY <1>1 DEF TypeOK

LEMMA PageAppliedKeeps ==
  ASSUME IInv, NEW p \in Pages, PageApplied(p)
  PROVE  IInv'
<1>a. TypeOK /\ p \in Clients
  BY DEF IInv, Clients
<1> DEFINE c == page[p].cmd
<1> DEFINE s == Shows(answer[p].latest)
<1>1. /\ Answered(p, {"ok"}) /\ queue' = [queue EXCEPT ![c] = NoRow] /\ told' = told
      /\ page' = [page EXCEPT ![p] = s] /\ PageFrame /\ Taken(p)
  BY DEF PageApplied, Removed
<1>2. s \in PageState /\ s.at = "idle" /\ s.view.id # "local"
  BY <1>a, ViewTypes, ShowsType
<1>3. c \in Commands /\ applied[c] > 0
  BY <1>1, <1>a DEF Answered, IInv, PagesInv, AnswersInv, AnswerInv, Asked, Expecting
<1> HIDE DEF c, s
<1>4. NoRow \in Row /\ NoRow.state = "absent"
  BY DEF Row, NoRow, ServerSession
<1>5. queue' \in [Commands -> Row] /\ (\A d \in Commands : d # c => queue'[d] = queue[d])
      /\ queue'[c].state = "absent"
  BY <1>a, <1>1, <1>3, <1>4 DEF TypeOK
<1>6. Answered(p, Answers \ {"none"}) /\ told' \subseteq Commands
  BY <1>a, <1>1 DEF Answered, Answers, TypeOK
<1>7. \A d \in Commands : queue'[d].state # "absent" =>
                             queue[d].state # "absent" /\ queue'[d].sid = queue[d].sid
  BY <1>5
<1>8. \A d \in Queued : queue'[d].state = "absent" => d \in told' \/ applied[d] > 0
  BY <1>3, <1>5 DEF Queued, Present
<1> QED BY <1>1, <1>2, <1>5, <1>6, <1>7, <1>8, PageKeeps

LEMMA PageRefusedKeeps ==
  ASSUME IInv, NEW p \in Pages, PageRefused(p)
  PROVE  IInv'
<1>a. TypeOK /\ p \in Clients
  BY DEF IInv, Clients
<1> DEFINE c == page[p].cmd
<1>1. PICK view \in {page[p].view} \cup ({answer[p].latest} \ {NoSession}) :
         page' = [page EXCEPT ![p] = Shows(view)]
  BY DEF PageRefused
<1>2. /\ Answered(p, {"refused", "conflict"}) /\ queue' = [queue EXCEPT ![c] = NoRow]
      /\ told' = told \cup {c} /\ PageFrame /\ Taken(p)
  BY DEF PageRefused, Removed, Answered
<1>3. view \in Session /\ (view.id = "local" => StartMade)
  BY <1>a, ViewTypes DEF IInv, StartInv
<1>4. /\ Shows(view) \in PageState /\ Shows(view).at = "idle"
      /\ Shows(view).view.id = "local" => StartMade
  BY <1>3, ShowsType
<1>5. c \in Commands
  BY <1>2 DEF Answered, IInv, PagesInv
<1> HIDE DEF c
<1>6. NoRow \in Row /\ NoRow.state = "absent"
  BY DEF Row, NoRow, ServerSession
<1>7. queue' \in [Commands -> Row] /\ (\A d \in Commands : d # c => queue'[d] = queue[d])
      /\ queue'[c].state = "absent"
  BY <1>a, <1>2, <1>5, <1>6 DEF TypeOK
<1>8. Answered(p, Answers \ {"none"}) /\ told' \subseteq Commands /\ c \in told'
      /\ told \subseteq told'
  BY <1>a, <1>2, <1>5 DEF Answered, Answers, TypeOK
<1>9. \A d \in Commands : queue'[d].state # "absent" =>
                             queue[d].state # "absent" /\ queue'[d].sid = queue[d].sid
  BY <1>7
<1>10. \A d \in Queued : queue'[d].state = "absent" => d \in told' \/ applied[d] > 0
  BY <1>7, <1>8 DEF Queued, Present
<1> QED BY <1>1, <1>2, <1>4, <1>7, <1>8, <1>9, <1>10, PageKeeps

\* Only a page whose start was made shows the local session.
LEMMA LocalSessionType ==
  /\ LocalSession \in Session
  /\ \A p \in Pages : IInv /\ page[p].at = "post" /\ Action[page[p].cmd] = "start" => StartMade
<1>1. LocalSession \in Session
  BY DEF LocalSession, Session, Statuses, Active
<1>2. ASSUME NEW p \in Pages, IInv, page[p].at = "post", Action[page[p].cmd] = "start"
      PROVE  StartMade
  BY <1>2 DEF IInv, PagesInv, StartMade
<1> QED BY <1>1, <1>2

LEMMA PageMeetsActiveKeeps ==
  ASSUME IInv, NEW p \in Pages, PageMeetsActive(p)
  PROVE  IInv'
<1>a. TypeOK /\ p \in Clients
  BY DEF IInv, Clients
<1>1. /\ Answered(p, {"conflict"}) /\ Action[page[p].cmd] = "start"
      /\ PageFrame /\ Taken(p) /\ page[p].at = "post"
  BY DEF PageMeetsActive, Answered
<1>2. Answered(p, Answers \ {"none"})
  BY <1>1 DEF Answered, Answers
<1>3. \A d \in Queued : d \in Commands
  BY DEF Queued, Present
<1>4. CASE UNCHANGED <<queue, told>> /\ page' = [page EXCEPT ![p] = Shows(LocalSession)]
  <2>1. /\ Shows(LocalSession) \in PageState /\ Shows(LocalSession).at = "idle"
        /\ Shows(LocalSession).view.id = "local" => StartMade
    BY <1>1, LocalSessionType, ShowsType
  <2>2. /\ queue' \in [Commands -> Row] /\ told' \subseteq Commands
        /\ \A d \in Queued : queue'[d].state # "absent"
    BY <1>a, <1>4 DEF TypeOK, Queued, Present
  <2> QED BY <1>1, <1>2, <1>3, <1>4, <2>1, <2>2, PageKeeps
<1>5. CASE /\ queue' = [c \in Commands |-> IF home[c] = "local" THEN NoRow ELSE queue[c]]
           /\ told' = told \cup {c \in Queued : home[c] = "local"}
           /\ page' = [page EXCEPT ![p] = Shows(answer[p].latest)]
  <2> DEFINE S == {c \in Commands : home[c] = "local"}
  <2>1. /\ Shows(answer[p].latest) \in PageState /\ Shows(answer[p].latest).at = "idle"
        /\ Shows(answer[p].latest).view.id # "local"
    BY <1>a, ViewTypes, ShowsType
  <2>2. queue' = [c \in Commands |-> IF c \in S THEN NoRow ELSE queue[c]]
    BY <1>5
  <2>3. told' = told \cup (Queued \cap S) /\ told' \subseteq Commands
    BY <1>a, <1>3, <1>5 DEF TypeOK
  <2>4. S \in SUBSET Commands
    OBVIOUS
  <2> HIDE DEF S
  <2>5. /\ queue' \in [Commands -> Row]
        /\ \A c \in S : queue'[c].state = "absent"
        /\ \A c \in Commands \ S : queue'[c] = queue[c]
    BY <1>a, <2>2, <2>4, RemovedRows
  <2>6. \A c \in Queued : queue[c].state # "absent"
    BY DEF Queued, Present
  <2> QED BY <1>1, <1>2, <1>3, <1>5, <2>1, <2>3, <2>4, <2>5, <2>6, PageKeeps
<1> QED BY <1>4, <1>5 DEF PageMeetsActive

LEMMA PageUnansweredKeeps ==
  ASSUME IInv, NEW p \in Pages, PageUnanswered(p)
  PROVE  IInv'
<1>a. TypeOK
  BY DEF IInv
<1>1. /\ Answered(p, {"failed", "lost"}) /\ PageFrame /\ Taken(p) /\ page[p].at = "post"
      /\ page' = [page EXCEPT ![p] = Shows(Postponed(p))] /\ UNCHANGED <<queue, told>>
  BY DEF PageUnanswered, Answered
<1>2. Answered(p, Answers \ {"none"})
  BY <1>1 DEF Answered, Answers
<1>3. Postponed(p) \in Session /\ (Postponed(p).id = "local" => StartMade)
  <2>1. CASE Action[page[p].cmd] = "start"
    BY <2>1, <1>1, LocalSessionType DEF Postponed
  <2>2. CASE Action[page[p].cmd] # "start"
    <3>1. /\ Postponed(p) = Projected(page[p].cmd, page[p].view)
          /\ page[p].view \in Session /\ page[p].view.status \in Active
      BY <2>2, <1>a, <1>1, ViewTypes DEF Postponed, IInv, PagesInv
    <3>2. page[p].view.id \in ServerIds \cup {"local"}
      BY <3>1 DEF Session, ServerSession, NoSession, Active
    <3> QED BY <3>1, <3>2 DEF Projected, Session, ServerSession, Statuses, Active, After, IInv,
                              StartInv
  <2> QED BY <2>1, <2>2
<1>4. /\ Shows(Postponed(p)) \in PageState /\ Shows(Postponed(p)).at = "idle"
      /\ Shows(Postponed(p)).view.id = "local" => StartMade
  BY <1>3, ShowsType
<1>5. /\ queue' \in [Commands -> Row] /\ told' \subseteq Commands
      /\ \A d \in Queued : queue'[d].state # "absent"
  BY <1>a, <1>1 DEF TypeOK, Queued, Present
<1> QED BY <1>1, <1>2, <1>4, <1>5, PageKeeps


\* A record of another state is for the same session.
LEMMA StateRow ==
  ASSUME NEW row \in Row, NEW state \in {"absent", "pending", "blocked", "deferred"}
  PROVE  /\ [row EXCEPT !.state = state] \in Row
         /\ [row EXCEPT !.state = state].state = state
         /\ [row EXCEPT !.state = state].sid = row.sid
BY DEF Row

\* A page may stay as it is.
LEMMA SamePage ==
  ASSUME TypeOK, NEW p \in Pages
  PROVE  page = [page EXCEPT ![p] = page[p]]
BY DEF TypeOK

LEMMA PageLoggedOutKeeps ==
  ASSUME IInv, NEW p \in Pages, PageLoggedOut(p)
  PROVE  IInv'
<1>a. TypeOK
  BY DEF IInv
<1> DEFINE c == page[p].cmd
<1>1. /\ Answered(p, {"unauthorized"}) /\ PageFrame /\ Taken(p) /\ told' = told
      /\ page' = [page EXCEPT ![p] = Shows(page[p].view)]
      /\ queue' = IF Action[c] = "start" /\ c \in Queued
                  THEN [queue EXCEPT ![c].state = "deferred"] ELSE queue
  BY DEF PageLoggedOut
<1>2. Answered(p, Answers \ {"none"}) /\ told' \subseteq Commands
  BY <1>a, <1>1 DEF Answered, Answers, TypeOK
<1>3. /\ Shows(page[p].view) \in PageState /\ Shows(page[p].view).at = "idle"
      /\ Shows(page[p].view).view.id = "local" => StartMade
  BY <1>a, ViewTypes, ShowsType DEF IInv, StartInv
<1>4. /\ queue' \in [Commands -> Row]
      /\ \A d \in Commands : queue'[d].state # "absent" =>
                                queue[d].state # "absent" /\ queue'[d].sid = queue[d].sid
      /\ \A d \in Queued : queue'[d].state = "absent" => d \in told' \/ applied[d] > 0
  <2>1. CASE UNCHANGED queue
    BY <1>a, <2>1 DEF TypeOK, Queued, Present
  <2>2. CASE c \in Queued /\ queue' = [queue EXCEPT ![c].state = "deferred"]
    <3>1. c \in Commands /\ queue[c] \in Row /\ queue[c].state # "absent"
      BY <1>a, <2>2 DEF Queued, Present, TypeOK
    <3>2. PICK row \in Row : /\ queue' = [queue EXCEPT ![c] = row]
                             /\ row.state = "deferred" /\ row.sid = queue[c].sid
      BY ZenonT(30), <2>2, <3>1, StateRow
    <3> HIDE DEF c
    <3>3. /\ queue' \in [Commands -> Row] /\ queue'[c] = row
          /\ \A d \in Commands : d # c => queue'[d] = queue[d]
      BY <1>a, <3>1, <3>2 DEF TypeOK
    <3> QED BY <3>1, <3>2, <3>3 DEF Queued, Present
  <2> QED BY <1>1, <2>1, <2>2
<1> QED BY <1>1, <1>2, <1>3, <1>4, PageKeeps

\* A page that shows another session leaves the queue alone.
LEMMA ShowKeeps ==
  ASSUME IInv, NEW p \in Pages, page[p].at = "idle", PageStep, UNCHANGED <<queue, told>>,
         NEW view \in ServerSession, page' = [page EXCEPT ![p] = Shows(view)]
  PROVE  IInv'
<1>a. TypeOK
  BY DEF IInv
<1>1. PageFrame /\ UNCHANGED answer
  BY DEF PageStep
<1>2. Shows(view) \in PageState /\ Shows(view).at = "idle" /\ Shows(view).view.id # "local"
  BY <1>a, ViewTypes, ShowsType
<1>3. /\ queue' \in [Commands -> Row] /\ told' \subseteq Commands
      /\ \A d \in Queued : queue'[d].state # "absent"
  BY <1>a DEF TypeOK, Queued, Present
<1> QED BY <1>1, <1>2, <1>3, PageKeeps

LEMMA RefreshKeeps ==
  ASSUME IInv, NEW p \in Pages, Refresh(p) \/ Hear(p)
  PROVE  IInv'
<1>1. TypeOK
  BY DEF IInv
<1>2. ActiveSession \in ServerSession
  BY <1>1, CurrentType
<1>3. announced \in ServerSession
  BY <1>1 DEF TypeOK
<1> QED BY <1>2, <1>3, ShowKeeps DEF Refresh, Hear

\* The user decides about all commands of one session.
LEMMA ResolveKeeps ==
  ASSUME IInv, NEW p \in Pages, NEW c \in Commands, Resolve(p, c)
  PROVE  IInv'
<1>a. TypeOK
  BY DEF IInv
<1>1. /\ page[p].at = "idle" /\ PageFrame /\ UNCHANGED answer
      /\ queue' = [d \in Commands |-> IF d \in Related(c) THEN NoRow ELSE queue[d]]
      /\ told' = told \cup Related(c)
      /\ page' = IF queue[c].conflict = NoSession THEN page
                 ELSE [page EXCEPT ![p] = Shows(queue[c].conflict)]
  BY DEF Resolve, PageStep
<1>2. Related(c) \in SUBSET Commands
  BY DEF Related, Queued, Present
<1>3. /\ queue' \in [Commands -> Row]
      /\ \A d \in Related(c) : queue'[d].state = "absent"
      /\ \A d \in Commands \ Related(c) : queue'[d] = queue[d]
  BY <1>a, <1>1, <1>2, RemovedRows
<1>4. /\ \A d \in Commands : queue'[d].state # "absent" =>
                                queue[d].state # "absent" /\ queue'[d].sid = queue[d].sid
      /\ told \subseteq told' /\ told' \subseteq Commands
  BY <1>a, <1>1, <1>2, <1>3 DEF TypeOK
<1>5. \A d \in Queued : queue'[d].state = "absent" => d \in told' \/ applied[d] > 0
  BY <1>1, <1>3 DEF Queued, Present
<1>6. PICK s \in PageState : /\ page' = [page EXCEPT ![p] = s] /\ s.at = "idle"
                             /\ s.view.id = "local" => StartMade
  <2>1. CASE page' = page
    BY <2>1, <1>a, <1>1, SamePage, ViewTypes DEF IInv, StartInv
  <2>2. CASE page' = [page EXCEPT ![p] = Shows(queue[c].conflict)]
    <3>1. queue[c].conflict \in ServerSession
      BY <1>a DEF TypeOK, Row
    <3> QED BY ZenonT(30), <2>2, <3>1, <1>a, ViewTypes, ShowsType
  <2> QED BY <1>1, <2>1, <2>2
<1> QED BY <1>1, <1>3, <1>4, <1>5, <1>6, PageKeeps

\* The user puts commands off, or takes them up again: none is removed.
LEMMA RestateKeeps ==
  ASSUME IInv, NEW p \in Pages, page[p].at = "idle", PageStep, UNCHANGED <<page, told>>,
         NEW S \in SUBSET Queued, NEW state \in {"pending", "deferred"},
         queue' = [d \in Commands |-> IF d \in S THEN [queue[d] EXCEPT !.state = state]
                                      ELSE queue[d]]
  PROVE  IInv'
<1>a. TypeOK
  BY DEF IInv
<1>1. PageFrame /\ UNCHANGED answer
  BY DEF PageStep
<1>2. /\ page[p] \in PageState /\ (page[p].view.id = "local" => StartMade)
      /\ page' = [page EXCEPT ![p] = page[p]]
  BY <1>a, SamePage, ViewTypes DEF IInv, StartInv
<1>3. ASSUME NEW d \in Commands
      PROVE  /\ queue'[d] \in Row /\ queue'[d].sid = queue[d].sid
             /\ queue'[d].state # "absent" <=> queue[d].state # "absent"
  <2>1. queue[d] \in Row
    BY <1>a DEF TypeOK
  <2>2. CASE d \in S
    <3>1. queue'[d] = [queue[d] EXCEPT !.state = state]
      BY <2>2
    <3>2. queue[d].state # "absent"
      BY <2>2 DEF Queued, Present
    <3>3. state \in {"absent", "pending", "blocked", "deferred"} /\ state # "absent"
      OBVIOUS
    <3>4. PICK row : row = [queue[d] EXCEPT !.state = state]
      OBVIOUS
    <3>5. row \in Row /\ row.state = state /\ row.sid = queue[d].sid
      BY <2>1, <3>3, <3>4, StateRow
    <3> QED BY <3>1, <3>2, <3>3, <3>4, <3>5
  <2>3. CASE d \notin S
    BY <2>1, <2>3
  <2> QED BY <2>2, <2>3
<1>4. queue' \in [Commands -> Row] /\ told' \subseteq Commands
  BY <1>a, <1>3 DEF TypeOK
<1>5. \A d \in Queued : queue'[d].state = "absent" => d \in told' \/ applied[d] > 0
  BY <1>3 DEF Queued, Present
<1> QED BY <1>1, <1>2, <1>3, <1>4, <1>5, PageKeeps

LEMMA DeferKeeps ==
  ASSUME IInv, NEW p \in Pages, NEW c \in Commands, Defer(p, c) \/ Retry(p, c)
  PROVE  IInv'
<1>1. Related(c) \in SUBSET Queued
  BY DEF Related
<1>2. CASE Defer(p, c)
  BY <1>1, <1>2, RestateKeeps DEF Defer
<1>3. CASE Retry(p, c)
  <2> DEFINE S == {d \in Related(c) : queue[d].state = "deferred"}
  <2>1. S \in SUBSET Queued
    BY <1>1
  <2>2. queue' = [d \in Commands |-> IF d \in S THEN [queue[d] EXCEPT !.state = "pending"]
                                     ELSE queue[d]]
    BY <1>3 DEF Retry
  <2>3. page[p].at = "idle" /\ PageStep /\ UNCHANGED <<page, told>>
    BY <1>3 DEF Retry
  <2> HIDE DEF S
  <2> QED BY <2>1, <2>2, <2>3, RestateKeeps
<1> QED BY <1>2, <1>3

-----------------------------------------------------------------------------
(* The sync loop                                                           *)

\* What the invariant says of the state of one loop.
Sound(s) ==
    /\ s.at \in {"get", "put"} <=> s.patches # {}
    /\ s.at = "put" => s.row.state # "absent" /\ RowInv(First(s.patches), s.row)
    /\ s.at \in {"get", "put", "send", "wait", "drop"} => Present(s.todo) # {}
    /\ \A c \in Commands : RowInv(c, s.todo[c])
    /\ \A c \in Present(s.todo), d \in Commands :
         Before(d, c) => d \in Present(s.todo) \/ Settled(d)
    /\ \A c \in s.patches : /\ Made(c)
                            /\ s.patch.kind = "remap" =>
                                 home[c] = "local" /\ s.patch.latest.id = "server"
    /\ s.at = "drop" \/ (s.patches # {} /\ s.then = "drop") =>
         applied[First(Present(s.todo))] > 0

LEMMA LoopIsSound ==
  ASSUME IInv, NEW l \in Loops
  PROVE  /\ loop[l] \in LoopState /\ Sound(loop[l])
         /\ Todo(l) # {} => /\ Item(l) \in Todo(l) /\ Item(l) \in Commands /\ Made(Item(l))
                            /\ \A d \in Todo(l) \ {Item(l)} : Before(Item(l), d)
         /\ loop[l].patches # {} =>
              Patching(l) \in loop[l].patches /\ Patching(l) \in Commands
<1>1. TypeOK /\ OrderInv /\ LoopInv(l)
  BY DEF IInv, LoopsInv
<1>2. loop[l] \in LoopState /\ loop[l].patches \in SUBSET Commands
  BY <1>1 DEF TypeOK, LoopState
<1>3. Sound(loop[l])
  BY <1>1 DEF Sound, LoopInv, TypeOK, Todo, Item, Patching
<1>4. Todo(l) # {} => /\ Item(l) \in Todo(l) /\ Item(l) \in Commands /\ Made(Item(l))
                      /\ \A d \in Todo(l) \ {Item(l)} : Before(Item(l), d)
  BY <1>1, ItemIsListed DEF LoopInv
<1>5. loop[l].patches # {} => Patching(l) \in loop[l].patches /\ Patching(l) \in Commands
  BY <1>1, <1>2, FirstIsFirst DEF LoopInv, Patching
<1> QED BY <1>2, <1>3, <1>4, <1>5

\* A loop that goes on soundly and takes nothing out of the queue but what took
\* effect keeps the invariant, when it keeps what is said of requests and answers.
LEMMA LoopKeeps ==
  ASSUME IInv, NEW l \in Loops, NEW s \in LoopState, Sound(s), loop' = [loop EXCEPT ![l] = s],
         UNCHANGED <<online, srv, audit, applied, home, order, page, told, postponed>>,
         events' \in Nat, lease' \in Loops \cup {None}, announced' \in ServerSession,
         queue' \in [Commands -> Row], \A c \in Commands : RowInv(c, queue'[c]),
         \A c \in Queued : queue'[c].state = "absent" => applied[c] > 0,
         calls' \subseteq Call, answer' \in [Clients -> Answer],
         CallsInv', SendersInv', AnswersInv'
  PROVE  IInv'
<1>a. /\ TypeOK /\ OrderInv /\ StartInv /\ EffectsInv /\ PagesInv /\ LoopsInv
  BY DEF IInv
<1>1. /\ loop' \in [Loops -> LoopState] /\ loop'[l] = s
      /\ \A k \in Loops : k # l => loop'[k] = loop[k]
  BY <1>a DEF TypeOK
<1>2. Grows /\ Keeps
  BY SameKeeps DEF Grows
<1>3. OrderInv' /\ StartInv' /\ PagesInv'
  BY <1>a, OrderStays
<1>4. QueueInv'
  BY DEF QueueInv, RowInv, Made
<1>5. EffectsInv'
  <2> SUFFICES ASSUME NEW c \in Commands PROVE EffectInv(c)'
    BY DEF EffectsInv
  <2>1. EffectInv(c)
    BY <1>a DEF EffectsInv
  <2>2. Made(c) => c \in Queued' \cup told \/ applied[c] > 0
    BY <2>1 DEF EffectInv, Queued, Present
  <2>3. (home[c] = "local" /\ Action[c] # "start" /\ audit[c] # None => Clear(c))'
    BY <2>1, <1>2, ClearStays DEF EffectInv
  <2> QED BY <2>1, <2>2, <2>3 DEF EffectInv, Made
<1>6. LoopInv(l)'
  <2>1. \A d \in Commands : Settled(d)' <=> Settled(d)
    BY DEF Settled
  <2> QED BY <2>1, <1>1, SameOrder DEF LoopInv, Sound, RowInv, Made, Todo, Item, Patching
<1>7. LoopsInv'
  BY <1>a, <1>1, <1>2, <1>6, LoopStays DEF LoopsInv
<1>8. \A k \in Loops :
         /\ (loop'[k].at \in {"get", "put"} <=> loop'[k].patches # {})
         /\ (loop'[k].at = "put" => loop'[k].row.state # "absent")
         /\ (loop'[k].at \in {"get", "put", "send", "wait", "drop"} => Todo(k)' # {})
  BY <1>a, <1>1 DEF TypeOK, Sound, Todo, Present
<1>9. TypeOK'
  BY <1>a, <1>1, <1>8 DEF TypeOK
<1> QED BY <1>3, <1>4, <1>5, <1>7, <1>9 DEF IInv

\* Most steps of a loop send nothing; a loop that has its answer takes it.
LEMMA QuietLoopKeeps ==
  ASSUME IInv, NEW l \in Loops, NEW s \in LoopState, Sound(s), loop' = [loop EXCEPT ![l] = s],
         s.at # "wait", LoopStep, UNCHANGED calls,
         lease' \in Loops \cup {None}, announced' \in ServerSession,
         queue' \in [Commands -> Row], \A c \in Commands : RowInv(c, queue'[c]),
         \A c \in Queued : queue'[c].state = "absent" => applied[c] > 0,
         \/ loop[l].at # "wait" /\ UNCHANGED answer
         \/ Heard(l, Answers \ {"none"}) /\ Taken(l)
  PROVE  IInv'
<1>a. /\ TypeOK /\ CallsInv /\ SendersInv /\ AnswersInv
  BY DEF IInv
<1>1. /\ UNCHANGED <<online, srv, audit, applied, home, order, page, told, postponed>>
      /\ events' \in Nat
  BY <1>a DEF LoopStep, server, user, TypeOK
<1>2. loop'[l] = s /\ (\A k \in Loops : k # l => loop'[k] = loop[k])
  BY <1>a DEF TypeOK
<1>3. Grows /\ Keeps
  BY <1>1, SameKeeps DEF Grows
<1>4. l \in Clients /\ l \notin Pages /\ l # None
  BY ClientsAssumption, NoneAssumption DEF Clients
<1>5. \A x \in Clients \ {l} : /\ Expecting(x)' = Expecting(x)
                               /\ Expecting(x) => Asked(x)' = Asked(x)
  <2>1. ASSUME NEW x \in Clients \ {l} PROVE Expecting(x)' = Expecting(x)
    BY <1>1, <1>2 DEF Expecting, Clients
  <2>2. ASSUME NEW x \in Clients \ {l}
        PROVE  (x \in Pages => page'[x] = page[x]) /\ (x \notin Pages => loop'[x] = loop[x])
    BY <1>1, <1>2 DEF Clients
  <2> QED BY <2>1, <2>2, <1>3, AskedStays
<1>6. ~Expecting(l)'
  BY <1>2, <1>4 DEF Expecting
<1>7. /\ answer' \in [Clients -> Answer]
      /\ \A x \in Clients \ {l} : answer'[x] = answer[x]
  <2>1. CASE UNCHANGED answer
    BY <1>a, <2>1 DEF TypeOK
  <2>2. CASE Taken(l)
    <3>1. answer' = [answer EXCEPT ![l] = NoAnswer] /\ NoAnswer \in Answer
      BY <2>2 DEF Taken, NoAnswer, Answer, Answers, ServerSession
    <3> QED BY <1>a, <3>1 DEF TypeOK
  <2> QED BY <2>1, <2>2
<1>8. ASSUME NEW q \in calls PROVE q.from # l
  <2>1. SenderInv(q)
    BY <1>a DEF SendersInv
  <2>2. ~(Expecting(l) /\ answer[l].kind = "none")
    BY <1>4 DEF Expecting, Heard
  <2> QED BY <2>1, <2>2, <1>4 DEF SenderInv
<1>9. CallsInv'
  BY <1>a, <1>1, <1>3, CallStays, VersionTypes DEF CallsInv, CallInv
<1>10. SendersInv'
  <2> SUFFICES ASSUME NEW q \in calls, q.from # None PROVE SenderInv(q)'
    BY DEF SendersInv, SenderInv
  <2>1. SenderInv(q) /\ q.from \in Clients \ {l}
    BY <1>a, <1>8 DEF SendersInv, TypeOK, Call
  <2> QED BY <2>1, <1>5, <1>7 DEF SenderInv
<1>11. AnswersInv'
  BY <1>a, <1>1, <1>5, <1>6, <1>7 DEF AnswersInv, AnswerInv
<1>12. calls' \subseteq Call
  BY <1>a DEF TypeOK
<1> QED BY <1>1, <1>7, <1>9, <1>10, <1>11, <1>12, LoopKeeps

\* The queue as it is contains nothing unsound.
LEMMA QueueIsSound ==
  ASSUME IInv
  PROVE  /\ queue \in [Commands -> Row] /\ lease \in Loops \cup {None}
         /\ announced \in ServerSession /\ answer \in [Clients -> Answer]
         /\ \A c \in Commands : RowInv(c, queue[c])
         /\ \A c \in Queued : queue[c].state # "absent"
         /\ \A l \in Loops : answer[l] \in Answer /\ answer[l].latest \in ServerSession
BY DEF IInv, TypeOK, QueueInv, Queued, Present, Clients, Answer

LEMMA BeginKeeps ==
  ASSUME IInv, NEW l \in Loops, Begin(l)
  PROVE  IInv'
<1>a. TypeOK /\ OrderInv /\ EffectsInv
  BY DEF IInv
<1> DEFINE s == [Off EXCEPT !.at = "next", !.todo = queue]
<1>1. /\ loop' = [loop EXCEPT ![l] = s] /\ LoopStep
      /\ UNCHANGED <<queue, calls, answer, announced>> /\ lease' = l /\ loop[l].at = "off"
  BY DEF Begin, Goto
<1>2. s \in LoopState /\ s.at = "next" /\ s.todo = queue /\ s.patches = {}
  BY <1>a, QueueIsSound DEF LoopState, Off, Row, NoRow, Patch, NoPatch, ServerSession, NoSession
<1> HIDE DEF s
<1>3. ASSUME NEW c \in Queued, NEW d \in Commands, Before(d, c)
      PROVE  d \in Queued \/ Settled(d)
  <2>1. Made(d)
    BY <1>a, <1>3 DEF OrderInv, Unmade, Before
  <2> QED BY <1>a, <2>1 DEF EffectsInv, EffectInv, Settled
<1>4. Sound(s)
  BY <1>2, <1>3, QueueIsSound DEF Sound, Queued
<1> QED BY <1>1, <1>2, <1>4, QueueIsSound, QuietLoopKeeps

\* A loop that is over lists nothing.
LEMMA OffIsSound == Off \in LoopState /\ Sound(Off) /\ Off.at = "off"
<1>1. Off \in LoopState
  BY DEF LoopState, Off, Row, NoRow, Patch, NoPatch, ServerSession, NoSession
<1>2. Off.at = "off" /\ Off.patches = {} /\ \A c \in Commands : Off.todo[c].state = "absent"
  BY DEF Off, NoRow
<1> QED BY <1>1, <1>2 DEF Sound, Present, RowInv

LEMMA EndKeeps ==
  ASSUME IInv, NEW l \in Loops, End(l)
  PROVE  IInv'
<1>1. /\ loop' = [loop EXCEPT ![l] = Off] /\ LoopStep
      /\ UNCHANGED <<queue, calls, answer>> /\ loop[l].at # "wait"
      /\ lease' = IF lease = l THEN None ELSE lease
      /\ announced' = IF loop[l].latest = NoSession THEN announced ELSE loop[l].latest
  BY DEF End, Goto
<1>2. lease' \in Loops \cup {None} /\ announced' \in ServerSession
  BY <1>1, QueueIsSound, LoopIsSound DEF LoopState
<1> QED BY <1>1, <1>2, OffIsSound, QueueIsSound, QuietLoopKeeps

\* A loop that stays where its state says nothing of the queue.
LEMMA EndsSoundly ==
  ASSUME IInv, NEW l \in Loops, loop[l].patches = {}, NEW s \in LoopState,
         s.at \in {"end", "send", "wait"}, s.todo = loop[l].todo, s.patches = {},
         s.at = "end" \/ Todo(l) # {}
  PROVE  Sound(s)
BY LoopIsSound DEF Sound, Todo

LEMMA StopAtBlockedKeeps ==
  ASSUME IInv, NEW l \in Loops, StopAtBlocked(l)
  PROVE  IInv'
<1> DEFINE s == [loop[l] EXCEPT !.at = "end", !.latest = NoSession]
<1>1. /\ loop' = [loop EXCEPT ![l] = s] /\ LoopStep
      /\ UNCHANGED <<queue, lease, calls, answer, announced>> /\ loop[l].at = "next"
  BY DEF StopAtBlocked, Goto, AtCommand
<1>2. loop[l] \in LoopState /\ loop[l].patches = {}
  BY <1>1, LoopIsSound DEF Sound
<1>3. /\ s \in LoopState /\ s.at = "end" /\ s.todo = loop[l].todo
      /\ s.patches = loop[l].patches
  BY <1>2 DEF LoopState, ServerSession
<1> HIDE DEF s
<1>4. Sound(s)
  BY <1>2, <1>3, EndsSoundly
<1> QED BY <1>1, <1>3, <1>4, QueueIsSound, QuietLoopKeeps

LEMMA InterruptedKeeps ==
  ASSUME IInv, NEW l \in Loops, Interrupted(l)
  PROVE  IInv'
<1> DEFINE s == [loop[l] EXCEPT !.at = "end"]
<1>1. /\ loop' = [loop EXCEPT ![l] = s] /\ LoopStep /\ Taken(l)
      /\ UNCHANGED <<queue, lease, calls, announced>> /\ loop[l].at = "wait"
      /\ Heard(l, Answers \ {"none"})
  BY DEF Interrupted, Goto, Heard, Answers
<1>2. loop[l] \in LoopState /\ loop[l].patches = {}
  BY <1>1, LoopIsSound DEF Sound
<1>3. /\ s \in LoopState /\ s.at = "end" /\ s.todo = loop[l].todo
      /\ s.patches = loop[l].patches
  BY <1>2 DEF LoopState
<1> HIDE DEF s
<1>4. Sound(s)
  BY <1>2, <1>3, EndsSoundly
<1> QED BY <1>1, <1>3, <1>4, QueueIsSound, QuietLoopKeeps

\* The command at hand is settled: the loop goes on with the others.
LEMMA GoesOnSoundly ==
  ASSUME IInv, NEW l \in Loops, loop[l].patches = {}, Todo(l) # {}, Settled(Item(l)),
         NEW s, s.at = "next", s.todo = Others(l), s.patches = loop[l].patches
  PROVE  s.todo \in [Commands -> Row] /\ Sound(s)
<1>1. NoRow \in Row /\ NoRow.state = "absent"
  BY DEF Row, NoRow, ServerSession
<1>2. loop[l].todo \in [Commands -> Row] /\ Item(l) \in Commands
  BY LoopIsSound DEF LoopState
<1>3. /\ s.todo \in [Commands -> Row] /\ s.todo[Item(l)].state = "absent"
      /\ \A c \in Commands : c # Item(l) => s.todo[c] = loop[l].todo[c]
  BY <1>1, <1>2 DEF Others
<1>4. Present(s.todo) = Todo(l) \ {Item(l)}
  BY <1>3 DEF Present, Todo
<1>5. \A c \in Commands : RowInv(c, s.todo[c])
  BY <1>3, LoopIsSound DEF Sound, RowInv
<1>6. \A c \in Present(s.todo), d \in Commands :
         Before(d, c) => d \in Present(s.todo) \/ Settled(d)
  BY <1>4, LoopIsSound DEF Sound, Todo
<1> QED BY <1>3, <1>5, <1>6 DEF Sound

LEMMA SkipKeeps ==
  ASSUME IInv, NEW l \in Loops, Skip(l)
  PROVE  IInv'
<1> DEFINE s == [loop[l] EXCEPT !.todo = Others(l),
                                !.latest = IF Listed(l).conflict = NoSession
                                           THEN loop[l].latest ELSE Listed(l).conflict]
<1>1. /\ loop' = [loop EXCEPT ![l] = s] /\ LoopStep
      /\ UNCHANGED <<queue, lease, calls, answer, announced>> /\ loop[l].at = "next"
      /\ Todo(l) # {} /\ Listed(l).state = "deferred"
  BY DEF Skip, Goto, AtCommand
<1>2. loop[l] \in LoopState /\ loop[l].patches = {} /\ Listed(l) \in Row
  BY <1>1, LoopIsSound DEF Sound, Listed, LoopState
<1>3. Settled(Item(l))
  BY <1>1, LoopIsSound DEF Sound, RowInv, Listed, Settled
<1>4. Others(l) \in [Commands -> Row]
  BY <1>2 DEF Others, LoopState, Row, NoRow, ServerSession
<1>5. s \in LoopState /\ s.at = "next" /\ s.todo = Others(l) /\ s.patches = loop[l].patches
  BY <1>1, <1>2, <1>4 DEF LoopState, Row
<1> HIDE DEF s
<1>6. Sound(s)
  BY <1>1, <1>2, <1>3, <1>5, GoesOnSoundly
<1> QED BY <1>1, <1>5, <1>6, QueueIsSound, QuietLoopKeeps

LEMMA DropKeeps ==
  ASSUME IInv, NEW l \in Loops, Drop(l)
  PROVE  IInv'
<1> DEFINE s == [loop[l] EXCEPT !.at = "next", !.todo = Others(l)]
<1>1. /\ loop' = [loop EXCEPT ![l] = s] /\ LoopStep
      /\ UNCHANGED <<lease, calls, answer, announced>> /\ loop[l].at = "drop"
      /\ queue' = [queue EXCEPT ![Item(l)] = NoRow]
  BY DEF Drop, Goto, Removed
<1>2. /\ loop[l] \in LoopState /\ loop[l].patches = {} /\ Todo(l) # {}
      /\ Item(l) \in Commands /\ applied[Item(l)] > 0
  BY <1>1, LoopIsSound DEF Sound, Todo, Item
<1>3. NoRow \in Row /\ NoRow.state = "absent"
  BY DEF Row, NoRow, ServerSession
<1>4. Others(l) \in [Commands -> Row]
  BY <1>2, <1>3 DEF Others, LoopState
<1>5. s \in LoopState /\ s.at = "next" /\ s.todo = Others(l) /\ s.patches = loop[l].patches
  BY <1>2, <1>4 DEF LoopState
<1> HIDE DEF s
<1>6. Sound(s)
  BY <1>2, <1>5, GoesOnSoundly DEF Settled
<1>7. PICK c \in Commands : c = Item(l)
  BY <1>2
<1>8. /\ queue' \in [Commands -> Row] /\ queue'[c].state = "absent"
      /\ \A d \in Commands : d # c => queue'[d] = queue[d]
  BY <1>1, <1>3, <1>7, QueueIsSound
<1>9. /\ \A d \in Commands : RowInv(d, queue'[d])
      /\ \A d \in Queued : queue'[d].state = "absent" => applied[d] > 0
  BY <1>2, <1>7, <1>8, QueueIsSound DEF RowInv, Queued, Present
<1> QED BY <1>1, <1>5, <1>6, <1>8, <1>9, QueueIsSound, QuietLoopKeeps

\* The body a command gets is a version, its target a session.
LEMMA TargetTypes ==
  ASSUME IInv, NEW l \in Loops, Todo(l) # {}
  PROVE  /\ Body(l) \in Nat /\ Target(l) \in Ids
         /\ Target(l) \in {home[Item(l)], Server(home[Item(l)])}
<1>1. /\ Listed(l) \in Row /\ RowInv(Item(l), Listed(l)) /\ Listed(l).state # "absent"
      /\ loop[l].latest \in ServerSession /\ home[Item(l)] \in Ids
  BY LoopIsSound DEF Listed, LoopState, Sound, Todo, Present, IInv, TypeOK
<1>2. loop[l].latest.ver \in Nat /\ Listed(l).exp \in Nat
  BY <1>1 DEF ServerSession, NoSession, Row
<1>3. Body(l) \in Nat
  BY <1>2 DEF Body
<1>4. Target(l) \in {home[Item(l)], Server(home[Item(l)])}
  BY <1>1 DEF Target, RowInv, Server
<1> QED BY <1>1, <1>3, <1>4 DEF Server, Ids, ServerIds

LEMMA PrepareKeeps ==
  ASSUME IInv, NEW l \in Loops, Prepare(l)
  PROVE  IInv'
<1>1. /\ LoopStep /\ UNCHANGED <<queue, lease, calls, answer, announced>>
      /\ loop[l].at = "next" /\ Todo(l) # {}
  BY DEF Prepare, AtCommand
<1>2. loop[l] \in LoopState /\ loop[l].patches = {}
  BY <1>1, LoopIsSound DEF Sound
<1>3. CASE Rebases(l)
  <2> DEFINE patch == [kind |-> "body", exp |-> Body(l), latest |-> NoSession]
  <2> DEFINE s == [loop[l] EXCEPT !.at = "get", !.then = "send", !.patches = {Item(l)},
                                  !.patch = patch]
  <2>1. loop' = [loop EXCEPT ![l] = s]
    BY <1>3 DEF Prepare, Goto
  <2>2. patch \in Patch /\ patch.kind = "body" /\ {Item(l)} \in SUBSET Commands
    BY <1>1, TargetTypes, LoopIsSound DEF Patch, ServerSession
  <2> HIDE DEF patch
  <2>3. /\ s \in LoopState /\ s.at = "get" /\ s.then = "send" /\ s.patches = {Item(l)}
        /\ s.patch = patch /\ s.todo = loop[l].todo
    BY <1>2, <2>2 DEF LoopState
  <2> HIDE DEF s
  <2>4. Sound(s)
    BY <1>1, <2>2, <2>3, LoopIsSound DEF Sound, Todo
  <2> QED BY <1>1, <2>1, <2>3, <2>4, QueueIsSound, QuietLoopKeeps
<1>4. CASE ~Rebases(l)
  <2> DEFINE s == [loop[l] EXCEPT !.at = "send", !.then = "send"]
  <2>1. loop' = [loop EXCEPT ![l] = s]
    BY <1>4 DEF Prepare, Goto
  <2>2. s \in LoopState /\ s.at = "send" /\ s.patches = loop[l].patches /\ s.todo = loop[l].todo
    BY <1>2 DEF LoopState
  <2> HIDE DEF s
  <2>3. Sound(s)
    BY <1>1, <1>2, <2>2, EndsSoundly
  <2> QED BY <1>1, <2>1, <2>2, <2>3, QueueIsSound, QuietLoopKeeps
<1> QED BY <1>3, <1>4

\* The next record to update, or what was to be done after the updates.
LEMMA AdvancesSoundly ==
  ASSUME IInv, NEW l \in Loops, loop[l].at \in {"get", "put"}
  PROVE  Advance(l) \in LoopState /\ Sound(Advance(l)) /\ Advance(l).at # "wait"
<1> DEFINE left == loop[l].patches \ {Patching(l)}
<1>1. loop[l] \in LoopState /\ Sound(loop[l]) /\ loop[l].patches # {}
  BY LoopIsSound DEF Sound
<1>2. NoRow \in Row /\ NoPatch \in Patch
  BY DEF Row, NoRow, Patch, NoPatch, ServerSession
<1>3. CASE left = {}
  <2>1. PICK s : s = [loop[l] EXCEPT !.at = loop[l].then, !.patches = {}, !.patch = NoPatch,
                                     !.row = NoRow]
    OBVIOUS
  <2>2. /\ s \in LoopState /\ s.at = loop[l].then /\ s.patches = {} /\ s.todo = loop[l].todo
        /\ s.at \in {"send", "drop", "end"}
    BY <1>1, <1>2, <2>1 DEF LoopState
  <2>3. Sound(s)
    BY <1>1, <2>2 DEF Sound
  <2>4. Advance(l) = s
    BY <1>3, <2>1 DEF Advance
  <2> QED BY <2>2, <2>3, <2>4
<1>4. CASE left # {}
  <2>1. PICK s : s = [loop[l] EXCEPT !.at = "get", !.patches = left, !.row = NoRow]
    OBVIOUS
  <2>2. /\ s \in LoopState /\ s.at = "get" /\ s.patches = left /\ s.todo = loop[l].todo
        /\ s.then = loop[l].then /\ s.patch = loop[l].patch
    BY <1>1, <1>2, <2>1 DEF LoopState
  <2>3. Sound(s)
    BY <1>1, <1>4, <2>2 DEF Sound
  <2>4. Advance(l) = s
    BY <1>4, <2>1 DEF Advance
  <2> QED BY <2>2, <2>3, <2>4
<1> QED BY <1>3, <1>4

LEMMA GetKeeps ==
  ASSUME IInv, NEW l \in Loops, Get(l)
  PROVE  IInv'
<1> DEFINE row == queue[Patching(l)]
<1> DEFINE s == [loop[l] EXCEPT !.at = "put", !.row = row]
<1>1. /\ LoopStep /\ UNCHANGED <<queue, lease, calls, answer, announced>> /\ loop[l].at = "get"
      /\ \/ row.state # "absent" /\ loop' = [loop EXCEPT ![l] = s]
         \/ loop' = [loop EXCEPT ![l] = Advance(l)]
  BY DEF Get, Goto
<1>2. loop[l] \in LoopState /\ Sound(loop[l]) /\ loop[l].patches # {}
      /\ Patching(l) \in Commands
  BY <1>1, LoopIsSound DEF Sound
<1>3. row \in Row /\ RowInv(Patching(l), row)
  BY <1>2, QueueIsSound
<1> HIDE DEF row
<1>4. /\ s \in LoopState /\ s.at = "put" /\ s.row = row /\ s.patches = loop[l].patches
      /\ s.patch = loop[l].patch /\ s.todo = loop[l].todo /\ s.then = loop[l].then
  BY <1>2, <1>3 DEF LoopState
<1> HIDE DEF s
<1>5. row.state # "absent" => Sound(s)
  BY <1>1, <1>2, <1>3, <1>4 DEF Sound, Patching
<1>6. CASE row.state # "absent" /\ loop' = [loop EXCEPT ![l] = s]
  BY <1>1, <1>4, <1>5, <1>6, QueueIsSound, QuietLoopKeeps
<1>7. CASE loop' = [loop EXCEPT ![l] = Advance(l)]
  BY <1>1, <1>7, AdvancesSoundly, QueueIsSound, QuietLoopKeeps
<1> QED BY <1>1, <1>6, <1>7

\* An update changes a record that was there, within its session.
LEMMA PatchedIsSound ==
  ASSUME IInv, NEW l \in Loops, loop[l].at = "put"
  PROVE  LET row == Patched(loop[l].row, loop[l].patch) IN
         row \in Row /\ row.state # "absent" /\ RowInv(Patching(l), row)
<1> DEFINE old == loop[l].row
<1> DEFINE patch == loop[l].patch
<1>1. /\ old \in Row /\ patch \in Patch /\ old.state # "absent" /\ RowInv(Patching(l), old)
      /\ patch.kind = "remap" =>
           home[Patching(l)] = "local" /\ patch.latest.id = "server"
  BY LoopIsSound DEF Sound, LoopState, Patching
<1> HIDE DEF old, patch
<1>2. PICK row : row = Patched(old, patch)
  OBVIOUS
<1>3. patch.kind \in {"body", "block", "keep", "remap"}
      /\ patch.exp \in Nat /\ patch.latest \in ServerSession
  BY <1>1 DEF Patch
<1>4. /\ row \in Row
      /\ row.state \in {old.state, "blocked", "pending"}
      /\ row.sid = old.sid \/ (patch.kind = "remap" /\ row.sid = "server")
      /\ row.state = "deferred" => old.state = "deferred"
  <2>1. CASE patch.kind = "body"
    BY <2>1, <1>1, <1>2, <1>3 DEF Patched, Row
  <2>2. CASE patch.kind = "block"
    BY <2>2, <1>1, <1>2, <1>3 DEF Patched, Row
  <2>3. CASE patch.kind = "keep"
    BY <2>3, <1>1, <1>2, <1>3 DEF Patched, Row
  <2>4. CASE patch.kind = "remap"
    BY <2>4, <1>1, <1>2, <1>3 DEF Patched, Row, ServerIds
  <2> QED BY <1>3, <2>1, <2>2, <2>3, <2>4
<1>5. row.state # "absent" /\ RowInv(Patching(l), row)
  BY <1>1, <1>4 DEF RowInv, Server
<1> QED BY <1>2, <1>4, <1>5 DEF old, patch

LEMMA PutKeeps ==
  ASSUME IInv, NEW l \in Loops, Put(l)
  PROVE  IInv'
<1>1. PICK row : row = Patched(loop[l].row, loop[l].patch)
  OBVIOUS
<1>2. /\ LoopStep /\ UNCHANGED <<lease, calls, answer, announced>> /\ loop[l].at = "put"
      /\ queue' = [queue EXCEPT ![Patching(l)] = row] /\ loop' = [loop EXCEPT ![l] = Advance(l)]
  BY <1>1 DEF Put, Goto
<1>3. PICK c \in Commands : c = Patching(l)
  BY <1>2, LoopIsSound DEF Sound
<1>4. row \in Row /\ row.state # "absent" /\ RowInv(c, row)
  BY <1>1, <1>2, <1>3, PatchedIsSound
<1>5. /\ queue' \in [Commands -> Row] /\ queue'[c] = row
      /\ \A d \in Commands : d # c => queue'[d] = queue[d]
  BY <1>2, <1>3, <1>4, QueueIsSound
<1>6. /\ \A d \in Commands : RowInv(d, queue'[d])
      /\ \A d \in Queued : queue'[d].state = "absent" => applied[d] > 0
  BY <1>4, <1>5, QueueIsSound DEF Queued, Present
<1> QED BY <1>2, <1>5, <1>6, AdvancesSoundly, QueueIsSound, QuietLoopKeeps

\* A command of the local session is sent when those before it are settled.
LEMMA PostKeeps ==
  ASSUME IInv, NEW l \in Loops, Post(l)
  PROVE  IInv'
<1>a. TypeOK /\ OrderInv
  BY DEF IInv
<1> DEFINE s == [loop[l] EXCEPT !.at = "wait"]
<1>1. /\ LoopStep /\ UNCHANGED <<queue, lease, announced>> /\ loop[l].at = "send"
      /\ Send(l, Item(l), Target(l), Body(l)) /\ loop' = [loop EXCEPT ![l] = s]
  BY DEF Post, Goto
<1>2. /\ loop[l] \in LoopState /\ Sound(loop[l]) /\ loop[l].patches = {} /\ Todo(l) # {}
      /\ Item(l) \in Commands /\ Made(Item(l))
  BY <1>1, LoopIsSound DEF Sound, Todo
<1>3. s \in LoopState /\ s.at = "wait" /\ s.todo = loop[l].todo /\ s.patches = loop[l].patches
  BY <1>2 DEF LoopState
<1> HIDE DEF s
<1>4. Sound(s)
  BY <1>2, <1>3, EndsSoundly
<1>5. /\ UNCHANGED <<online, srv, audit, applied, home, order, page, told, postponed>>
      /\ events' \in Nat
  BY <1>a, <1>1 DEF LoopStep, server, user, TypeOK
<1>6. loop'[l] = s /\ (\A k \in Loops : k # l => loop'[k] = loop[k])
  BY <1>a, <1>1 DEF TypeOK
<1>7. Grows /\ Keeps
  BY <1>5, SameKeeps DEF Grows
<1>8. l \in Clients /\ l \notin Pages
  BY ClientsAssumption DEF Clients
<1>9. \A x \in Clients \ {l} : /\ Expecting(x)' = Expecting(x)
                               /\ Expecting(x) => Asked(x)' = Asked(x)
  <2>1. ASSUME NEW x \in Clients \ {l} PROVE Expecting(x)' = Expecting(x)
    BY <1>5, <1>6 DEF Expecting, Clients
  <2>2. ASSUME NEW x \in Clients \ {l}
        PROVE  (x \in Pages => page'[x] = page[x]) /\ (x \notin Pages => loop'[x] = loop[x])
    BY <1>5, <1>6 DEF Clients
  <2> QED BY <2>1, <2>2, <1>7, AskedStays
<1>10. ~Expecting(l) /\ Expecting(l)'
  BY <1>1, <1>3, <1>6, <1>8 DEF Expecting
<1>11. Asked(l)' = Item(l)
  BY <1>3, <1>5, <1>6, <1>8, SameOrder DEF Asked, Item, Todo
<1>12. home[Item(l)] = "local" /\ Action[Item(l)] # "start" => Clear(Item(l))
  <2>1. \A d \in Todo(l) \ {Item(l)} : Before(Item(l), d)
    BY <1>2, LoopIsSound
  <2>2. \A d \in Commands : Before(d, Item(l)) => d \in Todo(l) \/ Settled(d)
    BY <1>2, LoopIsSound DEF Sound, Todo
  <2>3. \A d \in Todo(l) : ~Before(d, Item(l))
    BY <1>a, <2>1, OneBefore
  <2> QED BY <2>2, <2>3 DEF Clear
<1>13. PICK c \in Commands : c = Item(l)
  BY <1>2
<1>14. PICK sid \in Ids : sid = Target(l) /\ sid \in {home[c], Server(home[c])}
  BY <1>2, <1>13, TargetTypes
<1>15. PICK exp \in Nat : exp = Body(l)
  BY <1>2, TargetTypes
<1>16. Made(c)' /\ (home'[c] = "local" /\ Action[c] # "start" => Clear(c)')
  BY <1>2, <1>5, <1>7, <1>12, <1>13, ClearStays, MadeStays
<1>17. Send(l, c, sid, exp) /\ Asked(l)' = c
  BY <1>1, <1>11, <1>13, <1>14, <1>15
<1>18. /\ calls' \subseteq Call /\ answer' \in [Clients -> Answer]
       /\ CallsInv' /\ SendersInv' /\ AnswersInv'
  BY <1>5, <1>7, <1>8, <1>9, <1>10, <1>14, <1>16, <1>17, SendKeeps
<1>19. lease' \in Loops \cup {None} /\ announced' \in ServerSession /\ queue' = queue
  BY <1>1, QueueIsSound
<1> QED BY <1>1, <1>3, <1>4, <1>5, <1>18, <1>19, QueueIsSound, LoopKeeps

LEMMA SucceedKeeps ==
  ASSUME IInv, NEW l \in Loops, Succeed(l)
  PROVE  IInv'
<1> DEFINE patch == IF Remapped(l) = {} THEN NoPatch
                    ELSE [kind |-> "remap", exp |-> 0, latest |-> answer[l].latest]
<1> DEFINE s == [loop[l] EXCEPT !.at = IF Remapped(l) = {} THEN "drop" ELSE "get",
                                !.then = "drop", !.patches = Remapped(l), !.patch = patch,
                                !.latest = answer[l].latest,
                                !.known = loop[l].known \/ home[Item(l)] = "local"]
<1>1. /\ loop' = [loop EXCEPT ![l] = s] /\ LoopStep /\ Taken(l) /\ Heard(l, {"ok"})
      /\ UNCHANGED <<queue, lease, calls>> /\ announced' = answer[l].latest
  BY DEF Succeed, Goto
<1>2. loop[l].at = "wait" /\ Heard(l, Answers \ {"none"})
  BY <1>1 DEF Heard, Answers
<1>3. /\ loop[l] \in LoopState /\ Sound(loop[l]) /\ Todo(l) # {} /\ Item(l) \in Commands
      /\ answer[l].latest \in ServerSession
  BY <1>2, LoopIsSound, QueueIsSound DEF Sound, Todo
<1>4. /\ applied[Item(l)] > 0
      /\ Action[Item(l)] = "start" => answer[l].latest.id = "server"
  <2>1. AnswerInv(l) /\ Expecting(l) /\ Asked(l) = Item(l)
    BY <1>2, ClientsAssumption DEF IInv, AnswersInv, Clients, Expecting, Asked
  <2> QED BY <2>1, <1>1 DEF AnswerInv, Heard
<1>5. /\ Remapped(l) \in SUBSET Commands
      /\ \A c \in Remapped(l) : Made(c) /\ home[c] = "local"
      /\ Remapped(l) # {} => Action[Item(l)] = "start"
  BY DEF Remapped, Queued, Present, Made
<1>6. /\ patch \in Patch
      /\ Remapped(l) # {} => patch.latest = answer[l].latest
  BY <1>3 DEF Patch, NoPatch, ServerSession
<1> HIDE DEF patch
<1>7. PICK at \in {"drop", "get"} : at = IF Remapped(l) = {} THEN "drop" ELSE "get"
  OBVIOUS
<1>8. PICK known \in BOOLEAN : known = (loop[l].known \/ home[Item(l)] = "local")
  OBVIOUS
<1>9. PICK t : t = [loop[l] EXCEPT !.at = at, !.then = "drop", !.patches = Remapped(l),
                                   !.patch = patch, !.latest = answer[l].latest,
                                   !.known = known]
  OBVIOUS
<1>10. loop' = [loop EXCEPT ![l] = t]
  BY <1>1, <1>7, <1>8, <1>9
<1> HIDE DEF s
<1>11. /\ t \in LoopState /\ t.at = at /\ t.patches = Remapped(l) /\ t.patch = patch
       /\ t.todo = loop[l].todo
  BY <1>3, <1>5, <1>6, <1>9 DEF LoopState
<1>12. Sound(t)
  BY <1>3, <1>4, <1>5, <1>6, <1>7, <1>11 DEF Sound, Item, Todo
<1>13. /\ t.at # "wait" /\ announced' \in ServerSession /\ lease' \in Loops \cup {None}
       /\ queue' = queue
  BY <1>1, <1>3, <1>11, QueueIsSound
<1> QED BY <1>1, <1>2, <1>10, <1>11, <1>12, <1>13, QueueIsSound, QuietLoopKeeps

LEMMA FailKeeps ==
  ASSUME IInv, NEW l \in Loops, Fail(l)
  PROVE  IInv'
<1>1. PICK kind \in {"block", "keep"} :
         kind = IF answer[l].kind = "conflict" THEN "block" ELSE "keep"
  OBVIOUS
<1>2. PICK latest : latest = IF answer[l].kind = "conflict" THEN NoSession ELSE loop[l].latest
  OBVIOUS
<1>3. PICK patch : patch = [kind |-> kind, exp |-> 0, latest |-> answer[l].latest]
  OBVIOUS
<1>4. PICK s : s = [loop[l] EXCEPT !.at = "get", !.then = "end", !.latest = latest,
                                   !.patches = {Item(l)}, !.patch = patch]
  OBVIOUS
<1>5. /\ LoopStep /\ Taken(l) /\ Heard(l, {"conflict", "refused", "failed"})
      /\ UNCHANGED <<queue, lease, calls, announced>> /\ loop' = [loop EXCEPT ![l] = s]
  BY <1>1, <1>2, <1>3, <1>4 DEF Fail, Goto
<1>6. loop[l].at = "wait" /\ Heard(l, Answers \ {"none"})
  BY <1>5 DEF Heard, Answers
<1>7. /\ loop[l] \in LoopState /\ Sound(loop[l]) /\ Todo(l) # {} /\ Item(l) \in Commands
      /\ answer[l].latest \in ServerSession /\ Made(Item(l))
  BY <1>6, LoopIsSound, QueueIsSound DEF Sound, Todo
<1>8. patch \in Patch /\ patch.kind # "remap"
  BY <1>1, <1>3, <1>7 DEF Patch
<1>9. latest \in ServerSession
  BY <1>2, <1>7 DEF LoopState, ServerSession
<1>10. /\ s \in LoopState /\ s.at = "get" /\ s.then = "end" /\ s.patches = {Item(l)}
       /\ s.patch = patch /\ s.todo = loop[l].todo
  BY <1>4, <1>7, <1>8, <1>9 DEF LoopState
<1>11. Sound(s)
  BY <1>7, <1>8, <1>10 DEF Sound, Todo
<1> QED BY <1>5, <1>6, <1>10, <1>11, QueueIsSound, QuietLoopKeeps

\* The request of a tab that was closed stays on its way, and nobody waits for it.
LEMMA StopTabKeeps ==
  ASSUME IInv, NEW l \in Loops, StopTab(l)
  PROVE  IInv'
<1>a. /\ TypeOK /\ CallsInv /\ SendersInv /\ AnswersInv
  BY DEF IInv
<1>1. /\ UNCHANGED <<online, srv, audit, applied, home, order, page, told, postponed>>
      /\ UNCHANGED <<queue, lease, announced>> /\ events' \in Nat
      /\ loop' = [loop EXCEPT ![l] = Off] /\ answer' = [answer EXCEPT ![l] = NoAnswer]
      /\ calls' = {IF q.from = l THEN [q EXCEPT !.from = None] ELSE q : q \in calls}
  BY <1>a DEF StopTab, Event, Goto, server, store, user, TypeOK
<1>2. loop'[l] = Off /\ (\A k \in Loops : k # l => loop'[k] = loop[k])
  BY <1>a, <1>1 DEF TypeOK
<1>3. Grows /\ Keeps
  BY <1>1, SameKeeps DEF Grows
<1>4. l \in Clients /\ l \notin Pages
  BY ClientsAssumption DEF Clients
<1>5. \A x \in Clients \ {l} : /\ Expecting(x)' = Expecting(x)
                               /\ Expecting(x) => Asked(x)' = Asked(x)
  <2>1. ASSUME NEW x \in Clients \ {l} PROVE Expecting(x)' = Expecting(x)
    BY <1>1, <1>2 DEF Expecting, Clients
  <2>2. ASSUME NEW x \in Clients \ {l}
        PROVE  (x \in Pages => page'[x] = page[x]) /\ (x \notin Pages => loop'[x] = loop[x])
    BY <1>1, <1>2 DEF Clients
  <2> QED BY <2>1, <2>2, <1>3, AskedStays
<1>6. ~Expecting(l)'
  BY <1>2, <1>4, OffIsSound DEF Expecting
<1>7. /\ answer' \in [Clients -> Answer]
      /\ \A x \in Clients \ {l} : answer'[x] = answer[x]
  BY <1>a, <1>1 DEF TypeOK, NoAnswer, Answer, Answers, ServerSession
<1>8. ASSUME NEW r \in calls'
      PROVE  r \in Call /\ CallInv(r) /\ (r.from # None => r \in calls /\ r.from # l)
  <2>1. PICK q \in calls : r = IF q.from = l THEN [q EXCEPT !.from = None] ELSE q
    BY <1>1
  <2>2. q \in Call /\ CallInv(q)
    BY <1>a, VersionTypes DEF CallsInv
  <2>3. CASE q.from = l
    <3>1. r = [q EXCEPT !.from = None]
      BY <2>1, <2>3
    <3> QED BY <3>1, <2>2 DEF Call, CallInv
  <2>4. CASE q.from # l
    BY <2>1, <2>2, <2>4
  <2> QED BY <2>3, <2>4
<1>9. CallsInv'
  <2>1. \A q \in calls' : q.at = "read" => srv[q.sid].ver \in Nat /\ q.pre \in Nat
    BY <1>a, <1>8 DEF CallInv, Call, TypeOK
  <2> QED BY <1>1, <1>3, <1>8, <2>1, CallStays DEF CallsInv, Call
<1>10. SendersInv'
  <2> SUFFICES ASSUME NEW q \in calls', q.from # None PROVE SenderInv(q)'
    BY DEF SendersInv, SenderInv
  <2>1. q \in calls /\ q.from \in Clients \ {l} /\ SenderInv(q)
    BY <1>a, <1>8 DEF SendersInv, Call
  <2> QED BY <2>1, <1>5, <1>7, <1>8 DEF SenderInv
<1>11. AnswersInv'
  BY <1>a, <1>1, <1>5, <1>6, <1>7 DEF AnswersInv, AnswerInv
<1>12. calls' \subseteq Call
  BY <1>8
<1>13. lease' \in Loops \cup {None} /\ announced' \in ServerSession /\ queue' = queue
  BY <1>1, QueueIsSound
<1> QED BY <1>1, <1>7, <1>9, <1>10, <1>11, <1>12, <1>13, OffIsSound, QueueIsSound, LoopKeeps

-----------------------------------------------------------------------------
(* The theorems                                                            *)

LEMMA InitKeeps == Init => IInv
<1> SUFFICES ASSUME Init PROVE IInv
  OBVIOUS
<1>1. /\ online \in BOOLEAN /\ srv \in [ServerIds -> [status : Statuses, ver : Nat]]
      /\ audit \in [Commands -> Nat \cup {None}] /\ applied \in [Commands -> Nat]
      /\ home \in [Commands -> Ids] /\ order \in Seq(Commands) /\ lease \in Loops \cup {None}
      /\ calls \subseteq Call /\ announced \in ServerSession /\ told \subseteq Commands
      /\ postponed \subseteq Commands /\ events \in Nat
  <2>1. online \in BOOLEAN /\ order \in Seq(Commands) /\ lease \in Loops \cup {None}
    <3>1. online = FALSE /\ order = <<>> /\ lease = None
      BY DEF Init
    <3>2. <<>> \in Seq(Commands)
      OBVIOUS
    <3> QED BY <3>1, <3>2
  <2>2. /\ srv \in [ServerIds -> [status : Statuses, ver : Nat]]
        /\ home \in [Commands -> Ids] /\ announced \in ServerSession
    BY DEF Init, Statuses, Ids, ServerSession
  <2>3. /\ audit \in [Commands -> Nat \cup {None}] /\ applied \in [Commands -> Nat]
        /\ events \in Nat
    BY DEF Init
  <2>4. calls \subseteq Call /\ told \subseteq Commands /\ postponed \subseteq Commands
    BY DEF Init
  <2> QED BY <2>1, <2>2, <2>3, <2>4
<1>2. /\ queue \in [Commands -> Row] /\ answer \in [Clients -> Answer]
      /\ \A c \in Commands : queue[c].state = "absent"
  BY DEF Init, Row, NoRow, NoAnswer, Answer, Answers, ServerSession
<1>3. /\ page \in [Pages -> PageState]
      /\ \A p \in Pages : page[p].at = "idle" /\ page[p].view = NoSession
  BY DEF Init, Shows, PageState, Session, ServerSession
<1>4. loop \in [Loops -> LoopState] /\ \A l \in Loops : loop[l] = Off
  BY OffIsSound DEF Init
<1>5. Off.at = "off" /\ Off.patches = {} /\ \A c \in Commands : Off.todo[c] = NoRow
  BY DEF Off
<1>6. \A l \in Loops : Todo(l) = {}
  BY <1>4, <1>5 DEF Todo, Present, NoRow
<1>7. TypeOK
  BY <1>1, <1>2, <1>3, <1>4, <1>5, <1>6 DEF TypeOK
<1>8. \A c \in Commands : ~Made(c) /\ Unmade(c)
  BY DEF Init, Made, Unmade
<1>9. \A c, d : ~Before(c, d)
  BY DEF Init, Before
<1>10. OrderInv /\ StartInv
  BY <1>3, <1>8, <1>9 DEF OrderInv, StartInv, Init, NoSession, Made
<1>11. QueueInv /\ PagesInv
  BY <1>2, <1>3 DEF QueueInv, RowInv, PagesInv
<1>12. EffectsInv
  BY <1>8 DEF Init, EffectsInv, EffectInv
<1>13. CallsInv /\ SendersInv
  BY DEF Init, CallsInv, SendersInv
<1>14. AnswersInv
  BY <1>3, <1>4, <1>5 DEF AnswersInv, AnswerInv, Expecting, Clients
<1>15. LoopsInv
  BY <1>4, <1>5, <1>6 DEF LoopsInv, LoopInv, RowInv, NoRow
<1> QED BY <1>7, <1>10, <1>11, <1>12, <1>13, <1>14, <1>15 DEF IInv

LEMMA NextKeeps ==
  ASSUME IInv, [Next]_vars
  PROVE  IInv'
<1>1. ASSUME NEW q \in calls, Serve(q) \/ RejectCall(q) PROVE IInv'
  BY <1>1, ServedWithoutEffectKeeps, StartKeeps, ApplyKeeps, AdmitKeeps, RejectCallKeeps DEF Serve
<1>2. ASSUME NEW id \in ServerIds, NEW a \in Actions \ {"start"}, OtherActs(id, a) PROVE IInv'
  BY <1>2, OtherActsKeeps
<1>3. ASSUME NEW p \in Pages, NEW c \in Commands,
             \/ StartSession(p, c) \/ Command(p, c)
             \/ Resolve(p, c) \/ Defer(p, c) \/ Retry(p, c)
      PROVE  IInv'
  BY <1>3, StartSessionKeeps, CommandKeeps, ResolveKeeps, DeferKeeps
<1>4. ASSUME NEW p \in Pages, Page(p) \/ Refresh(p) \/ Hear(p) PROVE IInv'
  BY <1>4, PageAppliedKeeps, PageRefusedKeeps, PageMeetsActiveKeeps, PageUnansweredKeeps,
     PageLoggedOutKeeps, RefreshKeeps DEF Page
<1>5. ASSUME NEW l \in Loops, Begin(l) \/ Sync(l) \/ StopTab(l) PROVE IInv'
  BY <1>5, BeginKeeps, EndKeeps, SkipKeeps, StopAtBlockedKeeps, PrepareKeeps, GetKeeps, PutKeeps,
     PostKeeps, SucceedKeeps, FailKeeps, InterruptedKeeps, DropKeeps, StopTabKeeps DEF Sync
<1>6. ASSUME NEW x \in Clients, LoseAnswer(x) PROVE IInv'
  BY <1>6, LoseAnswerKeeps
<1>7. CASE UNCHANGED vars
  BY <1>7, StutterKeeps
<1>8. CASE OtherStarts \/ Connect \/ LeaseRunsOut
  BY <1>8, OtherStartsKeeps, ConnectKeeps, LeaseRunsOutKeeps
<1> QED BY <1>1, <1>2, <1>3, <1>4, <1>5, <1>6, <1>7, <1>8 DEF Next

\* The inductive invariant holds of every behaviour.
THEOREM Invariance == Spec => []IInv
<1>1. Init => IInv
  BY InitKeeps
<1>2. IInv /\ [Next]_vars => IInv'
  BY NextKeeps
<1> QED BY <1>1, <1>2, PTL DEF Spec

\* Every variable stays in its type, and a loop that is at a command has listed one.
THEOREM TypeCorrect == Spec => []TypeOK
<1>1. IInv => TypeOK
  BY DEF IInv
<1> QED BY <1>1, Invariance, PTL

\* However often pages and loops send a command, whichever answers are lost and
\* although a loop rewrites its body, it takes effect at most once: for any
\* number of pages, loops, commands and faults.
THEOREM AppliedOnceHolds == Spec => []AppliedOnce
<1>1. ASSUME IInv, NEW c \in Commands PROVE applied[c] <= 1
  <2>1. applied[c] = 0 \/ applied[c] = 1
    BY <1>1 DEF IInv, EffectsInv, EffectInv
  <2> QED BY <2>1
<1>2. IInv => AppliedOnce
  BY <1>1 DEF AppliedOnce
<1> QED BY <1>2, Invariance, PTL

\* A command leaves the queue only when it took effect or the user was told.
THEOREM NothingLostHolds == Spec => []NothingLost
<1>1. IInv => NothingLost
  BY DEF IInv, OrderInv, EffectsInv, EffectInv, NothingLost
<1> QED BY <1>1, Invariance, PTL

\* The commands of a session that was started offline take effect in the order
\* the user gave them, but for those the user has put off.
THEOREM OfflineOrderHolds == Spec => []OfflineOrder
<1>1. ASSUME IInv, NEW c \in Commands, NEW d \in Commands,
             Before(d, c), home[c] = "local", home[d] = "local", applied[c] > 0
      PROVE  applied[d] > 0 \/ d \in told \cup postponed
  <2>1. Action[c] # "start"
    BY <1>1 DEF IInv, StartInv
  <2>2. audit[c] # None
    BY <1>1 DEF IInv, EffectsInv, EffectInv
  <2>3. Clear(c)
    BY <1>1, <2>1, <2>2 DEF IInv, EffectsInv, EffectInv
  <2> QED BY <1>1, <2>3 DEF Clear, Settled
<1>2. IInv => OfflineOrder
  BY <1>1 DEF OfflineOrder
<1> QED BY <1>2, Invariance, PTL
=============================================================================
