------------------------- MODULE RelaySessionsProofs -------------------------
(***************************************************************************)
(* Two theorems for any number of relays, ticks, handlers and queries, and *)
(* whatever drops, hangs or is refused.                                    *)
(*                                                                         *)
(* That nobody crowds the mutex (TypeOK): SessionsInv says of every place  *)
(* a task can be in which commands it then has in the queue (Fits).  A     *)
(* step keeps the commands of all tasks but those it moves (Keeps), and    *)
(* each of these goes where its commands say.  The answer of a command so  *)
(* tells the place of the task that waited for it: relay_ssh_run answers   *)
(* ticks only, and the other commands tasks that wait for nothing else.    *)
(*                                                                         *)
(* That nothing is issued in demo: a step changes the queue in one of four *)
(* ways (QueueMoves): not at all, by appending commands that pass the demo *)
(* check, by removing the holder, or by both, outside demo.  Each way      *)
(* issues nothing in demo.  And what begins in demo comes to nothing       *)
(* (BeginsNothing), because an answer only moves tasks that await one.     *)
(***************************************************************************)
EXTENDS RelaySessions, FiniteSetTheorems, TLAPS

\* The queue holds commands; no more is needed of any other variable.
QueueTyped == queue \in Seq(Commands)

OnHost(c) == c.op \in {"run", "forward"}

\* The two parts of DemoIssuesNothing, without their box.
NothingIssued == mode = "demo" /\ mode' = "demo" => IssuesNone

Unbegun(t) == job[t].pc \in {"off", "imported"}

BeginsNothing == mode = "demo" => \A t \in Tasks : Unbegun(t) => Unbegun(t)'

\* A command that may be appended now.
Admitted(c) == c \in Commands /\ (mode = "demo" => ~OnHost(c))

QueueMoves ==
    \/ UNCHANGED queue
    \/ \E c \in Commands : Admitted(c) /\ queue' = queue \o <<c>>
    \/ \E c \in Commands : Admitted(c) /\ queue' = queue \o <<c, c>>
    \/ queue # <<>> /\ queue' = Tail(queue)
    \/ \E c \in Commands :
         queue # <<>> /\ mode # "demo" /\ queue' = Tail(queue) \o <<c, c>>

-----------------------------------------------------------------------------
(* What the moves of the queue do.                                         *)

\* Appended commands are at the end, and none of them is for a host in demo.
LEMMA AppendedOnly ==
    ASSUME QueueTyped, NEW cs \in Seq(Commands), queue' = queue \o cs,
           \A i \in DOMAIN cs : Admitted(cs[i])
    PROVE  QueueTyped' /\ NothingIssued
<1>1. QueueTyped'
  BY DEF QueueTyped
<1>2. SUFFICES ASSUME mode = "demo", NEW i \in DOMAIN queue', OnHost(queue'[i])
               PROVE  i + 0 \in DOMAIN queue /\ queue'[i] = queue[i + 0]
  BY <1>1 DEF NothingIssued, IssuesNone, OnHost
<1>3. CASE i \in 1..Len(queue)
  BY <1>3 DEF QueueTyped
<1>4. CASE i \notin 1..Len(queue)
  <2>1. i - Len(queue) \in DOMAIN cs /\ queue'[i] = cs[i - Len(queue)]
    BY <1>4 DEF QueueTyped
  <2> QED
    BY <2>1, <1>2 DEF Admitted
<1> QED
  BY <1>3, <1>4

\* The holder ends: the others move up.
LEMMA HolderEnds ==
    ASSUME QueueTyped, queue # <<>>, queue' = Tail(queue)
    PROVE  QueueTyped' /\ NothingIssued
<1>1. QueueTyped' /\ Len(queue') = Len(queue) - 1
  BY DEF QueueTyped
<1>2. \A i \in DOMAIN queue' : i + 1 \in DOMAIN queue /\ queue'[i] = queue[i + 1]
  BY DEF QueueTyped
<1> QED
  BY <1>1, <1>2 DEF NothingIssued, IssuesNone

\* Every move keeps the queue's type and issues nothing in demo.
LEMMA MovesIssueNothing ==
    ASSUME QueueTyped, QueueMoves
    PROVE  QueueTyped' /\ NothingIssued
<1>1. CASE UNCHANGED queue
  <2>1. \A i \in DOMAIN queue : i + 0 \in DOMAIN queue /\ queue[i] = queue[i + 0]
    BY DEF QueueTyped
  <2> QED
    BY <1>1, <2>1 DEF QueueTyped, NothingIssued, IssuesNone
<1>2. CASE \E c \in Commands : Admitted(c) /\ queue' = queue \o <<c>>
  <2>1. PICK c \in Commands : Admitted(c) /\ queue' = queue \o <<c>>
    BY <1>2
  <2>2. <<c>> \in Seq(Commands) /\ \A i \in DOMAIN <<c>> : <<c>>[i] = c
    OBVIOUS
  <2> QED
    BY <2>1, <2>2, AppendedOnly
<1>3. CASE \E c \in Commands : Admitted(c) /\ queue' = queue \o <<c, c>>
  <2>1. PICK c \in Commands : Admitted(c) /\ queue' = queue \o <<c, c>>
    BY <1>3
  <2>2. <<c, c>> \in Seq(Commands) /\ \A i \in DOMAIN <<c, c>> : <<c, c>>[i] = c
    OBVIOUS
  <2> QED
    BY <2>1, <2>2, AppendedOnly
<1>4. CASE queue # <<>> /\ queue' = Tail(queue)
  BY <1>4, HolderEnds
<1>5. CASE \E c \in Commands :
             queue # <<>> /\ mode # "demo" /\ queue' = Tail(queue) \o <<c, c>>
  BY <1>5 DEF QueueTyped, NothingIssued
<1> QED
  BY <1>1, <1>2, <1>3, <1>4, <1>5 DEF QueueMoves

-----------------------------------------------------------------------------
(* Every step moves the queue in one of these ways.                        *)

LEMMA CommandTyped ==
    ASSUME NEW t \in Tasks
    PROVE  /\ Command(t, "check") \in Commands /\ Command(t, "check").op = "check"
           /\ Command(t, "remove") \in Commands /\ Command(t, "remove").op = "remove"
           /\ Command(t, "insert") \in Commands /\ Command(t, "insert").op = "insert"
           /\ Command(t, "run") \in Commands /\ Command(t, "forward") \in Commands
BY DEF Command, Commands

LEMMA CommandAdmitted ==
    ASSUME NEW t \in Tasks
    PROVE  /\ Admitted(Command(t, "check"))
           /\ Admitted(Command(t, "remove"))
           /\ Admitted(Command(t, "insert"))
           /\ mode # "demo" => Admitted(Command(t, "run")) /\ Admitted(Command(t, "forward"))
BY CommandTyped DEF Admitted, OnHost

LEMMA StepMoves ==
    ASSUME NEW t \in Tasks, Step(t)
    PROVE  QueueMoves
<1>1. CASE TickAsks(t)
  BY <1>1, CommandTyped, CommandAdmitted DEF TickAsks, Enqueue, QueueMoves
<1>2. CASE Handshake(t)
  BY <1>2, CommandTyped, CommandAdmitted DEF Handshake, Enqueue, QueueMoves
<1>3. CASE DbHandshake(t)
  BY <1>3, CommandTyped, CommandAdmitted DEF DbHandshake, Enqueue, QueueMoves
<1>4. CASE Retry(t)
  BY <1>4, CommandTyped, CommandAdmitted
     DEF Retry, AskDb, Blocked, Enqueue, QueueMoves
<1>5. CASE QueryEnds(t)
  BY <1>5 DEF QueryEnds, QueueMoves
<1>6. CASE QueryBreaks(t)
  BY <1>6 DEF QueryBreaks, QueueMoves
<1> QED
  BY <1>1, <1>2, <1>3, <1>4, <1>5, <1>6 DEF Step

\* Only relay_ssh_run's answer issues commands, through the check once more.
LEMMA RunEndsMoves ==
    ASSUME QueueTyped, RunEnds
    PROVE  QueueMoves
<1>1. queue # <<>> /\ Holder \in Commands
  BY DEF RunEnds, QueueTyped, Holder
<1>2. Holder.task \in Tasks
  BY <1>1 DEF Commands
<1>3. Command(Holder.task, "run") \in Commands
  BY <1>2, CommandTyped
<1> QED
  BY <1>1, <1>3 DEF RunEnds, Blocked, QueueMoves

LEMMA AnswerMoves ==
    ASSUME QueueTyped, Answer
    PROVE  QueueMoves
<1>1. CASE RunEnds
  BY <1>1, RunEndsMoves
<1>2. CASE CheckEnds
  BY <1>2 DEF CheckEnds, QueueMoves
<1>3. CASE RemoveEnds
  BY <1>3 DEF RemoveEnds, QueueMoves
<1>4. CASE InsertEnds
  BY <1>4 DEF InsertEnds, QueueMoves
<1>5. CASE ForwardEnds
  BY <1>5 DEF ForwardEnds, QueueMoves
<1> QED
  BY <1>1, <1>2, <1>3, <1>4, <1>5 DEF Answer

\* The operator's and the poll's own beginnings.
LEMMA BeginningsMove ==
    ASSUME NEW t \in Tasks,
           \/ \E r \in Relays : TickBegins(t, r) \/ Visit(t, r) \/ Leave(t, r) \/ Open(t, r)
           \/ Query(t) \/ Revive(t)
    PROVE  QueueMoves
<1>1. ASSUME NEW r \in Relays, TickBegins(t, r) PROVE QueueMoves
  BY <1>1 DEF TickBegins, QueueMoves
<1>2. ASSUME NEW r \in Relays, Visit(t, r) PROVE QueueMoves
  BY <1>2, CommandTyped, CommandAdmitted DEF Visit, Enqueue, QueueMoves
<1>3. ASSUME NEW r \in Relays, Leave(t, r) PROVE QueueMoves
  BY <1>3, CommandTyped, CommandAdmitted DEF Leave, Enqueue, QueueMoves
<1>4. ASSUME NEW r \in Relays, Open(t, r) PROVE QueueMoves
  BY <1>4, CommandTyped, CommandAdmitted DEF Open, Enqueue, QueueMoves
<1>5. CASE Query(t)
  BY <1>5, CommandTyped, CommandAdmitted DEF Query, Enqueue, QueueMoves
<1>6. CASE Revive(t)
  BY <1>6 DEF Revive, QueueMoves
<1> QED
  BY <1>1, <1>2, <1>3, <1>4, <1>5, <1>6

LEMMA NextMoves ==
    ASSUME QueueTyped, [Next]_vars
    PROVE  QueueMoves
<1>1. CASE Answer
  BY <1>1, AnswerMoves
<1>2. CASE \E t \in Tasks : Step(t)
  BY <1>2, StepMoves
<1>3. CASE \E t \in Ticks, r \in Relays : TickBegins(t, r)
  BY <1>3, BeginningsMove DEF Tasks
<1>4. CASE \E t \in Clicks, r \in Relays : Visit(t, r) \/ Leave(t, r) \/ Open(t, r)
  BY <1>4, BeginningsMove DEF Tasks
<1>5. CASE \E t \in Queries : Query(t) \/ Revive(t)
  BY <1>5, BeginningsMove DEF Tasks
<1>6. CASE \E id \in Ids : DropLink(id) \/ Keepalive(id)
  BY <1>6 DEF DropLink, Keepalive, QueueMoves
<1>7. CASE \E r \in Relays : Hang(r) \/ Recover(r)
  BY <1>7 DEF Hang, Recover, QueueMoves
<1>8. CASE FlipMode
  BY <1>8 DEF FlipMode, QueueMoves
<1>9. CASE UNCHANGED vars
  BY <1>9 DEF vars, QueueMoves
<1> QED
  BY <1>1, <1>2, <1>3, <1>4, <1>5, <1>6, <1>7, <1>8, <1>9 DEF Next

-----------------------------------------------------------------------------
(* The commands of one task in the queue.                                  *)

Mine(t) == {i \in DOMAIN queue : queue[i].task = t}

NoneOf(t) == Mine(t) = {}
OneOf(t) == \A i, j \in Mine(t) : i = j
TwoOf(t) == \A i, j, k \in Mine(t) : i = j \/ i = k \/ j = k
OnlyRuns(t) == \A i \in Mine(t) : queue[i].op = "run"
NoRuns(t) == \A i \in Mine(t) : queue[i].op # "run"

\* What the step keeps of a task's commands: all that is known of them.
Keeps(t) ==
    /\ NoneOf(t) => NoneOf(t)'
    /\ OneOf(t) => OneOf(t)'
    /\ TwoOf(t) => TwoOf(t)'
    /\ OnlyRuns(t) => OnlyRuns(t)'
    /\ NoRuns(t) => NoRuns(t)'

\* Its commands are among those there were, `ended` places further down.
WereThere(t, ended) ==
    \A i \in Mine(t)' : i + ended \in Mine(t) /\ queue'[i] = queue[i + ended]

LEMMA KeepsFewer ==
    ASSUME NEW t, NEW ended \in 0..1, QueueTyped', WereThere(t, ended)
    PROVE  Keeps(t)
<1> USE DEF WereThere
<1>1. \A i \in Mine(t)' : i \in Nat
  BY DEF Mine, QueueTyped
<1>2. NoneOf(t) => NoneOf(t)'
  BY DEF NoneOf
<1>3. OneOf(t) => OneOf(t)'
  BY <1>1 DEF OneOf
<1>4. TwoOf(t) => TwoOf(t)'
  <2> SUFFICES ASSUME TwoOf(t), NEW i \in Mine(t)', NEW j \in Mine(t)', NEW k \in Mine(t)'
               PROVE  i = j \/ i = k \/ j = k
    BY DEF TwoOf
  <2>1. i + ended = j + ended \/ i + ended = k + ended \/ j + ended = k + ended
    BY DEF TwoOf
  <2> QED
    BY <1>1, <2>1
<1>5. (OnlyRuns(t) => OnlyRuns(t)') /\ (NoRuns(t) => NoRuns(t)')
  BY DEF OnlyRuns, NoRuns
<1> QED
  BY <1>2, <1>3, <1>4, <1>5 DEF Keeps

LEMMA Unqueued ==
    ASSUME QueueTyped, UNCHANGED queue
    PROVE  QueueTyped' /\ \A t : Keeps(t)
BY DEF QueueTyped, Keeps, NoneOf, OneOf, TwoOf, OnlyRuns, NoRuns, Mine

\* One command is appended.
LEMMA OneQueued ==
    ASSUME QueueTyped, NEW c \in Commands, queue' = queue \o <<c>>
    PROVE  /\ QueueTyped' /\ \A t : t # c.task => Keeps(t)
           /\ NoneOf(c.task) => /\ OneOf(c.task)' /\ TwoOf(c.task)'
                                /\ c.op = "run" => OnlyRuns(c.task)'
                                /\ c.op # "run" => NoRuns(c.task)'
<1>1. /\ QueueTyped' /\ Len(queue') = Len(queue) + 1 /\ queue'[Len(queue) + 1] = c
      /\ \A i \in 1..Len(queue) : queue'[i] = queue[i]
  BY DEF QueueTyped
<1>2. ASSUME NEW t, t # c.task PROVE Keeps(t)
  <2>1. WereThere(t, 0)
    BY <1>1, <1>2 DEF WereThere, Mine, QueueTyped
  <2> QED
    BY <1>1, <2>1, KeepsFewer
<1>3. NoneOf(c.task) => \A i \in Mine(c.task)' : i = Len(queue) + 1
  BY <1>1 DEF NoneOf, Mine, QueueTyped
<1> QED
  BY <1>1, <1>2, <1>3 DEF OneOf, TwoOf, OnlyRuns, NoRuns

\* Two are appended, to the queue or to what its holder leaves.
LEMMA TwoQueued ==
    ASSUME QueueTyped, NEW c \in Commands, queue' = queue \o <<c, c>>
    PROVE  /\ QueueTyped' /\ \A t : t # c.task => Keeps(t)
           /\ NoneOf(c.task) => /\ TwoOf(c.task)'
                                /\ c.op = "run" => OnlyRuns(c.task)'
<1>1. /\ QueueTyped' /\ Len(queue') = Len(queue) + 2
      /\ queue'[Len(queue) + 1] = c /\ queue'[Len(queue) + 2] = c
      /\ \A i \in 1..Len(queue) : queue'[i] = queue[i]
  BY DEF QueueTyped
<1>2. ASSUME NEW t, t # c.task PROVE Keeps(t)
  <2>1. WereThere(t, 0)
    BY <1>1, <1>2 DEF WereThere, Mine, QueueTyped
  <2> QED
    BY <1>1, <2>1, KeepsFewer
<1>3. NoneOf(c.task) => \A i \in Mine(c.task)' : i = Len(queue) + 1 \/ i = Len(queue) + 2
  BY <1>1 DEF NoneOf, Mine, QueueTyped
<1> QED
  BY <1>1, <1>2, <1>3 DEF TwoOf, OnlyRuns

\* The holder ends.
LEMMA HolderGone ==
    ASSUME QueueTyped, queue # <<>>, queue' = Tail(queue), NEW t
    PROVE  QueueTyped' /\ Keeps(t) /\ (t = Holder.task /\ OneOf(t) => NoneOf(t)')
<1>1. /\ QueueTyped' /\ Len(queue') = Len(queue) - 1 /\ Holder = queue[1] /\ 1 \in DOMAIN queue
      /\ \A i \in DOMAIN queue' : i + 1 \in DOMAIN queue /\ queue'[i] = queue[i + 1]
  BY DEF QueueTyped, Holder
<1>2. WereThere(t, 1)
  BY <1>1 DEF WereThere, Mine
<1>3. Keeps(t)
  BY <1>1, <1>2, KeepsFewer
<1>4. ASSUME t = Holder.task, OneOf(t), NEW i \in Mine(t)' PROVE FALSE
  <2>1. i + 1 \in Mine(t)
    BY <1>2 DEF WereThere
  <2>2. 1 \in Mine(t)
    BY <1>1, <1>4 DEF Mine
  <2>3. i \in Nat /\ i > 0
    BY <1>1 DEF Mine, QueueTyped
  <2>4. i + 1 = 1
    BY <1>4, <2>1, <2>2 DEF OneOf
  <2> QED
    BY <2>3, <2>4
<1> QED
  BY <1>1, <1>3, <1>4 DEF NoneOf

LEMMA HolderTurns ==
    ASSUME QueueTyped, queue # <<>>, NEW c \in Commands, c.task = Holder.task,
           queue' = Tail(queue) \o <<c, c>>
    PROVE  /\ QueueTyped' /\ \A t : t # c.task => Keeps(t)
           /\ OneOf(c.task) => /\ TwoOf(c.task)'
                               /\ c.op = "run" => OnlyRuns(c.task)'
<1>1. /\ QueueTyped' /\ Len(queue') = Len(queue) + 1 /\ Holder = queue[1]
      /\ queue'[Len(queue)] = c /\ queue'[Len(queue) + 1] = c
      /\ \A i \in 1..(Len(queue) - 1) : i + 1 \in DOMAIN queue /\ queue'[i] = queue[i + 1]
  BY DEF QueueTyped, Holder
<1>2. ASSUME NEW t, t # c.task PROVE Keeps(t)
  <2>1. WereThere(t, 1)
    BY <1>1, <1>2 DEF WereThere, Mine, QueueTyped
  <2> QED
    BY <1>1, <2>1, KeepsFewer
<1>3. ASSUME OneOf(c.task), NEW i \in Mine(c.task)'
      PROVE  i = Len(queue) \/ i = Len(queue) + 1
  <2>1. i \in 1..(Len(queue) + 1) /\ queue'[i].task = c.task /\ Len(queue) \in Nat
    BY <1>1 DEF Mine, QueueTyped
  <2>2. CASE i \in 1..(Len(queue) - 1)
    <3>1. i + 1 \in Mine(c.task) /\ 1 \in Mine(c.task)
      BY <1>1, <2>1, <2>2 DEF Mine, QueueTyped
    <3> QED
      BY <1>3, <2>1, <3>1 DEF OneOf
  <2> QED
    BY <2>1, <2>2
<1> QED
  BY <1>1, <1>2, <1>3 DEF TwoOf, OnlyRuns

-----------------------------------------------------------------------------
(* The inductive invariant: where a task stands tells which commands it    *)
(* has in the queue.                                                       *)

Steps == {"off", "imported", "probing", "scraping", "waiting", "handshake",
          "inserting", "awaiting", "retry", "running", "cut"}

\* Places where a task waits for no command.
Quiet == {"off", "handshake", "awaiting", "retry", "running", "cut"}

Jobs == [kind : {"none", "tick", "visit", "leave", "open", "query", "revive"},
         of : Ids, ok : BOOLEAN, pc : Steps]

JobTyped == job \in [Tasks -> Jobs]

TabsTyped ==
    /\ active \in [Relays -> BOOLEAN] /\ timer \in [Relays -> BOOLEAN]
    /\ smode \in [Relays -> {"ssh", "demo"}] /\ probe \subseteq Relays

RestTyped ==
    /\ world \in Worlds /\ mode \in {"live", "demo"}
    /\ sess \in [Ids -> {"none", "up", "lost", "closed"}] /\ hung \subseteq Relays
    /\ dbUp \in BOOLEAN /\ disturbed \in 0..MaxDisturb

\* A task that waits for no command has none; a tick that looks for its node has
\* one and a tick that reads metrics and peers at most two, for a host; every
\* other command is alone.
Fits(t) ==
    /\ job[t].pc \in {"imported", "probing", "scraping"} => t \in Ticks /\ job[t].of \in Relays
    /\ job[t].pc \in {"probing", "scraping"} => OnlyRuns(t) /\ TwoOf(t)
    /\ job[t].pc \in {"waiting", "inserting"} => NoRuns(t)
    /\ job[t].pc \in {"probing", "waiting", "inserting"} => OneOf(t)
    /\ job[t].pc \notin {"probing", "scraping", "waiting", "inserting"} => NoneOf(t)

AllFit == \A t \in Tasks : Fits(t)

SessionsInv == QueueTyped /\ JobTyped /\ TabsTyped /\ RestTyped /\ AllFit

-----------------------------------------------------------------------------
(* A task that the step leaves where it is still fits; so does one that    *)
(* goes where its commands say.                                            *)

LEMMA StaysFit ==
    ASSUME NEW t \in Tasks, Fits(t), Keeps(t), job'[t] = job[t]
    PROVE  Fits(t)'
BY DEF Fits, Keeps

LEMMA QuietFits ==
    ASSUME NEW t \in Tasks, NoneOf(t)', job'[t].pc \in Quiet
    PROVE  Fits(t)'
BY DEF Fits, Quiet

LEMMA AloneFits ==
    ASSUME NEW t \in Tasks, OneOf(t)', NoRuns(t)', job'[t].pc \in {"waiting", "inserting"}
    PROVE  Fits(t)'
BY DEF Fits

LEMMA MovesJob ==
    ASSUME JobTyped, NEW t \in Tasks, NEW step \in Steps, Goto(t, step)
    PROVE  /\ JobTyped' /\ job'[t].pc = step /\ job'[t].of = job[t].of
           /\ \A u \in Tasks \ {t} : job'[u] = job[u]
BY DEF JobTyped, Jobs, Goto

LEMMA EndsJob ==
    ASSUME JobTyped, NEW t \in Tasks, Done(t)
    PROVE  /\ JobTyped' /\ job'[t].pc = "off"
           /\ \A u \in Tasks \ {t} : job'[u] = job[u]
BY DEF JobTyped, Jobs, Steps, Done, Off, Ids

LEMMA BeginsJob ==
    ASSUME JobTyped, NEW t \in Tasks, NEW r \in Ids, NEW step \in Steps,
           NEW kind \in {"tick", "visit", "leave", "open", "query", "revive"},
           Begin(t, kind, r, step)
    PROVE  /\ JobTyped' /\ job'[t].pc = step /\ job'[t].of = r
           /\ \A u \in Tasks \ {t} : job'[u] = job[u]
BY DEF JobTyped, Jobs, Begin

\* It asks for the reconnect, or fails.
LEMMA GoneJob ==
    ASSUME JobTyped, NEW t \in Tasks, Gone(t)
    PROVE  /\ JobTyped' /\ job'[t].pc \in Quiet
           /\ \A u \in Tasks \ {t} : job'[u] = job[u]
<1>1. CASE Done(t)
  BY <1>1, EndsJob DEF Quiet
<1>2. CASE job' = [job EXCEPT ![t].ok = FALSE,
                              ![t].pc = IF Reconnecting THEN "awaiting" ELSE "handshake"]
  <2>1. PICK step \in {"awaiting", "handshake"} :
          job' = [job EXCEPT ![t].ok = FALSE, ![t].pc = step]
    BY <1>2
  <2> QED
    BY <2>1 DEF JobTyped, Jobs, Steps, Quiet
<1> QED
  BY <1>1, <1>2 DEF Gone

\* Tasks without commands move to where they need none.
LEMMA ManyMove ==
    ASSUME AllFit,
           \A u \in Tasks : /\ Keeps(u)
                            /\ job'[u] = job[u] \/ (NoneOf(u)' /\ job'[u].pc \in Quiet)
    PROVE  AllFit'
<1>1. ASSUME NEW u \in Tasks PROVE Fits(u)'
  BY StaysFit, QuietFits DEF AllFit
<1> QED
  BY <1>1 DEF AllFit

\* The queries that run over a session are without commands.
LEMMA CutsQuietly ==
    ASSUME QueueTyped, JobTyped, AllFit, UNCHANGED queue, job' = CutQueries(job)
    PROVE  QueueTyped' /\ JobTyped' /\ AllFit'
<1>1. QueueTyped' /\ \A u : Keeps(u)
  BY Unqueued
<1>2. JobTyped'
  BY DEF JobTyped, Jobs, Steps, CutQueries
<1>3. ASSUME NEW u \in Tasks
      PROVE  job'[u] = job[u] \/ (NoneOf(u)' /\ job'[u].pc \in Quiet)
  <2>1. CASE job[u].pc = "running"
    BY <1>1, <2>1 DEF CutQueries, JobTyped, Jobs, Quiet, AllFit, Fits, Keeps
  <2>2. CASE job[u].pc # "running"
    BY <2>2 DEF CutQueries, JobTyped, Jobs
  <2> QED
    BY <2>1, <2>2
<1> QED
  BY <1>1, <1>2, <1>3, ManyMove

\* One task moves, and the commands of the others stay.
LEMMA OneMoves ==
    ASSUME AllFit, NEW t \in Tasks, Fits(t)',
           \A u \in Tasks \ {t} : job'[u] = job[u] /\ Keeps(u)
    PROVE  AllFit'
<1>1. ASSUME NEW u \in Tasks, u # t PROVE Fits(u)'
  BY <1>1, StaysFit DEF AllFit
<1> QED
  BY <1>1 DEF AllFit

\* It issues nothing and waits for nothing.
LEMMA MovesQuietly ==
    ASSUME QueueTyped, AllFit, NEW t \in Tasks, UNCHANGED queue, NoneOf(t),
           job'[t].pc \in Quiet,
           \A u \in Tasks \ {t} : job'[u] = job[u]
    PROVE  QueueTyped' /\ AllFit'
<1>1. QueueTyped' /\ (\A u : Keeps(u)) /\ NoneOf(t)'
  BY Unqueued DEF Keeps
<1> QED
  BY <1>1, QuietFits, OneMoves

\* It waits for a command that is not for a host through relay_ssh_run.
LEMMA MovesToWait ==
    ASSUME QueueTyped, AllFit, NEW t \in Tasks, NoneOf(t),
           NEW op \in {"check", "remove", "insert", "forward"}, Enqueue(<<Command(t, op)>>),
           job'[t].pc \in {"waiting", "inserting"},
           \A u \in Tasks \ {t} : job'[u] = job[u]
    PROVE  QueueTyped' /\ AllFit'
<1>1. Command(t, op) \in Commands /\ Command(t, op).task = t /\ Command(t, op).op # "run"
  BY DEF Command, Commands
<1>2. queue' = queue \o <<Command(t, op)>>
  BY DEF Enqueue
<1>3. QueueTyped' /\ OneOf(t)' /\ NoRuns(t)' /\ \A u : u # t => Keeps(u)
  BY <1>1, <1>2, OneQueued
<1> QED
  BY <1>3, AloneFits, OneMoves

-----------------------------------------------------------------------------
(* The steps that leave the mutex with its holder.                         *)

\* What a step has to keep of the invariant; the sorts of the remaining
\* variables follow from the assignments.
Kept == QueueTyped' /\ JobTyped' /\ TabsTyped' /\ RestTyped' /\ AllFit'

LEMMA TickBeginsKeeps ==
    ASSUME SessionsInv, NEW t \in Ticks, NEW r \in Relays, TickBegins(t, r)
    PROVE  Kept
<1>1. t \in Tasks /\ r \in Ids /\ "imported" \in Steps
  BY DEF Tasks, Ids, Steps
<1>2. JobTyped' /\ job'[t].pc = "imported" /\ job'[t].of = r
      /\ \A u \in Tasks \ {t} : job'[u] = job[u]
  BY <1>1, BeginsJob DEF TickBegins, SessionsInv
<1>3. QueueTyped' /\ (\A u : Keeps(u))
  BY Unqueued DEF TickBegins, SessionsInv
<1>4. NoneOf(t)'
  BY <1>1, <1>3 DEF TickBegins, SessionsInv, AllFit, Fits, At, Keeps
<1>5. Fits(t)'
  BY <1>2, <1>4 DEF Fits
<1>6. AllFit'
  BY <1>1, <1>2, <1>3, <1>5, OneMoves DEF SessionsInv
<1>7. TabsTyped' /\ RestTyped'
  BY DEF TickBegins, SessionsInv, TabsTyped, RestTyped, tabs, links
<1> QED
  BY <1>2, <1>3, <1>6, <1>7 DEF Kept

LEMMA TickAsksKeeps ==
    ASSUME SessionsInv, NEW t \in Tasks, TickAsks(t)
    PROVE  Kept
<1>1. t \in Ticks /\ job[t].of \in Relays /\ NoneOf(t)
  BY DEF TickAsks, SessionsInv, AllFit, Fits, At
<1>2. Command(t, "run") \in Commands /\ Command(t, "run").task = t /\ Command(t, "run").op = "run"
  BY DEF Command, Commands
<1>3. TabsTyped' /\ RestTyped'
  BY DEF TickAsks, SessionsInv, TabsTyped, RestTyped, tabs, links
<1>4. CASE Done(t) /\ UNCHANGED queue
  <2>1. JobTyped' /\ job'[t].pc = "off" /\ \A u \in Tasks \ {t} : job'[u] = job[u]
    BY <1>4, EndsJob DEF SessionsInv
  <2>2. QueueTyped' /\ AllFit'
    BY <1>1, <1>4, <2>1, MovesQuietly DEF SessionsInv, Quiet
  <2> QED
    BY <1>3, <2>1, <2>2 DEF Kept
<1>5. CASE Goto(t, "scraping") /\ Enqueue(<<Command(t, "run"), Command(t, "run")>>)
  <2>1. JobTyped' /\ job'[t].pc = "scraping" /\ job'[t].of = job[t].of
        /\ \A u \in Tasks \ {t} : job'[u] = job[u]
    BY <1>5, MovesJob DEF SessionsInv, Steps
  <2>2. QueueTyped' /\ TwoOf(t)' /\ OnlyRuns(t)' /\ \A u : u # t => Keeps(u)
    BY <1>1, <1>2, <1>5, TwoQueued DEF SessionsInv, Enqueue
  <2>3. Fits(t)'
    BY <1>1, <2>1, <2>2 DEF Fits
  <2>4. AllFit'
    BY <2>1, <2>2, <2>3, OneMoves DEF SessionsInv
  <2> QED
    BY <1>3, <2>1, <2>2, <2>4 DEF Kept
<1>6. CASE Goto(t, "probing") /\ Enqueue(<<Command(t, "run")>>)
  <2>1. JobTyped' /\ job'[t].pc = "probing" /\ job'[t].of = job[t].of
        /\ \A u \in Tasks \ {t} : job'[u] = job[u]
    BY <1>6, MovesJob DEF SessionsInv, Steps
  <2>2. QueueTyped' /\ OneOf(t)' /\ TwoOf(t)' /\ OnlyRuns(t)' /\ \A u : u # t => Keeps(u)
    BY <1>1, <1>2, <1>6, OneQueued DEF SessionsInv, Enqueue
  <2>3. Fits(t)'
    BY <1>1, <2>1, <2>2 DEF Fits
  <2>4. AllFit'
    BY <2>1, <2>2, <2>3, OneMoves DEF SessionsInv
  <2> QED
    BY <1>3, <2>1, <2>2, <2>4 DEF Kept
<1> QED
  BY <1>4, <1>5, <1>6 DEF TickAsks

\* A handler of the tab or a query begins by waiting for a command.
LEMMA BeginsWaiting ==
    ASSUME SessionsInv, NEW t \in Tasks, NEW r \in Ids, At(t, "off"),
           NEW kind \in {"visit", "leave", "open", "query"},
           NEW op \in {"check", "remove", "forward"},
           Begin(t, kind, r, "waiting"), Enqueue(<<Command(t, op)>>)
    PROVE  QueueTyped' /\ JobTyped' /\ AllFit'
<1>1. NoneOf(t)
  BY DEF SessionsInv, AllFit, Fits, At
<1>2. JobTyped' /\ job'[t].pc = "waiting" /\ \A u \in Tasks \ {t} : job'[u] = job[u]
  BY BeginsJob DEF SessionsInv, Steps
<1> QED
  BY <1>1, <1>2, MovesToWait DEF SessionsInv

LEMMA NothingMoves ==
    ASSUME SessionsInv, UNCHANGED <<queue, job>>
    PROVE  QueueTyped' /\ JobTyped' /\ AllFit'
<1>1. QueueTyped' /\ (\A u : Keeps(u)) /\ \A u \in Tasks : job'[u] = job[u]
  BY Unqueued DEF SessionsInv
<1>2. AllFit'
  BY <1>1, StaysFit DEF SessionsInv, AllFit
<1> QED
  BY <1>1, <1>2 DEF SessionsInv, JobTyped

LEMMA VisitKeeps ==
    ASSUME SessionsInv, NEW t \in Clicks, NEW r \in Relays, Visit(t, r)
    PROVE  Kept
<1>1. t \in Tasks /\ r \in Ids
  BY DEF Tasks, Ids
<1>2. RestTyped'
  BY DEF Visit, SessionsInv, RestTyped, links
<1>3. TabsTyped'
  <2> USE DEF TabsTyped
  <2>1. CASE mode = "demo"
    BY <2>1 DEF Visit, SessionsInv
  <2>2. CASE mode # "demo"
    BY <2>2 DEF Visit, SessionsInv
  <2> QED
    BY <2>1, <2>2
<1>4. CASE UNCHANGED <<queue, job>>
  BY <1>2, <1>3, <1>4, NothingMoves DEF Kept
<1>5. CASE Begin(t, "visit", r, "waiting") /\ Enqueue(<<Command(t, "check")>>)
  <2>1. QueueTyped' /\ JobTyped' /\ AllFit'
    BY <1>1, <1>5, BeginsWaiting DEF Visit
  <2> QED
    BY <1>2, <1>3, <2>1 DEF Kept
<1> QED
  BY <1>4, <1>5 DEF Visit

LEMMA LeaveKeeps ==
    ASSUME SessionsInv, NEW t \in Clicks, NEW r \in Relays, Leave(t, r)
    PROVE  Kept
<1>1. QueueTyped' /\ JobTyped' /\ AllFit'
  BY BeginsWaiting DEF Leave, Tasks, Ids
<1>2. TabsTyped' /\ RestTyped'
  BY DEF Leave, SessionsInv, TabsTyped, RestTyped, links
<1> QED
  BY <1>1, <1>2 DEF Kept

LEMMA OpenKeeps ==
    ASSUME SessionsInv, NEW t \in Clicks, NEW r \in Relays, Open(t, r)
    PROVE  Kept
<1>1. QueueTyped' /\ JobTyped' /\ AllFit'
  BY BeginsWaiting DEF Open, Tasks, Ids
<1>2. TabsTyped' /\ RestTyped'
  BY DEF Open, SessionsInv, TabsTyped, RestTyped, links, tabs
<1> QED
  BY <1>1, <1>2 DEF Kept

LEMMA QueryKeeps ==
    ASSUME SessionsInv, NEW t \in Queries, Query(t)
    PROVE  Kept
<1>1. QueueTyped' /\ JobTyped' /\ AllFit'
  BY BeginsWaiting DEF Query, Tasks, Ids
<1>2. TabsTyped' /\ RestTyped'
  BY DEF Query, SessionsInv, TabsTyped, RestTyped, links, tabs
<1> QED
  BY <1>1, <1>2 DEF Kept

LEMMA ReviveKeeps ==
    ASSUME SessionsInv, NEW t \in Queries, Revive(t)
    PROVE  Kept
<1>1. t \in Tasks /\ Db \in Ids
  BY DEF Tasks, Ids
<1>2. JobTyped' /\ job'[t].pc = "handshake" /\ \A u \in Tasks \ {t} : job'[u] = job[u]
  BY <1>1, BeginsJob DEF Revive, SessionsInv, Steps
<1>3. NoneOf(t) /\ UNCHANGED queue
  BY <1>1 DEF Revive, SessionsInv, AllFit, Fits, At
<1>4. QueueTyped' /\ AllFit'
  BY <1>1, <1>2, <1>3, MovesQuietly DEF SessionsInv, Quiet
<1>5. TabsTyped' /\ RestTyped'
  BY DEF Revive, SessionsInv, TabsTyped, RestTyped, links, tabs
<1> QED
  BY <1>2, <1>4, <1>5 DEF Kept

LEMMA DisturbedTyped ==
    ASSUME disturbed \in 0..MaxDisturb, NEW kind, Disturbed(kind)
    PROVE  disturbed' \in 0..MaxDisturb
BY BoundAssumption DEF Disturbed

LEMMA HandshakeKeeps ==
    ASSUME SessionsInv, NEW t \in Tasks, Handshake(t)
    PROVE  Kept
<1>1. NoneOf(t)
  BY DEF Handshake, SessionsInv, AllFit, Fits, At
<1>2. TabsTyped' /\ RestTyped'
  BY DisturbedTyped DEF Handshake, SessionsInv, TabsTyped, RestTyped, links, tabs
<1>3. CASE Goto(t, "waiting") /\ Enqueue(<<Command(t, "insert")>>)
  <2>1. JobTyped' /\ job'[t].pc = "waiting" /\ \A u \in Tasks \ {t} : job'[u] = job[u]
    BY <1>3, MovesJob DEF SessionsInv, Steps
  <2>2. QueueTyped' /\ AllFit'
    BY <1>1, <1>3, <2>1, MovesToWait DEF SessionsInv
  <2> QED
    BY <1>2, <2>1, <2>2 DEF Kept
<1>4. CASE Done(t) /\ UNCHANGED queue
  <2>1. JobTyped' /\ job'[t].pc = "off" /\ \A u \in Tasks \ {t} : job'[u] = job[u]
    BY <1>4, EndsJob DEF SessionsInv
  <2>2. QueueTyped' /\ AllFit'
    BY <1>1, <1>4, <2>1, MovesQuietly DEF SessionsInv, Quiet
  <2> QED
    BY <1>2, <2>1, <2>2 DEF Kept
<1> QED
  BY <1>3, <1>4 DEF Handshake

\* A refused reconnect ends every query that awaits it; none has a command.
LEMMA DbHandshakeKeeps ==
    ASSUME SessionsInv, NEW t \in Tasks, DbHandshake(t)
    PROVE  Kept
<1>1. NoneOf(t)
  BY DEF DbHandshake, SessionsInv, AllFit, Fits, At
<1>2. TabsTyped'
  BY DEF DbHandshake, SessionsInv, TabsTyped, tabs
<1>3. RestTyped'
  BY DisturbedTyped DEF DbHandshake, SessionsInv, RestTyped, links
<1>4. CASE Goto(t, "inserting") /\ Enqueue(<<Command(t, "insert")>>)
  <2>1. JobTyped' /\ job'[t].pc = "inserting" /\ \A u \in Tasks \ {t} : job'[u] = job[u]
    BY <1>4, MovesJob DEF SessionsInv, Steps
  <2>2. QueueTyped' /\ AllFit'
    BY <1>1, <1>4, <2>1, MovesToWait DEF SessionsInv
  <2> QED
    BY <1>2, <1>3, <2>1, <2>2 DEF Kept
<1>5. CASE /\ job' = [q \in Tasks |-> IF q \in Concerned(t) THEN Off ELSE job[q]]
           /\ UNCHANGED queue
  <2>1. JobTyped'
    BY <1>5 DEF SessionsInv, JobTyped, Jobs, Steps, Off, Ids
  <2>2. QueueTyped' /\ \A u : Keeps(u)
    BY <1>5, Unqueued DEF SessionsInv
  <2>3. ASSUME NEW u \in Tasks
        PROVE  job'[u] = job[u] \/ (NoneOf(u)' /\ job'[u].pc \in Quiet)
    <3>1. CASE u \in Concerned(t)
      <4>1. job'[u].pc = "off" /\ (u = t \/ job[u].pc = "awaiting")
        BY <1>5, <3>1 DEF Off, Concerned, Awaiting
      <4>2. NoneOf(u)
        BY <1>1, <4>1 DEF SessionsInv, AllFit, Fits
      <4> QED
        BY <2>2, <4>1, <4>2 DEF Keeps, Quiet
    <3>2. CASE u \notin Concerned(t)
      BY <1>5, <3>2
    <3> QED
      BY <3>1, <3>2
  <2> QED
    BY <1>2, <1>3, <2>1, <2>2, <2>3, ManyMove DEF Kept, SessionsInv
<1> QED
  BY <1>4, <1>5 DEF DbHandshake

LEMMA RetryKeeps ==
    ASSUME SessionsInv, NEW t \in Tasks, Retry(t)
    PROVE  Kept
<1>1. NoneOf(t)
  BY DEF Retry, SessionsInv, AllFit, Fits, At
<1>2. TabsTyped' /\ RestTyped'
  BY DEF Retry, SessionsInv, TabsTyped, RestTyped, links, tabs
<1>3. CASE Goto(t, "waiting") /\ Enqueue(<<Command(t, "forward")>>)
  <2>1. JobTyped' /\ job'[t].pc = "waiting" /\ \A u \in Tasks \ {t} : job'[u] = job[u]
    BY <1>3, MovesJob DEF SessionsInv, Steps
  <2>2. QueueTyped' /\ AllFit'
    BY <1>1, <1>3, <2>1, MovesToWait DEF SessionsInv
  <2> QED
    BY <1>2, <2>1, <2>2 DEF Kept
<1>4. CASE Done(t) /\ UNCHANGED queue
  <2>1. JobTyped' /\ job'[t].pc = "off" /\ \A u \in Tasks \ {t} : job'[u] = job[u]
    BY <1>4, EndsJob DEF SessionsInv
  <2>2. QueueTyped' /\ AllFit'
    BY <1>1, <1>4, <2>1, MovesQuietly DEF SessionsInv, Quiet
  <2> QED
    BY <1>2, <2>1, <2>2 DEF Kept
<1> QED
  BY <1>3, <1>4 DEF Retry, AskDb

LEMMA QueryEndsKeeps ==
    ASSUME SessionsInv, NEW t \in Tasks, QueryEnds(t)
    PROVE  Kept
<1>1. NoneOf(t) /\ UNCHANGED queue
  BY DEF QueryEnds, SessionsInv, AllFit, Fits, At
<1>2. JobTyped' /\ job'[t].pc = "off" /\ \A u \in Tasks \ {t} : job'[u] = job[u]
  BY EndsJob DEF QueryEnds, SessionsInv
<1>3. QueueTyped' /\ AllFit'
  BY <1>1, <1>2, MovesQuietly DEF SessionsInv, Quiet
<1>4. TabsTyped' /\ RestTyped'
  BY DEF QueryEnds, SessionsInv, TabsTyped, RestTyped, links, tabs
<1> QED
  BY <1>2, <1>3, <1>4 DEF Kept

LEMMA QueryBreaksKeeps ==
    ASSUME SessionsInv, NEW t \in Tasks, QueryBreaks(t)
    PROVE  Kept
<1>1. NoneOf(t) /\ UNCHANGED queue
  BY DEF QueryBreaks, SessionsInv, AllFit, Fits, At
<1>2. JobTyped' /\ job'[t].pc \in Quiet /\ \A u \in Tasks \ {t} : job'[u] = job[u]
  BY GoneJob DEF QueryBreaks, SessionsInv
<1>3. QueueTyped' /\ AllFit'
  BY <1>1, <1>2, MovesQuietly DEF SessionsInv
<1>4. TabsTyped' /\ RestTyped'
  BY DEF QueryBreaks, SessionsInv, TabsTyped, RestTyped, links, tabs
<1> QED
  BY <1>2, <1>3, <1>4 DEF Kept

\* What hosts, links and the mode do moves no task but the queries it cuts.
LEMMA OutsideKeeps ==
    ASSUME SessionsInv,
           \/ \E id \in Ids : DropLink(id) \/ Keepalive(id)
           \/ \E r \in Relays : Hang(r) \/ Recover(r)
           \/ FlipMode
           \/ UNCHANGED vars
    PROVE  Kept
<1> USE DEF SessionsInv, TabsTyped, RestTyped, links, tabs
<1>1. ASSUME NEW id \in Ids, DropLink(id) \/ Keepalive(id) PROVE Kept
  <2>1. CASE DropLink(id)
    BY <2>1, NothingMoves, DisturbedTyped DEF DropLink, Kept
  <2>2. CASE Keepalive(id)
    <3>1. QueueTyped' /\ JobTyped' /\ AllFit'
      BY <2>2, NothingMoves, CutsQuietly DEF Keepalive
    <3> QED
      BY <2>2, <3>1 DEF Keepalive, Kept
  <2> QED
    BY <1>1, <2>1, <2>2
<1>2. ASSUME NEW r \in Relays, Hang(r) \/ Recover(r) PROVE Kept
  BY <1>2, NothingMoves, DisturbedTyped DEF Hang, Recover, Kept
<1>3. CASE FlipMode
  BY <1>3, NothingMoves, DisturbedTyped DEF FlipMode, Kept
<1>4. CASE UNCHANGED vars
  BY <1>4, NothingMoves DEF vars, Kept
<1> QED
  BY <1>1, <1>2, <1>3, <1>4

-----------------------------------------------------------------------------
(* The answers.                                                            *)

LEMMA HolderTyped ==
    ASSUME QueueTyped, queue # <<>>
    PROVE  /\ Holder = queue[1] /\ Holder \in Commands /\ Holder.task \in Tasks
           /\ 1 \in Mine(Holder.task)
<1>1. Holder = queue[1] /\ Holder \in Commands /\ 1 \in DOMAIN queue
  BY DEF Holder, QueueTyped
<1> QED
  BY <1>1 DEF Commands, Mine

\* relay_ssh_run answers only ticks, ...
LEMMA RunIsATicks ==
    ASSUME SessionsInv, queue # <<>>, Holder.op = "run"
    PROVE  job[Holder.task].pc \in {"probing", "scraping"}
<1>1. ~NoRuns(Holder.task) /\ ~NoneOf(Holder.task) /\ Holder.task \in Tasks
  BY HolderTyped DEF SessionsInv, NoRuns, NoneOf
<1> QED
  BY <1>1 DEF SessionsInv, AllFit, Fits

\* ... and what the other commands answer has no further command.
LEMMA HolderAlone ==
    ASSUME SessionsInv, queue # <<>>, Holder.op # "run", queue' = Tail(queue)
    PROVE  /\ Holder.task \in Tasks /\ QueueTyped' /\ \A u : Keeps(u)
           /\ \A u : u = Holder.task => NoneOf(u)'
<1>1. ~OnlyRuns(Holder.task) /\ ~NoneOf(Holder.task) /\ Holder.task \in Tasks
  BY HolderTyped DEF SessionsInv, OnlyRuns, NoneOf
<1>2. OneOf(Holder.task)
  BY <1>1 DEF SessionsInv, AllFit, Fits
<1>3. ASSUME NEW u PROVE QueueTyped' /\ Keeps(u) /\ (u = Holder.task => NoneOf(u)')
  BY <1>2, HolderGone DEF SessionsInv
<1> QED
  BY <1>1, <1>3

LEMMA RunEndsKeeps ==
    ASSUME SessionsInv, RunEnds
    PROVE  Kept
<1> DEFINE t == Holder.task
           c == Command(t, "run")
<1>1. t \in Tasks /\ queue # <<>> /\ Fits(t)
  BY HolderTyped DEF RunEnds, SessionsInv, AllFit
<1>2. job[t].pc \in {"probing", "scraping"} /\ t \in Ticks /\ job[t].of \in Relays
  BY <1>1, RunIsATicks DEF RunEnds, Fits
<1>3. TabsTyped' /\ RestTyped'
  BY <1>2 DEF RunEnds, SessionsInv, TabsTyped, RestTyped, links
<1>4. PICK u \in Tasks : u = t
  BY <1>1
<1>5. CASE At(t, "probing") /\ queue' = Tail(queue) \o <<c, c>> /\ Goto(t, "scraping")
  <2>1. c \in Commands /\ c.task = u /\ c.op = "run"
    BY <1>1, <1>4 DEF Command, Commands
  <2>2. JobTyped' /\ job'[u].pc = "scraping" /\ job'[u].of = job[u].of
        /\ \A v \in Tasks \ {u} : job'[v] = job[v]
    BY <1>4, <1>5, MovesJob DEF SessionsInv, Steps
  <2>3. OneOf(u)
    BY <1>1, <1>4, <1>5 DEF Fits, At
  <2>4. QueueTyped' /\ \A v : v # u => Keeps(v)
    BY <1>1, <1>4, <1>5, <2>1, HolderTurns DEF SessionsInv
  <2>5. TwoOf(u)' /\ OnlyRuns(u)'
    BY <1>1, <1>4, <1>5, <2>1, <2>3, HolderTurns DEF SessionsInv
  <2>6. Fits(u)'
    BY <1>2, <1>4, <2>2, <2>5 DEF Fits
  <2>7. AllFit'
    BY <2>2, <2>4, <2>6, OneMoves DEF SessionsInv
  <2> QED
    BY <1>3, <2>2, <2>4, <2>7 DEF Kept
<1>6. CASE queue' = Tail(queue) /\ UNCHANGED job
  <2>1. QueueTyped' /\ \A v : Keeps(v)
    BY <1>1, <1>6, HolderGone DEF SessionsInv
  <2>2. AllFit'
    BY <1>6, <2>1, StaysFit DEF SessionsInv, AllFit
  <2> QED
    BY <1>3, <1>6, <2>1, <2>2 DEF Kept, SessionsInv, JobTyped
<1>7. CASE /\ queue' = Tail(queue) /\ Done(t)
           /\ ~\E i \in 2..Len(queue) : queue[i].task = t
  <2>1. OneOf(u)
    BY <1>4, <1>7 DEF OneOf, Mine, SessionsInv, QueueTyped
  <2>2. QueueTyped' /\ (\A v : Keeps(v)) /\ NoneOf(u)'
    BY <1>1, <1>4, <1>7, <2>1, HolderGone DEF SessionsInv
  <2>3. JobTyped' /\ job'[u].pc = "off" /\ \A v \in Tasks \ {u} : job'[v] = job[v]
    BY <1>4, <1>7, EndsJob DEF SessionsInv
  <2>4. AllFit'
    BY <2>2, <2>3, QuietFits, OneMoves DEF SessionsInv, Quiet
  <2> QED
    BY <1>3, <2>2, <2>3, <2>4 DEF Kept
<1> QED
  BY <1>5, <1>6, <1>7 DEF RunEnds

\* The other answers: the task that waited goes where it has no command.
LEMMA AnsweredQuietly ==
    ASSUME SessionsInv, queue # <<>>, Holder.op # "run", queue' = Tail(queue),
           \/ Done(Holder.task) \/ Gone(Holder.task)
           \/ \E step \in {"handshake", "awaiting", "running"} : Goto(Holder.task, step)
    PROVE  QueueTyped' /\ JobTyped' /\ AllFit'
<1>1. PICK t \in Tasks : t = Holder.task
  BY HolderAlone
<1>2. QueueTyped' /\ (\A u : Keeps(u)) /\ NoneOf(t)'
  BY <1>1, HolderAlone
<1>3. CASE Done(t)
  <2>1. JobTyped' /\ job'[t].pc = "off" /\ \A u \in Tasks \ {t} : job'[u] = job[u]
    BY <1>3, EndsJob DEF SessionsInv
  <2> QED
    BY <1>2, <2>1, QuietFits, OneMoves DEF SessionsInv, Quiet
<1>4. ASSUME NEW step \in {"handshake", "awaiting", "running"}, Goto(t, step)
      PROVE  JobTyped' /\ AllFit'
  <2>1. JobTyped' /\ job'[t].pc = step /\ \A u \in Tasks \ {t} : job'[u] = job[u]
    BY <1>4, MovesJob DEF SessionsInv, Steps
  <2> QED
    BY <1>2, <1>4, <2>1, QuietFits, OneMoves DEF SessionsInv, Quiet
<1>5. CASE Gone(t)
  <2>1. JobTyped' /\ job'[t].pc \in Quiet /\ \A u \in Tasks \ {t} : job'[u] = job[u]
    BY <1>5, GoneJob DEF SessionsInv
  <2> QED
    BY <1>2, <2>1, QuietFits, OneMoves DEF SessionsInv
<1> QED
  BY <1>1, <1>2, <1>3, <1>4, <1>5

LEMMA CheckEndsKeeps ==
    ASSUME SessionsInv, CheckEnds
    PROVE  Kept
<1>1. QueueTyped' /\ JobTyped' /\ AllFit'
  BY AnsweredQuietly DEF CheckEnds
<1>2. TabsTyped' /\ RestTyped'
  BY DEF CheckEnds, SessionsInv, TabsTyped, RestTyped, links
<1> QED
  BY <1>1, <1>2 DEF Kept

LEMMA RemoveEndsKeeps ==
    ASSUME SessionsInv, RemoveEnds
    PROVE  Kept
<1>1. QueueTyped' /\ JobTyped' /\ AllFit'
  BY AnsweredQuietly DEF RemoveEnds
<1>2. TabsTyped' /\ RestTyped'
  BY DEF RemoveEnds, SessionsInv, TabsTyped, RestTyped
<1> QED
  BY <1>1, <1>2 DEF Kept

\* The new session wakes the queries that awaited it and cuts those that run; none
\* of them has a command.
LEMMA InsertEndsKeeps ==
    ASSUME SessionsInv, InsertEnds
    PROVE  Kept
<1>1. TabsTyped' /\ RestTyped'
  BY DEF InsertEnds, SessionsInv, TabsTyped, RestTyped, tabs
<1>2. PICK t \in Tasks : t = Holder.task
  BY HolderAlone DEF InsertEnds
<1>3. QueueTyped' /\ (\A u : Keeps(u)) /\ NoneOf(t)'
  BY <1>2, HolderAlone DEF InsertEnds
<1>4. CASE Done(t)
  <2>1. JobTyped' /\ AllFit'
    BY <1>2, <1>4, AnsweredQuietly DEF InsertEnds
  <2> QED
    BY <1>1, <1>3, <2>1 DEF Kept
<1>5. CASE job' = CutQueries([q \in Tasks |->
                      IF q \in Concerned(t) THEN [job[q] EXCEPT !.pc = "retry"] ELSE job[q]])
  <2>1. JobTyped'
    BY <1>5 DEF SessionsInv, JobTyped, Jobs, Steps, CutQueries
  <2>2. ASSUME NEW u \in Tasks
        PROVE  job'[u] = job[u] \/ (NoneOf(u)' /\ job'[u].pc \in Quiet)
    <3>1. CASE u \in Concerned(t)
      <4>1. job'[u].pc = "retry" /\ (u = t \/ job[u].pc = "awaiting")
        BY <1>5, <3>1 DEF CutQueries, Concerned, Awaiting, SessionsInv, JobTyped, Jobs
      <4> QED
        BY <1>3, <4>1 DEF SessionsInv, AllFit, Fits, Keeps, Quiet
    <3>2. CASE u \notin Concerned(t) /\ job[u].pc = "running"
      <4>1. job'[u].pc = "cut"
        BY <1>5, <3>2 DEF CutQueries, SessionsInv, JobTyped, Jobs
      <4> QED
        BY <1>3, <3>2, <4>1 DEF SessionsInv, AllFit, Fits, Keeps, Quiet
    <3>3. CASE u \notin Concerned(t) /\ job[u].pc # "running"
      BY <1>5, <3>3 DEF CutQueries, SessionsInv, JobTyped, Jobs
    <3> QED
      BY <3>1, <3>2, <3>3
  <2>3. AllFit'
    BY <1>3, <2>2, ManyMove DEF SessionsInv
  <2> QED
    BY <1>1, <1>3, <2>1, <2>3 DEF Kept
<1> QED
  BY <1>2, <1>4, <1>5 DEF InsertEnds

LEMMA ForwardEndsKeeps ==
    ASSUME SessionsInv, ForwardEnds
    PROVE  Kept
<1>1. QueueTyped' /\ JobTyped' /\ AllFit'
  BY AnsweredQuietly DEF ForwardEnds
<1>2. TabsTyped' /\ RestTyped'
  BY DisturbedTyped DEF ForwardEnds, SessionsInv, TabsTyped, RestTyped, links, tabs
<1> QED
  BY <1>1, <1>2 DEF Kept

-----------------------------------------------------------------------------
(* The type invariant.                                                     *)

LEMMA InitFits == Init => SessionsInv
<1> SUFFICES ASSUME Init PROVE SessionsInv
  OBVIOUS
<1>1. QueueTyped /\ JobTyped /\ TabsTyped
  BY DEF Init, QueueTyped, JobTyped, TabsTyped, Jobs, Steps, Off, Ids
<1>2. RestTyped
  BY BoundAssumption DEF Init, RestTyped
<1>3. AllFit
  BY DEF Init, AllFit, Fits, NoneOf, Mine, Off
<1> QED
  BY <1>1, <1>2, <1>3 DEF SessionsInv

LEMMA NextFits == SessionsInv /\ [Next]_vars => SessionsInv'
<1> SUFFICES ASSUME SessionsInv, [Next]_vars PROVE Kept
  BY DEF Kept, SessionsInv
<1>1. CASE Answer
  BY <1>1, RunEndsKeeps, CheckEndsKeeps, RemoveEndsKeeps, InsertEndsKeeps, ForwardEndsKeeps
     DEF Answer
<1>2. CASE \E t \in Tasks : Step(t)
  BY <1>2, TickAsksKeeps, HandshakeKeeps, DbHandshakeKeeps, RetryKeeps, QueryEndsKeeps,
         QueryBreaksKeeps DEF Step
<1>3. CASE \E t \in Ticks, r \in Relays : TickBegins(t, r)
  BY <1>3, TickBeginsKeeps
<1>4. CASE \E t \in Clicks, r \in Relays : Visit(t, r) \/ Leave(t, r) \/ Open(t, r)
  BY <1>4, VisitKeeps, LeaveKeeps, OpenKeeps
<1>5. CASE \E t \in Queries : Query(t) \/ Revive(t)
  BY <1>5, QueryKeeps, ReviveKeeps
<1>6. CASE \/ \E id \in Ids : DropLink(id) \/ Keepalive(id)
           \/ \E r \in Relays : Hang(r) \/ Recover(r)
           \/ FlipMode
           \/ UNCHANGED vars
  BY <1>6, OutsideKeeps
<1> QED
  BY <1>1, <1>2, <1>3, <1>4, <1>5, <1>6 DEF Next

LEMMA OneCounted ==
    ASSUME NEW S \in SUBSET Nat, \A i, j \in S : i = j
    PROVE  Cardinality(S) = 0 \/ Cardinality(S) = 1
<1>1. CASE S = {}
  BY <1>1, FS_EmptySet
<1>2. CASE S # {}
  <2>1. PICK i \in S : TRUE
    BY <1>2
  <2>2. S \subseteq {i} /\ {i} \subseteq S
    BY <2>1
  <2>3. S = {i}
    BY <2>2
  <2>4. Cardinality({i}) = 1
    BY FS_Singleton
  <2> QED
    BY <2>3, <2>4
<1> QED
  BY <1>1, <1>2

LEMMA TwoCounted ==
    ASSUME NEW S \in SUBSET Nat, \A i, j, k \in S : i = j \/ i = k \/ j = k
    PROVE  Cardinality(S) = 0 \/ Cardinality(S) = 1 \/ Cardinality(S) = 2
<1>1. CASE \A i, j \in S : i = j
  BY <1>1, OneCounted
<1>2. CASE ~\A i, j \in S : i = j
  <2>1. PICK i \in S, j \in S : i # j
    BY <1>2
  <2>2. S \subseteq {i} \cup {j} /\ {i} \cup {j} \subseteq S /\ j \notin {i}
    BY <2>1
  <2>3. S = {i} \cup {j}
    BY <2>2
  <2>4. IsFiniteSet({i}) /\ Cardinality({i}) = 1
    BY FS_Singleton
  <2>5. Cardinality({i} \cup {j}) = 1 + 1
    BY <2>2, <2>4, FS_AddElement
  <2> QED
    BY <2>3, <2>5
<1> QED
  BY <1>1, <1>2

LEMMA FitIsTyped == SessionsInv => TypeOK
<1> SUFFICES ASSUME SessionsInv PROVE TypeOK
  OBVIOUS
<1>1. ASSUME NEW t \in Tasks
      PROVE  Cardinality(Mine(t)) <= IF t \in Ticks THEN 2 ELSE 1
  <2>1. Mine(t) \in SUBSET Nat
    BY DEF Mine, SessionsInv, QueueTyped
  <2>2. CASE OneOf(t)
    <3>1. Cardinality(Mine(t)) = 0 \/ Cardinality(Mine(t)) = 1
      BY <2>1, <2>2, OneCounted DEF OneOf
    <3> QED
      BY <3>1
  <2>3. CASE ~OneOf(t)
    <3>1. t \in Ticks /\ TwoOf(t)
      BY <2>3 DEF SessionsInv, AllFit, Fits, JobTyped, Jobs, Steps, OneOf, NoneOf
    <3> QED
      BY <2>1, <3>1, TwoCounted DEF TwoOf
  <2> QED
    BY <2>2, <2>3
<1> QED
  BY <1>1 DEF TypeOK, SessionsInv, QueueTyped, JobTyped, Jobs, Steps, TabsTyped, RestTyped, Mine

\* Nobody crowds the one mutex: every state keeps its types, a tick of a relay's
\* poll never has more than its two commands in the queue and any other handler
\* or query never more than one, whatever drops, hangs and is retried.
THEOREM RelaySessionsTyped == Spec => []TypeOK
<1> QED
  BY InitFits, NextFits, FitIsTyped, PTL DEF Spec

-----------------------------------------------------------------------------
(* What begins in demo.                                                    *)

\* Only what awaits an answer has a command.
LEMMA HolderBegun ==
    ASSUME SessionsInv, queue # <<>>
    PROVE  Holder.task \in Tasks /\ ~Unbegun(Holder.task)
<1>1. Holder.task \in Tasks /\ ~NoneOf(Holder.task)
  BY HolderTyped DEF SessionsInv, NoneOf
<1> QED
  BY <1>1 DEF SessionsInv, AllFit, Fits, Unbegun

\* A step moves tasks that have begun, ends what it moves, or only imports.
LEMMA MovesBegun ==
    ASSUME \A t \in Tasks : Unbegun(t) => job'[t] = job[t] \/ Unbegun(t)'
    PROVE  BeginsNothing
BY DEF BeginsNothing, Unbegun

LEMMA AnswerBegins ==
    ASSUME SessionsInv, Answer
    PROVE  BeginsNothing
<1> SUFFICES ASSUME NEW t \in Tasks, Unbegun(t)
             PROVE  job'[t] = job[t] \/ Unbegun(t)'
  BY MovesBegun
<1>1. Holder.task \in Tasks /\ t # Holder.task
  BY HolderBegun DEF Answer, RunEnds, CheckEnds, RemoveEnds, InsertEnds, ForwardEnds
<1>2. job \in [Tasks -> Jobs]
  BY DEF SessionsInv, JobTyped
<1>3. CASE RunEnds
  BY <1>1, <1>2, <1>3 DEF RunEnds, Goto, Done
<1>4. CASE CheckEnds
  BY <1>1, <1>2, <1>4 DEF CheckEnds, Done
<1>5. CASE RemoveEnds
  BY <1>1, <1>2, <1>5 DEF RemoveEnds, Goto, Done
<1>6. CASE ForwardEnds
  BY <1>1, <1>2, <1>6 DEF ForwardEnds, Gone, Goto, Done
<1>7. CASE InsertEnds
  <2>1. CASE Done(Holder.task)
    BY <1>1, <1>2, <2>1 DEF Done
  <2>2. CASE job' = CutQueries([q \in Tasks |->
                      IF q \in Concerned(Holder.task)
                      THEN [job[q] EXCEPT !.pc = "retry"] ELSE job[q]])
    <3>1. t \notin Concerned(Holder.task)
      BY <1>1 DEF Concerned, Awaiting, Unbegun
    <3> QED
      BY <1>2, <2>2, <3>1 DEF CutQueries, Unbegun, Jobs
  <2> QED
    BY <1>7, <2>1, <2>2 DEF InsertEnds
<1> QED
  BY <1>3, <1>4, <1>5, <1>6, <1>7 DEF Answer

LEMMA StepBegins ==
    ASSUME SessionsInv, NEW u \in Tasks, Step(u)
    PROVE  BeginsNothing
<1> SUFFICES ASSUME mode = "demo", NEW t \in Tasks, Unbegun(t)
             PROVE  job'[t] = job[t] \/ Unbegun(t)'
  BY MovesBegun DEF BeginsNothing, Unbegun
<1>1. job \in [Tasks -> Jobs]
  BY DEF SessionsInv, JobTyped
<1>2. CASE TickAsks(u)
  BY <1>1, <1>2 DEF TickAsks, Done, Unbegun, Off
<1>3. CASE DbHandshake(u)
  <2>1. t # u /\ t \notin Concerned(u)
    BY <1>3 DEF DbHandshake, At, Concerned, Awaiting, Unbegun
  <2> QED
    BY <1>1, <1>3, <2>1 DEF DbHandshake, Goto
<1>4. CASE Handshake(u)
  BY <1>1, <1>4 DEF Handshake, At, Goto, Done, Unbegun
<1>5. CASE Retry(u)
  BY <1>1, <1>5 DEF Retry, AskDb, At, Goto, Done, Unbegun
<1>6. CASE QueryEnds(u)
  BY <1>1, <1>6 DEF QueryEnds, At, Done, Unbegun
<1>7. CASE QueryBreaks(u)
  BY <1>1, <1>7 DEF QueryBreaks, Gone, At, Done, Unbegun
<1> QED
  BY <1>2, <1>3, <1>4, <1>5, <1>6, <1>7 DEF Step

LEMMA NextBegins ==
    ASSUME SessionsInv, [Next]_vars
    PROVE  BeginsNothing
<1>1. job \in [Tasks -> Jobs]
  BY DEF SessionsInv, JobTyped
<1>2. CASE Answer
  BY <1>2, AnswerBegins
<1>3. CASE \E t \in Tasks : Step(t)
  BY <1>3, StepBegins
<1>4. CASE \E t \in Ticks, r \in Relays : TickBegins(t, r)
  BY <1>1, <1>4 DEF TickBegins, Begin, BeginsNothing, Unbegun, Tasks
<1>5. CASE \E t \in Clicks, r \in Relays : Visit(t, r) \/ Leave(t, r) \/ Open(t, r)
  BY <1>5 DEF Visit, Leave, Open, BeginsNothing, Unbegun
<1>6. CASE \E t \in Queries : Query(t) \/ Revive(t)
  BY <1>6 DEF Query, Revive, BeginsNothing
<1>7. CASE \/ \E r \in Relays : Hang(r) \/ Recover(r)
           \/ FlipMode
           \/ UNCHANGED vars
  BY <1>7 DEF Hang, Recover, FlipMode, vars, BeginsNothing, Unbegun
<1>8. CASE \E id \in Ids : DropLink(id) \/ Keepalive(id)
  BY <1>1, <1>8 DEF DropLink, Keepalive, CutQueries, BeginsNothing, Unbegun, Jobs
<1> QED
  BY <1>2, <1>3, <1>4, <1>5, <1>6, <1>7, <1>8 DEF Next

\* No relay_ssh_run and no query is issued in demo, and nothing that begins in demo
\* gets as far as a command or a login: the demo checks of relaySnapshot and of the
\* invoke shim (tauri.js) suffice for that, however many relays, polls and queries
\* await something when the mode flips.
THEOREM DemoIsIsolated == Spec => DemoIssuesNothing
<1>1. SessionsInv /\ [Next]_vars => NothingIssued /\ BeginsNothing
  BY NextMoves, MovesIssueNothing, NextBegins DEF SessionsInv
<1>2. NothingIssued /\ BeginsNothing =>
        (mode = "demo" /\ mode' = "demo" =>
           /\ IssuesNone
           /\ \A t \in Tasks : At(t, "off") \/ At(t, "imported") =>
                  job'[t].pc \in {"off", "imported"})
  BY DEF NothingIssued, BeginsNothing, Unbegun, At
<1> QED
  BY InitFits, NextFits, <1>1, <1>2, PTL DEF Spec, DemoIssuesNothing
=============================================================================
