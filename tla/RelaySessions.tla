---------------------------- MODULE RelaySessions ----------------------------
(***************************************************************************)
(* The SSH sessions beside the node's own: one for every relay and one for *)
(* db-sync, all in one map behind one mutex (RelaySshState in ssh.rs), and *)
(* those who use them: the relay tabs with their background poll           *)
(* (views/relay.js, data/relay-probe.js) and db-sync's queries             *)
(* (pg_query_ssh_via, pgQuery in data/pg-transport.js).                    *)
(*                                                                         *)
(* A command queues for the mutex, which tokio grants in order of arrival, *)
(* and keeps it while it talks to its host: relay_ssh_run for as long as   *)
(* the remote command runs, pg_query_ssh_via until the forward is open.    *)
(* The answer and the code that awaits it are one step: answers reach the  *)
(* web view in the order the commands end.                                 *)
(***************************************************************************)
EXTENDS Naturals, Sequences, FiniteSets, SequencesExt

CONSTANTS
    Relays,       \* relay1 and relay2
    Db,           \* DBSYNC_SSH_ID
    Ticks,        \* identities of poll ticks that may be under way together
    Clicks,       \* identities of the tab's asynchronous handlers
    Queries,      \* identities of db-sync queries
    Worlds,       \* sets of disturbances, one of which an execution may meet
    MaxDisturb    \* bound: how many disturbances happen

ASSUME BoundAssumption == MaxDisturb \in Nat

Disturbances == {"drop", "hang", "refuse", "demo"}
Ids == Relays \cup {Db}
Tasks == Ticks \cup Clicks \cup Queries

VARIABLES
    world,        \* the disturbances of this execution, chosen once
    mode,         \* "live" or "demo"
    sess,         \* the map: an entry's link is up, lost (unnoticed) or closed
    hung,         \* relays whose commands do not return although the link is up
    queue,        \* commands that hold (the first) or wait for the mutex
    job,          \* each running task
    active, timer, smode,   \* the relay's tab: s.active, s.timer, s.mode
    probe,        \* relays with a cached probe
    dbUp,         \* db-sync is not marked down
    disturbed     \* how many disturbances have happened

links == <<sess, hung>>
tabs == <<active, timer, smode, probe>>
vars == <<world, mode, links, queue, job, tabs, dbUp, disturbed>>

\* `ok` falls when a query's first try has failed.
Off == [kind |-> "none", of |-> Db, pc |-> "off", ok |-> TRUE]

Init ==
    /\ world \in Worlds
    /\ mode = "live"
    /\ sess = [i \in Ids |-> IF i = Db THEN "up" ELSE "none"]
    /\ hung = {} /\ queue = <<>>
    /\ job = [t \in Tasks |-> Off]
    /\ active = [r \in Relays |-> FALSE] /\ timer = [r \in Relays |-> FALSE]
    /\ smode = [r \in Relays |-> "ssh"] /\ probe = {}
    /\ dbUp = TRUE
    /\ disturbed = 0

Disturbed(kind) ==
    /\ kind \in world /\ disturbed < MaxDisturb
    /\ disturbed' = disturbed + 1

-----------------------------------------------------------------------------
(* Commands.                                                               *)

Commands == [task : Tasks, op : {"run", "check", "remove", "insert", "forward"}]

Command(t, op) == [task |-> t, op |-> op]

\* Mutant: the web view lets everything through.
BlockedNever(op) == FALSE

\* The invoke shim's backstop: these commands fail in demo (relay_ssh_connect is
\* not among them).
Blocked(op) == op \in {"run", "forward"} /\ mode = "demo"

Enqueue(commands) == queue' = queue \o commands

At(t, step) == job[t].pc = step
Goto(t, step) == job' = [job EXCEPT ![t].pc = step]
Done(t) == job' = [job EXCEPT ![t] = Off]
Begin(t, kind, r, step) ==
    job' = [job EXCEPT ![t] = [kind |-> kind, of |-> r, pc |-> step, ok |-> TRUE]]

-----------------------------------------------------------------------------
(* The poll.                                                               *)

\* setInterval fires whether or not earlier ticks have come back; a tick awaits
\* an import before it looks at the mode.
TickBegins(t, r) ==
    /\ t \in Ticks /\ At(t, "off") /\ timer[r]
    /\ Begin(t, "tick", r, "imported")
    /\ UNCHANGED <<world, mode, links, queue, tabs, dbUp, disturbed>>

\* In demo relaySnapshot answers by itself.  Otherwise, without a cached probe
\* the node is looked for first; with one the metrics and the peers are read side
\* by side.
TickAsks(t) ==
    /\ At(t, "imported")
    /\ IF mode = "demo"
       THEN Done(t) /\ UNCHANGED queue
       ELSE IF job[t].of \in probe
       THEN Goto(t, "scraping") /\ Enqueue(<<Command(t, "run"), Command(t, "run")>>)
       ELSE Goto(t, "probing") /\ Enqueue(<<Command(t, "run")>>)
    /\ UNCHANGED <<world, mode, links, tabs, dbUp, disturbed>>

-----------------------------------------------------------------------------
(* The tab.  Nothing keeps the operator from leaving and coming back, or    *)
(* from pressing a button again, while a handler awaits its command.       *)

\* mountRelay: in demo a synthetic dashboard; else the dashboard if the session
\* is there, which a command has to tell.
Visit(t, r) ==
    /\ t \in Clicks /\ At(t, "off")
    /\ IF mode = "demo"
       THEN /\ smode' = [smode EXCEPT ![r] = "demo"]
            /\ active' = [active EXCEPT ![r] = TRUE]
            /\ timer' = [timer EXCEPT ![r] = TRUE]
            /\ UNCHANGED <<queue, job>>
       ELSE LET left == smode[r] = "demo"
                here == active[r] /\ ~left
            IN  /\ smode' = [smode EXCEPT ![r] = "ssh"]
                /\ active' = [active EXCEPT ![r] = here]
                /\ timer' = [timer EXCEPT ![r] = @ /\ ~left]
                /\ IF here
                   THEN Begin(t, "visit", r, "waiting") /\ Enqueue(<<Command(t, "check")>>)
                   ELSE UNCHANGED <<queue, job>>
    /\ UNCHANGED <<world, mode, links, probe, dbUp, disturbed>>

\* doDisconnect: the poll is stopped, then the session is removed.
Leave(t, r) ==
    /\ t \in Clicks /\ At(t, "off") /\ active[r] /\ mode = "live"
    /\ timer' = [timer EXCEPT ![r] = FALSE]
    /\ Begin(t, "leave", r, "waiting") /\ Enqueue(<<Command(t, "remove")>>)
    /\ UNCHANGED <<world, mode, links, active, smode, probe, dbUp, disturbed>>

\* doConnect: a session that may still be there is removed first.
Open(t, r) ==
    /\ t \in Clicks /\ At(t, "off") /\ ~active[r] /\ mode = "live"
    /\ Begin(t, "open", r, "waiting") /\ Enqueue(<<Command(t, "remove")>>)
    /\ UNCHANGED <<world, mode, links, tabs, dbUp, disturbed>>

\* The handshake does not hold the mutex; it may fail.
Handshake(t) ==
    /\ At(t, "handshake") /\ job[t].kind = "open"
    /\ \/ Goto(t, "waiting") /\ Enqueue(<<Command(t, "insert")>>) /\ UNCHANGED disturbed
       \/ Disturbed("refuse") /\ Done(t) /\ UNCHANGED queue
    /\ UNCHANGED <<world, mode, links, tabs, dbUp>>

-----------------------------------------------------------------------------
(* db-sync's queries.                                                      *)

\* Mutant: the query goes out twice.
AskDbTwice(t) == Goto(t, "waiting") /\ Enqueue(<<Command(t, "forward"), Command(t, "forward")>>)

AskDb(t) ==
    IF Blocked("forward") THEN Done(t) /\ UNCHANGED queue
    ELSE Goto(t, "waiting") /\ Enqueue(<<Command(t, "forward")>>)

Query(t) ==
    /\ t \in Queries /\ At(t, "off") /\ dbUp /\ mode = "live"
    /\ Begin(t, "query", Db, "waiting") /\ Enqueue(<<Command(t, "forward")>>)
    /\ UNCHANGED <<world, mode, links, tabs, dbUp, disturbed>>

\* ensureDbsync, once the backoff is over: a session is opened anew and then asked
\* (initDbsyncDetailed; one query stands for its three).
Revive(t) ==
    /\ t \in Queries /\ At(t, "off") /\ ~dbUp /\ mode = "live"
    /\ ~\E q \in Queries : job[q].kind = "revive"
    /\ Begin(t, "revive", Db, "handshake")
    /\ UNCHANGED <<world, mode, links, queue, tabs, dbUp, disturbed>>

\* Queries that found the session gone share one reconnect (_reconnecting): the
\* first of them leads it, the others await it.
Reconnecting == \E q \in Queries : ~job[q].ok /\ job[q].pc \in {"handshake", "inserting"}

\* Mutant: the promise reaches only the query that leads the reconnect.
AwaitingNobody == {}

Awaiting == {q \in Queries : job[q].pc = "awaiting"}

\* Whom the outcome of t's login concerns: the shared one has others waiting.
Concerned(t) == {t} \cup (IF job[t].ok THEN {} ELSE Awaiting)

\* A failed reconnect marks db-sync down, in demo too.
DbHandshake(t) ==
    /\ At(t, "handshake") /\ job[t].of = Db
    /\ \/ Goto(t, "inserting") /\ Enqueue(<<Command(t, "insert")>>)
          /\ UNCHANGED <<dbUp, disturbed>>
       \/ /\ Disturbed("refuse")
          /\ dbUp' = (dbUp /\ job[t].ok)
          /\ job' = [q \in Tasks |-> IF q \in Concerned(t) THEN Off ELSE job[q]]
          /\ UNCHANGED queue
    /\ UNCHANGED <<world, mode, links, tabs>>

\* The session is gone (SESSION_GONE): the first failure asks for a reconnect,
\* the second is the query's.
Gone(t) ==
    IF job[t].ok
    THEN job' = [job EXCEPT ![t].ok = FALSE,
                            ![t].pc = IF Reconnecting THEN "awaiting" ELSE "handshake"]
    ELSE Done(t)

\* With the session there, what awaited it is sent (again).
Retry(t) ==
    /\ At(t, "retry")
    /\ AskDb(t)
    /\ UNCHANGED <<world, mode, links, tabs, dbUp, disturbed>>

\* The query runs over its own channel and is answered; db-sync is usable once
\* the questions of initDbsyncDetailed are.
QueryEnds(t) ==
    /\ At(t, "running") /\ sess[Db] = "up"
    /\ Done(t)
    /\ dbUp' \in {dbUp, dbUp \/ job[t].kind = "revive"}
    /\ UNCHANGED <<world, mode, links, queue, tabs, disturbed>>

\* The session it ran over was closed or replaced: "connection closed".
QueryBreaks(t) ==
    /\ At(t, "cut")
    /\ Gone(t)
    /\ UNCHANGED <<world, mode, links, queue, tabs, dbUp, disturbed>>

-----------------------------------------------------------------------------
(* The command that holds the mutex ends, and what awaits it goes on.      *)

Holder == Head(queue)
Works(id) == sess[id] = "up" /\ id \notin hung
Fails(id) == sess[id] \in {"none", "closed"}

\* relay_ssh_run: a tick that had to look for the node goes on to the metrics
\* (through the shim once more); one that has both answers paints them.
RunEnds ==
    /\ queue # <<>> /\ Holder.op = "run"
    /\ LET t == Holder.task
           r == job[t].of
           found == At(t, "probing") /\ Works(r)
           last == ~\E i \in 2..Len(queue) : queue[i].task = t
       IN  /\ Works(r) \/ Fails(r)
           /\ IF found /\ ~Blocked("run")
              THEN /\ queue' = Tail(queue) \o <<Command(t, "run"), Command(t, "run")>>
                   /\ Goto(t, "scraping")
              ELSE /\ queue' = Tail(queue)
                   /\ IF last THEN Done(t) ELSE UNCHANGED job
           /\ probe' = IF found THEN probe \cup {r} ELSE probe
    /\ UNCHANGED <<world, mode, links, active, timer, smode, dbUp, disturbed>>

\* relay_ssh_is_connected: with the session there the poll goes on, or is
\* started; without it the tab shows the connect form.
CheckEnds ==
    /\ queue # <<>> /\ Holder.op = "check"
    /\ LET r == job[Holder.task].of
           there == sess[r] \in {"up", "lost"}
       IN  /\ active' = [active EXCEPT ![r] = there /\ @]
           /\ timer' = [timer EXCEPT ![r] = @ \/ there]
    /\ Done(Holder.task) /\ queue' = Tail(queue)
    /\ UNCHANGED <<world, mode, links, smode, probe, dbUp, disturbed>>

\* relay_ssh_disconnect: the rest of doDisconnect, or doConnect's next step.
RemoveEnds ==
    /\ queue # <<>> /\ Holder.op = "remove"
    /\ LET t == Holder.task
           r == job[t].of
       IN  /\ sess' = [sess EXCEPT ![r] = "none"]
           /\ IF job[t].kind = "open"
              THEN Goto(t, "handshake") /\ UNCHANGED <<active, probe>>
              ELSE /\ Done(t)
                   /\ active' = [active EXCEPT ![r] = FALSE]
                   /\ probe' = probe \ {r}
    /\ queue' = Tail(queue)
    /\ UNCHANGED <<world, mode, hung, timer, smode, dbUp, disturbed>>

\* The channels of db-sync's old session close with it.
CutQueries(jobs) == [q \in Tasks |-> [jobs[q] EXCEPT !.pc = IF @ = "running" THEN "cut" ELSE @]]

\* relay_ssh_connect: the new session replaces any other; goDash starts the
\* poll, or what awaited db-sync is sent.
InsertEnds ==
    /\ queue # <<>> /\ Holder.op = "insert"
    /\ LET t == Holder.task
           r == job[t].of
       IN  /\ sess' = [sess EXCEPT ![r] = "up"]
           /\ IF r = Db
              THEN /\ job' = CutQueries([q \in Tasks |->
                        IF q \in Concerned(t) THEN [job[q] EXCEPT !.pc = "retry"] ELSE job[q]])
                   /\ UNCHANGED tabs
              ELSE /\ Done(t)
                   /\ active' = [active EXCEPT ![r] = TRUE]
                   /\ timer' = [timer EXCEPT ![r] = TRUE]
                   /\ smode' = [smode EXCEPT ![r] = "ssh"]
                   /\ probe' = probe \ {r}
    /\ queue' = Tail(queue)
    /\ UNCHANGED <<world, mode, hung, dbUp, disturbed>>

\* pg_query_ssh_via: with the forward open the query runs; the session is not
\* there, or the host opens no forward.
ForwardEnds ==
    /\ queue # <<>> /\ Holder.op = "forward"
    /\ \/ Works(Db) /\ Goto(Holder.task, "running") /\ UNCHANGED disturbed
       \/ Fails(Db) /\ Gone(Holder.task) /\ UNCHANGED disturbed
       \/ Works(Db) /\ Disturbed("refuse") /\ Gone(Holder.task)
    /\ queue' = Tail(queue)
    /\ UNCHANGED <<world, mode, links, tabs, dbUp>>

-----------------------------------------------------------------------------
(* Hosts and links.                                                        *)

DropLink(id) ==
    /\ sess[id] = "up" /\ Disturbed("drop")
    /\ sess' = [sess EXCEPT ![id] = "lost"]
    /\ UNCHANGED <<world, mode, hung, queue, job, tabs, dbUp>>

\* Three keepalives without a reply close the session; its entry stays.
Keepalive(id) ==
    /\ sess[id] = "lost"
    /\ sess' = [sess EXCEPT ![id] = "closed"]
    /\ IF id = Db THEN job' = CutQueries(job) ELSE UNCHANGED job
    /\ UNCHANGED <<world, mode, hung, queue, tabs, dbUp, disturbed>>

\* The host answers keepalives, but what runs there does not end, for a while or
\* for ever.
Hang(r) ==
    /\ r \notin hung /\ Disturbed("hang")
    /\ hung' = hung \cup {r}
    /\ UNCHANGED <<world, mode, sess, queue, job, tabs, dbUp>>

Recover(r) ==
    /\ r \in hung
    /\ hung' = hung \ {r}
    /\ UNCHANGED <<world, mode, sess, queue, job, tabs, dbUp, disturbed>>

FlipMode ==
    /\ \/ mode = "live" /\ Disturbed("demo") /\ mode' = "demo"
       \/ mode = "demo" /\ mode' = "live" /\ UNCHANGED disturbed
    /\ UNCHANGED <<world, links, queue, job, tabs, dbUp>>

Answer == RunEnds \/ CheckEnds \/ RemoveEnds \/ InsertEnds \/ ForwardEnds

Step(t) ==
    \/ TickAsks(t) \/ Handshake(t) \/ DbHandshake(t)
    \/ Retry(t) \/ QueryEnds(t) \/ QueryBreaks(t)

Next ==
    \/ Answer
    \/ \E t \in Tasks : Step(t)
    \/ \E t \in Ticks, r \in Relays : TickBegins(t, r)
    \/ \E t \in Clicks, r \in Relays : Visit(t, r) \/ Leave(t, r) \/ Open(t, r)
    \/ \E t \in Queries : Query(t) \/ Revive(t)
    \/ \E id \in Ids : DropLink(id) \/ Keepalive(id)
    \/ \E r \in Relays : Hang(r) \/ Recover(r)
    \/ FlipMode

Spec == Init /\ [][Next]_vars

\* The holder of the mutex gets its answer unless its node hangs, handshakes end
\* within their timeouts, and keepalives find a lost link.
Fairness ==
    /\ WF_vars(Answer)
    /\ \A t \in Tasks : WF_vars(Step(t))
    /\ \A id \in Ids : WF_vars(Keepalive(id))

FairSpec == Spec /\ Fairness

-----------------------------------------------------------------------------
(* Properties.                                                             *)

\* Types of the state; a tick has at most two commands in the queue and every
\* other task one.
TypeOK ==
    /\ world \in Worlds /\ mode \in {"live", "demo"}
    /\ sess \in [Ids -> {"none", "up", "lost", "closed"}] /\ hung \subseteq Relays
    /\ queue \in Seq(Commands)
    /\ \A t \in Tasks :
         Cardinality({i \in DOMAIN queue : queue[i].task = t}) <= IF t \in Ticks THEN 2 ELSE 1
    /\ job \in [Tasks -> [kind : {"none", "tick", "visit", "leave", "open", "query", "revive"},
                          of : Ids, ok : BOOLEAN,
                          pc : {"off", "imported", "probing", "scraping", "waiting", "handshake",
                                "inserting", "awaiting", "retry", "running", "cut"}]]
    /\ active \in [Relays -> BOOLEAN] /\ timer \in [Relays -> BOOLEAN]
    /\ smode \in [Relays -> {"ssh", "demo"}] /\ probe \subseteq Relays
    /\ dbUp \in BOOLEAN /\ disturbed \in 0..MaxDisturb

\* "A relay stalling flatlines only its own heartbeat; the others are
\* unaffected" (README): what is under way for a relay, or for db-sync, comes to
\* an end unless that very host hangs.
OthersUnaffected ==
    \A t \in Tasks, id \in Ids :
        job[t].of = id /\ ~At(t, "off") ~> At(t, "off") \/ id \in hung

\* While no host hangs, what was begun ends, whatever links drop and handshakes
\* are refused: every query that awaits the shared reconnect is woken, and nobody
\* keeps the mutex.
BegunEnds == \A t \in Tasks : ~At(t, "off") ~> At(t, "off") \/ hung # {}

\* The step issues no command that runs on a host: those in the queue were there
\* before it, but for the one that ended.
IssuesNone ==
    \E ended \in 0..1 : \A i \in DOMAIN queue' :
        queue'[i].op \in {"run", "forward"} =>
            i + ended \in DOMAIN queue /\ queue'[i] = queue[i + ended]

\* "A previously connected REAL relay session is never scraped while demo is
\* active" (relay-probe.js): neither relay_ssh_run nor a query is issued in demo,
\* whatever flipped while a tick or a query awaited something, and what begins in
\* demo comes to nothing: it opens no session either.
DemoIssuesNothing ==
    [][mode = "demo" /\ mode' = "demo" =>
         /\ IssuesNone
         /\ \A t \in Tasks : At(t, "off") \/ At(t, "imported") =>
                job'[t].pc \in {"off", "imported"}]_vars

\* "While demo mode is active the app must touch nothing real" (tauri.js): nor is
\* a login to a host begun.
DemoTouchesNothing ==
    [][mode = "demo" /\ mode' = "demo" =>
         /\ IssuesNone
         /\ \A t \in Tasks : job'[t].pc = "handshake" => At(t, "handshake")]_vars
=============================================================================
