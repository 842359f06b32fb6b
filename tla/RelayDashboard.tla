--------------------------- MODULE RelayDashboard ---------------------------
(* What a relay's tab shows: src/src/views/relay.js paints what             *)
(* src/src/data/relay-probe.js reads from the relay's own node. The node is *)
(* looked for once and its process and metrics port are remembered; every   *)
(* poll then scrapes the port and lists the process's peers. Polls do not   *)
(* wait for each other, they go on while the tab is hidden, and each is     *)
(* asked in the mode of its own beginning. (The queue the commands share    *)
(* with the other sessions is RelaySessions.)                               *)
EXTENDS Integers, Sequences, SequencesExt, FiniteSets

CONSTANTS
    Ahead,       \* the relay's block at the start; demo's tip counts from zero
    Fresh,       \* age at which a tip counts as stalled (TIP_STALL_MS)
    Retain,      \* how long beats are kept (DATA_WINDOW)
    BeatsAtOnce, \* beats of one poll (3)
    Polls,       \* bound: polls under way at once
    MaxTime,     \* bound: time
    Disturb,     \* bound: what may happen, out of "restart", "start", "drop", "demo", "hide", "again", "misfit"
    MaxDisturb   \* bound: how often

VARIABLES
    now,       \* Date.now(), coarsely
    block,     \* the relay's newest block
    born,      \* when that came
    node,      \* its process: pid, whether it runs and whether its metrics answer
    link,      \* commands reach the host
    mode,      \* "live" or "demo"
    tab,       \* s.active, s.hidden, s.timer and s.mode = "demo"
    fits,      \* the node matches the selector
    probe,     \* _probeCache
    beats,     \* s.blockTimes, each with the block it stands for
    last,      \* s.lastBlock
    peers,     \* s.peers: whose they are
    shown,     \* the tip line of the dashboard
    polls,     \* snapshots under way
    left       \* disturbances left

world == <<now, block, born, node, link>>
data == <<beats, last, peers, shown>>
vars == <<world, mode, tab, fits, probe, data, polls, left>>

NoProbe == [pid |-> 0, metrics |-> FALSE]
NoBlock == -1
Blank == [of |-> "none", says |-> "none"]
Idle == [step |-> "off", probe |-> NoProbe, here |-> FALSE]
Closed == [active |-> FALSE, hidden |-> FALSE, timer |-> FALSE, demo |-> FALSE]

Init ==
    /\ now = 0 /\ block = Ahead /\ born = 0 /\ link = TRUE /\ mode = "live"
    /\ node = [pid |-> 1, runs |-> TRUE, metrics |-> TRUE]
    /\ tab = Closed /\ fits = TRUE
    /\ probe = NoProbe /\ beats = <<>> /\ last = NoBlock /\ peers = "none" /\ shown = Blank
    /\ polls = [p \in Polls |-> Idle]
    /\ left = MaxDisturb

Disturbed(kind) == kind \in Disturb /\ left > 0 /\ left' = left - 1

-----------------------------------------------------------------------------
(* The relay.                                                              *)

Clock ==
    /\ now < MaxTime /\ now' = now + 1
    /\ UNCHANGED <<block, born, node, link, mode, tab, fits, probe, data, polls, left>>

Adopts ==
    /\ node.runs /\ block < Ahead + MaxTime /\ block' = block + 1 /\ born' = now
    /\ UNCHANGED <<now, node, link, mode, tab, fits, probe, data, polls, left>>

Stops ==
    /\ node.runs /\ Disturbed("restart")
    /\ node' = [node EXCEPT !.runs = FALSE, !.metrics = FALSE]
    /\ UNCHANGED <<now, block, born, link, mode, tab, fits, probe, data, polls>>

\* The new process answers for its metrics at once, or (kind "start") after a while.
Starts ==
    /\ ~node.runs
    /\ \/ node' = [pid |-> node.pid + 1, runs |-> TRUE, metrics |-> TRUE] /\ UNCHANGED left
       \/ /\ node' = [pid |-> node.pid + 1, runs |-> TRUE, metrics |-> FALSE]
          /\ Disturbed("start")
    /\ UNCHANGED <<now, block, born, link, mode, tab, fits, probe, data, polls>>

MetricsAnswer ==
    /\ node.runs /\ ~node.metrics /\ node' = [node EXCEPT !.metrics = TRUE]
    /\ UNCHANGED <<now, block, born, link, mode, tab, fits, probe, data, polls, left>>

Drops ==
    /\ link /\ Disturbed("drop") /\ link' = FALSE
    /\ UNCHANGED <<now, block, born, node, mode, tab, fits, probe, data, polls>>

Returns ==
    /\ ~link /\ link' = TRUE
    /\ UNCHANGED <<now, block, born, node, mode, tab, fits, probe, data, polls, left>>

-----------------------------------------------------------------------------
(* The tab.                                                                *)

\* goDash: whatever was known of a relay is forgotten, the poll starts. A poll of the
\* connection before finds its session gone.
Connect ==
    /\ mode = "live" /\ ~tab.active
    /\ \/ fits' = TRUE /\ UNCHANGED left
       \/ fits' = FALSE /\ Disturbed("misfit")
    /\ tab' = [Closed EXCEPT !.active = TRUE, !.timer = TRUE]
    /\ probe' = NoProbe /\ beats' = <<>> /\ last' = NoBlock /\ peers' = "none" /\ shown' = Blank
    /\ polls' = [p \in Polls |-> [polls[p] EXCEPT !.here = FALSE]]
    /\ UNCHANGED <<world, mode>>

\* doDisconnect, once its command came through the queue: no probe is out then.
Disconnect ==
    /\ mode = "live" /\ tab.active /\ ~tab.demo /\ ~tab.hidden /\ Disturbed("again")
    /\ \A p \in Polls : polls[p].step # "probe"
    /\ tab' = Closed /\ probe' = NoProbe /\ beats' = <<>> /\ last' = NoBlock /\ shown' = Blank
    /\ UNCHANGED <<world, mode, fits, peers, polls>>

Hide ==
    /\ tab.active /\ ~tab.hidden /\ Disturbed("hide")
    /\ tab' = [tab EXCEPT !.hidden = TRUE] /\ shown' = Blank
    /\ UNCHANGED <<world, mode, fits, probe, beats, last, peers, polls>>

\* mountRelay: in demo a dashboard of its own, on what the tab knows of the relay; out of
\* demo the connect form again; else the dashboard the poll has kept current.
Mounted(m) ==
    /\ shown' = Blank
    /\ tab' = CASE m = "demo" -> [active |-> TRUE, hidden |-> FALSE, timer |-> TRUE, demo |-> TRUE]
                [] m = "live" /\ tab.demo -> Closed
                [] OTHER -> [tab EXCEPT !.hidden = FALSE]

Return ==
    /\ tab.hidden /\ Mounted(mode)
    /\ UNCHANGED <<world, mode, fits, probe, beats, last, peers, polls, left>>

\* pt:mode-changed mounts the view on the page again; a hidden tab is left alone.
Flip ==
    /\ IF mode = "live" THEN Disturbed("demo") ELSE UNCHANGED left
    /\ mode' = IF mode = "live" THEN "demo" ELSE "live"
    /\ IF tab.hidden THEN UNCHANGED <<tab, shown>> ELSE Mounted(mode')
    /\ UNCHANGED <<world, fits, probe, beats, last, peers, polls>>

-----------------------------------------------------------------------------
(* Painting a snapshot.                                                    *)

Recent(times) ==
    LET kept[i \in 0..Len(times)] ==
          IF i = 0 THEN <<>>
          ELSE IF now - times[i].at < Retain THEN Append(kept[i - 1], times[i])
          ELSE kept[i - 1]
    IN kept[Len(times)]

\* Mutant: any other block beats.
Moved(n) == IF n = last THEN 0 ELSE IF n > last + BeatsAtOnce THEN BeatsAtOnce ELSE 1

\* How many beats a reading of block n is worth.
Beats(n) == IF n <= last THEN 0 ELSE IF n > last + BeatsAtOnce THEN BeatsAtOnce ELSE n - last

Beat(n) == [for |-> n, at |-> now]

\* Blocks are followed whether the tab is seen or not; the dashboard only if it is.
Paint(of, says, n, theirs) ==
    LET healthy == says \in {"at tip", "stalled"}
        new == IF ~healthy THEN <<>>
               ELSE IF last = NoBlock THEN <<Beat(n)>>
               ELSE [i \in 1..Beats(n) |-> Beat(n - i + 1)]
    IN /\ beats' = Recent(beats \o new)
       /\ last' = IF new = <<>> THEN last ELSE n
       /\ peers' = theirs
       /\ shown' = IF tab.active /\ ~tab.hidden THEN [of |-> of, says |-> says] ELSE shown

\* In demo the snapshot is made up on the spot.
PaintDemo == Paint("demo", "at tip", now, "demo")

TipSays == IF now - born < Fresh THEN "at tip" ELSE "stalled"

-----------------------------------------------------------------------------
(* A poll: relaySnapshot.                                                  *)

Known(pr) == pr # NoProbe

\* Mutant: what was looked for is remembered, found or not.
RemembersAny(found) == [pid |-> node.pid, metrics |-> node.metrics]

\* The process and, if its metrics answer, their port.
Remembered(found) ==
    IF found THEN [pid |-> node.pid, metrics |-> node.metrics] ELSE NoProbe

Goes(p, step, pr) ==
    polls' = [polls EXCEPT ![p] = [step |-> step, probe |-> pr, here |-> TRUE]]
Ends(p) == polls' = [polls EXCEPT ![p] = Idle]

Poll(p) ==
    /\ tab.timer /\ polls[p].step = "off"
    /\ \A o \in Polls : polls[o].step = "off" => p <= o
    /\ IF mode = "demo"
       THEN PaintDemo /\ UNCHANGED polls
       ELSE /\ UNCHANGED data
            /\ IF Known(probe) THEN Goes(p, "scrape", probe) ELSE Goes(p, "probe", NoProbe)
    /\ UNCHANGED <<world, mode, tab, fits, probe, left>>

Reached(p) == link /\ polls[p].here

\* relayProbe. A node that is not there, or not the selector's, is not remembered; one
\* without metrics is.
ProbeAnswers(p) ==
    /\ polls[p].step = "probe"
    /\ LET found == Reached(p) /\ node.runs /\ fits
       IN /\ probe' = Remembered(found)
          /\ IF found
             THEN Goes(p, "scrape", probe') /\ UNCHANGED data
             ELSE /\ Paint("relay", IF ~Reached(p) THEN "unreachable"
                                    ELSE IF ~node.runs THEN "no node" ELSE "no match", 0, "none")
                  /\ Ends(p)
    /\ UNCHANGED <<world, mode, tab, fits, left>>

\* The block a scrape read: scrapes that overlap end in any order, so it may be older
\* than one painted already.
Read(p) ==
    {block} \union
    IF block > Ahead /\ \E o \in Polls \ {p} : polls[o].step = "scrape" THEN {block - 1} ELSE {}

\* relayHealth and relayPeers: by the remembered port, and by the remembered process.
ScrapeAnswers(p) ==
    /\ polls[p].step = "scrape"
    /\ LET pr == polls[p].probe
           says == IF ~pr.metrics THEN "no metrics"
                   ELSE IF ~Reached(p) \/ ~node.metrics THEN "unreachable"
                   ELSE TipSays
       IN \E n \in Read(p) : Paint("relay", says, n,
              IF Reached(p) /\ node.runs /\ pr.pid = node.pid THEN "relay" ELSE "none")
    /\ Ends(p)
    /\ UNCHANGED <<world, mode, tab, fits, probe, left>>

-----------------------------------------------------------------------------

Next ==
    \/ Clock \/ Adopts \/ Stops \/ Starts \/ MetricsAnswer \/ Drops \/ Returns
    \/ Connect \/ Disconnect \/ Hide \/ Return \/ Flip
    \/ \E p \in Polls : Poll(p) \/ ProbeAnswers(p) \/ ScrapeAnswers(p)

Spec == Init /\ [][Next]_vars

Answers == \E p \in Polls : ProbeAnswers(p) \/ ScrapeAnswers(p)
Asks == \E p \in Polls : Poll(p)

\* Intervals fire and commands end; a node that went down comes up and answers for its
\* metrics; a link comes back.
Fairness ==
    /\ WF_vars(Asks) /\ WF_vars(Answers)
    /\ WF_vars(Starts) /\ WF_vars(MetricsAnswer) /\ WF_vars(Returns)

FairSpec == Spec /\ Fairness

-----------------------------------------------------------------------------
(* Properties.                                                             *)

States == {"none", "at tip", "stalled", "unreachable", "no node", "no match", "no metrics"}
Watched == mode = "live" /\ tab.active /\ ~tab.demo /\ ~tab.hidden

TypeOK ==
    /\ now \in 0..MaxTime /\ block \in Ahead..(Ahead + MaxTime) /\ born \in 0..now
    /\ node \in [pid : 1..(MaxDisturb + 1), runs : BOOLEAN, metrics : BOOLEAN]
    /\ link \in BOOLEAN /\ mode \in {"live", "demo"} /\ fits \in BOOLEAN
    /\ tab \in [active : BOOLEAN, hidden : BOOLEAN, timer : BOOLEAN, demo : BOOLEAN]
    /\ probe \in [pid : 0..(MaxDisturb + 1), metrics : BOOLEAN]
    /\ \A i \in DOMAIN beats : beats[i] \in [for : 0..(Ahead + MaxTime), at : 0..now]
    /\ last \in {NoBlock} \union (0..(Ahead + MaxTime)) /\ peers \in {"none", "relay", "demo"}
    /\ shown \in [of : {"none", "relay", "demo"}, says : States]
    /\ \A p \in Polls : polls[p].step \in {"off", "probe", "scrape"}
    /\ left \in 0..MaxDisturb

\* No block beats twice on a relay's heartbeat, whatever order overlapping polls answer
\* in and however often the tab is left (paint, s.lastBlock).
BeatsOnce == \A i, j \in DOMAIN beats : beats[i].for = beats[j].for => i = j

\* A relay that can be read is read: an unreachable host or a node that is not there is
\* looked for again by every poll, until the tab shows the relay's tip (relaySnapshot
\* remembers a successful probe only).
Readable == node.metrics /\ link /\ fits /\ Watched
TipShown == Readable => shown.says \in {"at tip", "stalled"}
TipComes == []<>TipShown

\* The peers of a relay that can be read are listed, "after the node restarted" too
\* (relaySnapshot's comment).
PeersCome == []<>(~Readable \/ peers = "relay")

\* What a tab shows in demo mode is demo's ("a previously connected REAL relay session is
\* never scraped while demo is active").
DemoShowsDemo == mode = "demo" /\ ~tab.hidden => shown.of # "relay"
=============================================================================
