------------------------------ MODULE Propagation ------------------------------
(* The propagation history: the capture tick of the live loop, which samples *)
(* the node's last block, beats while the app is watching and notes epoch    *)
(* boundaries (capturePropagation in src/src/data/read-model.js), and the    *)
(* Transition view, which tells a stretch without blocks on the chain from   *)
(* one in which the app was not there (detectGaps in src/src/views/logs.js). *)
(*                                                                           *)
(* Time passes in units of ten seconds: the loop ticks each second, the      *)
(* scrape behind it comes each five. Delays, the statistics over them and    *)
(* the slow-block log are left out (SlowBlocks has the log).                 *)
EXTENDS Integers, Sequences, Functions

CONSTANTS
    None,        \* nothing seen yet this session (null)
    BeatEvery,   \* PROP_HEARTBEAT_EVERY_MS
    GapThresh,   \* ETX_GAP_THRESH_S
    Margin,      \* MARGIN_S of detectGaps
    PropEpochMax,\* PROP_EPOCH_MAX
    LastTime,    \* bound: the last instant
    MaxBlocks,   \* bound: blocks the chain makes
    MaxEpoch,    \* bound: the last epoch
    Disturb,     \* bound: what else happens, out of "close", "disconnect",
                 \* "other-node", "scrape"
    MaxDisturb   \* bound: how often

VARIABLES
    now,         \* wall clock
    made,        \* when the chain made each of its blocks
    epoch,       \* the epoch the node reports
    up,          \* the loop is running against a node
    watched,     \* the instants at which the loop captured
    metric,      \* lastMetrics.blockNum: the node's last block, as scraped
    lastBlock,   \* _lastPropBlockNum
    lastBeat,    \* _lastHeartbeatTs
    lastEpoch,   \* _lastPropEpoch
    samples,     \* when a block was sampled (prop_delay), oldest first
    beats,       \* when the capture was alive (capture_alive)
    boundaries,  \* the log of epoch boundaries
    left         \* disturbances left

vars == <<now, made, epoch, up, watched, metric, lastBlock, lastBeat, lastEpoch,
          samples, beats, boundaries, left>>

Init ==
    /\ now = 1 /\ made = <<>> /\ epoch = 1
    /\ up = FALSE /\ watched = {} /\ metric = None
    /\ lastBlock = None /\ lastBeat = 0 /\ lastEpoch = None
    /\ samples = <<>> /\ beats = {} /\ boundaries = <<>>
    /\ left = MaxDisturb

------------------------------------------------------------------------------
(* The capture tick.                                                         *)

NotedInARow(e) == boundaries # <<>> /\ boundaries[Len(boundaries)].epoch = e

\* The first epoch seen is only remembered; a lower one is a rollback or another
\* network; one that is in the log is not logged again.
NotedBefore(e) == \E i \in DOMAIN boundaries : boundaries[i].epoch = e

LastOf(s, n) == IF Len(s) > n THEN SubSeq(s, Len(s) - n + 1, Len(s)) ELSE s

NoteEpochBoundary(t) ==
    /\ lastEpoch' = epoch
    /\ boundaries' =
        IF lastEpoch = None \/ epoch <= lastEpoch \/ NotedBefore(epoch)
        THEN boundaries
        ELSE LastOf(Append(boundaries, [epoch |-> epoch, ts |-> t]), PropEpochMax)

BeatLater(t) == lastBeat = 0 \/ t - lastBeat > BeatEvery

BeatDue(t) == lastBeat = 0 \/ t - lastBeat >= BeatEvery

CaptureHeartbeat(t) ==
    IF BeatDue(t)
    THEN /\ lastBeat' = t /\ beats' = beats \cup {t}
    ELSE UNCHANGED <<lastBeat, beats>>

\* The metric holds its value between blocks: the block number tells a new one.
CaptureBlock(t, block) ==
    IF lastBlock = block
    THEN UNCHANGED <<lastBlock, samples>>
    ELSE /\ lastBlock' = block /\ samples' = Append(samples, t)

Capture(t, block) ==
    IF ~up \/ block = None
    THEN UNCHANGED <<watched, lastBlock, lastBeat, lastEpoch, samples, beats, boundaries>>
    ELSE /\ watched' = watched \cup {t}
         /\ NoteEpochBoundary(t)
         /\ CaptureHeartbeat(t)
         /\ CaptureBlock(t, block)

\* Ten seconds pass: the chain may make a block, the loop scrapes and captures.
Tick(forged) ==
    /\ now < LastTime /\ now' = now + 1
    /\ forged => Len(made) < MaxBlocks
    /\ made' = IF forged THEN Append(made, now + 1) ELSE made
    /\ metric' = IF up THEN Len(made') ELSE metric
    /\ Capture(now + 1, metric')
    /\ UNCHANGED <<epoch, up, left>>

\* A tick whose scrape fails: the last scrape is kept and captured again.
TickUnscraped(forged) ==
    /\ "scrape" \in Disturb /\ left > 0 /\ left' = left - 1
    /\ up /\ now < LastTime /\ now' = now + 1
    /\ forged => Len(made) < MaxBlocks
    /\ made' = IF forged THEN Append(made, now + 1) ELSE made
    /\ Capture(now + 1, metric)
    /\ UNCHANGED <<epoch, up, metric>>

------------------------------------------------------------------------------
(* What happens around it.                                                   *)

Connect ==
    /\ ~up /\ up' = TRUE
    /\ UNCHANGED <<now, made, epoch, watched, metric, lastBlock, lastBeat,
                   lastEpoch, samples, beats, boundaries, left>>

\* The operator may come back to another node, of another network.
NextNode == epoch' \in IF "other-node" \in Disturb THEN 1..MaxEpoch ELSE {epoch}

\* The app is closed: what the module remembers goes with it.
Close ==
    /\ "close" \in Disturb /\ left > 0 /\ left' = left - 1
    /\ up /\ up' = FALSE /\ NextNode
    /\ metric' = None /\ lastBlock' = None /\ lastBeat' = 0 /\ lastEpoch' = None
    /\ UNCHANGED <<now, made, watched, samples, beats, boundaries>>

\* Disconnect forgets the last scrape and the epoch, not the block nor the beat.
Disconnect ==
    /\ "disconnect" \in Disturb /\ left > 0 /\ left' = left - 1
    /\ up /\ up' = FALSE /\ metric' = None /\ lastEpoch' = None /\ NextNode
    /\ UNCHANGED <<now, made, watched, lastBlock, lastBeat, samples, beats, boundaries>>

\* The chain enters the next epoch.
NewEpoch ==
    /\ epoch < MaxEpoch /\ epoch' = epoch + 1
    /\ UNCHANGED <<now, made, up, watched, metric, lastBlock, lastBeat, lastEpoch,
                   samples, beats, boundaries, left>>

Next ==
    \/ \E forged \in BOOLEAN : Tick(forged) \/ TickUnscraped(forged)
    \/ Connect \/ Close \/ Disconnect \/ NewEpoch

Spec == Init /\ [][Next]_vars

------------------------------------------------------------------------------
(* The Transition view.                                                      *)

\* getPropagationHistory: what was captured in the window the operator chose.
PropagationHistory(since) ==
    [series     |-> {t \in Range(samples) : t >= since},
     heartbeats |-> {b \in beats : b >= since},
     boundaries |-> {i \in DOMAIN boundaries : boundaries[i].ts >= since}]

\* The stretches between two samples that are far apart, with none between them.
Gaps(h) ==
    {g \in [from : h.series, to : h.series] :
        g.to - g.from >= GapThresh /\ \A t \in h.series : t <= g.from \/ t >= g.to}

HasBeat(h, g) == \E b \in h.heartbeats : b > g.from + Margin /\ b < g.to - Margin

\* Without any beat the chain is blamed: a cache older than the beats.
Offline(h, g) == h.heartbeats # {} /\ ~HasBeat(h, g)

------------------------------------------------------------------------------
(* Properties.                                                               *)

\* Samples, beats and boundaries carry instants that have been, in the order they
\* were taken.
TypeOK ==
    /\ now \in 1..LastTime /\ made \in Seq(1..now) /\ up \in BOOLEAN
    /\ beats \subseteq watched /\ watched \subseteq 1..now
    /\ lastBeat \in beats \cup {0}
    /\ \A i \in DOMAIN samples : samples[i] \in watched
    /\ \A i, j \in DOMAIN samples : i < j => samples[i] < samples[j]
    /\ Len(boundaries) <= PropEpochMax

\* A gap during which the loop captured at every tick is the chain's, never the
\* app's: the beats and the margins leave no gap of the threshold without a beat
\* in its interior ("a genuine production gap always shows a beat").
WatchedGapIsTheChains ==
    \A since \in {0, now \div 2} : LET h == PropagationHistory(since) IN
        \A g \in Gaps(h) : (g.from..g.to) \subseteq watched => ~Offline(h, g)

\* The view has an epoch's boundary once, whatever nodes and networks the operator
\* goes through.
BoundaryOnce ==
    \A i, j \in PropagationHistory(0).boundaries :
        boundaries[i].epoch = boundaries[j].epoch => i = j

\* Of the comment of detectGaps: a gap the app was away in is its own, the chain
\* kept producing. So a gap shown as the chain's has no block of the chain inside.
ChainIsNotBlamed ==
    LET h == PropagationHistory(0) IN
    \A g \in Gaps(h) : Offline(h, g) \/ \A i \in DOMAIN made : made[i] <= g.from \/ made[i] >= g.to
=============================================================================
