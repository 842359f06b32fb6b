----------------------------- MODULE AlertsEngine -----------------------------
(***************************************************************************)
(* Telegram alerts: the main loop's tick (fastPollTick in main.js) reads a *)
(* snapshot of the node and hands it, with what earlier queries of the     *)
(* peers and the mempool have brought, to runAlertChecks                   *)
(* (data/alerts-engine.js), which announces a condition once when it is    *)
(* noticed and is re-armed when it is seen to clear.                       *)
(*                                                                         *)
(* The clock counts units no longer than a minute and no shorter than a    *)
(* query of the node may take.  Only ages matter, so the times the code    *)
(* keeps are counters that stop at their limit, and nothing bounds the     *)
(* clock.  A gauge (peers, mempool) reads "bad" when the alert's condition *)
(* holds, "good" when it re-arms the alert, and "mid" when it does neither *)
(* (the mempool between 80% of the threshold and the threshold).           *)
(*                                                                         *)
(* block_minted is left out: it can only fire on a field that no live      *)
(* snapshot has.                                                           *)
(***************************************************************************)
EXTENDS Integers, FiniteSets, FiniteSetsExt

CONSTANTS
    StallAfter,    \* units without a new tip before a stall is announced
    Cooldown,      \* units between two announcements of one alert
    WarnDays,      \* the KES warn-days switched on
    MaxDays,       \* days a fresh KES key lasts
    MaxEpisode,    \* bound: how often a gauge recovers
    Worlds,        \* what an execution may meet: sets of alerts switched on and disturbances
    MaxDisturb     \* bound: how many disturbances happen

ASSUME StallAfterAssumption == StallAfter \in Nat \ {0}
ASSUME CooldownAssumption == Cooldown \in Nat \ {0}
ASSUME BoundsAssumption == MaxEpisode \in Nat /\ MaxDisturb \in Nat
\* So MaxDays, which no warn-day covers, can stand for days that are not known.
ASSUME WarnDaysAssumption == MaxDays \in Nat /\ WarnDays \subseteq 0..(MaxDays - 1)

Gauges == {"peers_low", "mempool_full"}
Edges == Gauges \cup {"node_stall"}
Alerts == Edges \cup {"kes_expiry", "slow_block"}
Critical == {"kes_expiry", "node_stall"}
Disturbances == {"demo", "restart", "reconnect", "toggle", "leave", "quiet", "down",
                 "rotate", "unknown", "queryFail", "sendFail", "overlap", "slow"}

\* What an announcement is about: KES has one for every warn-day.
Key(id) == <<id, 0>>
Kes(d) == <<"kes_expiry", d>>
Keys == {Key(id) : id \in Edges} \cup {Kes(d) : d \in WarnDays}

Reading(l, source, e) == [level |-> l, of |-> source, episode |-> e]
None == Reading("none", "none", 0)
LiveReadings == {Reading(l, "live", e) : l \in {"bad", "mid", "good"}, e \in 0..MaxEpisode}
DemoReadings == {Reading(l, "demo", 0) : l \in {"bad", "mid", "good"}}

VARIABLES
    world,         \* the alerts and disturbances of this execution, chosen once
    up,            \* the node answers
    tipAge,        \* units since the chain's tip last moved
    moved,         \* it has moved since lastTipBlock was noted
    level, episode,   \* the truth behind each gauge; how often it has recovered
    kes,           \* days the KES key has left
    slow,          \* a slow block is recorded that was not handed to the checks
    quiet,         \* quiet hours are on and it is within them
    mode, loop,    \* getMode(); fastTimer is set
    dash,          \* the dashboard is the active view
    tick,          \* fastPolling: a live snapshot is awaited
    seen,          \* _lastPeers and _lastMpState, and the mode they were read in
    asked,         \* answers of the gauges' queries on their way
    on, linked,    \* the configuration: alerts switched on, bot connected
    armed,         \* keys announced and not re-armed (true in the code's armed)
    cool,          \* units until lastFired no longer holds the alert back
    tipSeen, still,   \* lastTipBlock is not null; age of lastTipChangeMs
    sending,       \* messages on their way to Telegram
    told, got,     \* history: announced, of which episode; arrived since re-armed
    disturbed      \* how many disturbances have happened

truth == <<level, episode>>
node == <<up, tipAge, moved, truth, kes, slow, quiet>>
app == <<mode, loop, dash, tick>>
readings == <<seen, asked>>
config == <<on, linked>>
engine == <<armed, cool, tipSeen, still>>
history == <<sending, told, got>>
vars == <<world, node, app, readings, config, engine, history, disturbed>>

Init ==
    /\ world \in Worlds
    /\ up = TRUE /\ tipAge = 0 /\ moved = FALSE /\ slow = FALSE /\ quiet = FALSE
    /\ level = [g \in Gauges |-> "good"] /\ episode = [g \in Gauges |-> 0]
    /\ kes = MaxDays
    /\ mode = "live" /\ loop = TRUE /\ dash = TRUE /\ tick = FALSE
    /\ seen = [g \in Gauges |-> None] /\ asked = [g \in Gauges |-> {}]
    /\ on = world \cap Alerts /\ linked = FALSE
    /\ armed = {} /\ cool = [id \in Alerts |-> 0]
    /\ tipSeen = FALSE /\ still = 0
    /\ sending = {} /\ told = {} /\ got = {}
    /\ disturbed = 0

Met(kind) == kind \in world

Disturbed(kind) ==
    /\ Met(kind) /\ disturbed < MaxDisturb
    /\ disturbed' = disturbed + 1

UpTo(limit, n) == IF n < limit THEN n + 1 ELSE limit

-----------------------------------------------------------------------------
(* The checks.                                                             *)

\* Mutant: quiet hours mute critical alerts too.
MuteAll(id) == cool[id] = 0 /\ ~quiet

MayFire(id) == cool[id] = 0 /\ (quiet => id \in Critical)

\* Mutant: a tip that moved does not restart the count.
NeverRestarts == still

\* The age of lastTipChangeMs once this snapshot's tip is compared.
StillNow == IF tipSeen /\ ~moved THEN still ELSE 0

\* The alerts whose condition holds as the checks see it, and those it re-arms;
\* tip says that the snapshot has one.
Holding(tip) ==
    {Key(id) : id \in {e \in on \cap Edges : IF e = "node_stall"
                                          THEN tip /\ StillNow >= StallAfter
                                          ELSE seen[e].level = "bad"}}

\* Mutant: no hysteresis.
ClearsAtOnce(tip) ==
    {Key(id) : id \in {e \in on \cap Edges : IF e = "node_stall"
                                          THEN tip /\ StillNow < StallAfter
                                          ELSE seen[e].level \in {"mid", "good"}}}

Clearing(tip) ==
    {Key(id) : id \in {e \in on \cap Edges : IF e = "node_stall"
                                          THEN tip /\ StillNow < StallAfter
                                          ELSE seen[e].level = "good"}}

\* Mutant: a key per day rather than per warn-day.
HitEveryDay(days) == {days}

\* The warn-day a number of days falls under: the smallest that covers it.
Hit(days) == {d \in WarnDays : days <= d /\ \A e \in WarnDays : days <= e => d <= e}

KesHit(days) == IF "kes_expiry" \in on THEN {Kes(d) : d \in Hit(days)} ELSE {}

\* What is announced: edges noticed anew, a warn-day reached, a block that is slow
\* by the alert's own threshold.
Announced(days, tip, over) ==
    {k \in (Holding(tip) \cup KesHit(days)) \ armed : MayFire(k[1])}
    \cup {k \in {Key("slow_block")} : over /\ slow /\ k[1] \in on /\ MayFire(k[1])}

\* The episode an announcement is about: the gauge's as it was read.
EpisodeOf(k) == IF k[1] \in Gauges THEN seen[k[1]].episode ELSE 0

\* runAlertChecks.  A warn-day is armed whether or not it may be announced, and
\* for good.
Checks(days, tip, over) ==
    LET out == Announced(days, tip, over)
    IN  /\ armed' = (armed \ Clearing(tip)) \cup KesHit(days)
                    \cup (out \cap Holding(tip))
        /\ cool' = [id \in Alerts |-> IF \E k \in out : k[1] = id THEN Cooldown ELSE cool[id]]
        /\ still' = (IF tip THEN StillNow ELSE still)
        /\ tipSeen' = (tipSeen \/ tip)
        /\ moved' = (moved /\ ~tip)
        /\ sending' = sending \cup out
        /\ told' = told \cup {<<k, EpisodeOf(k)>> : k \in out \cap Keys}
        /\ got' = got \ Clearing(tip)

-----------------------------------------------------------------------------
(* The main loop.                                                          *)

\* The gauges a tick refreshes: the mempool only under the dashboard, and either
\* one again, after five seconds, even while its last query is under way.  Those
\* no alert of this world reads are not followed.
Due(g) == g \in world /\ (g = "mempool_full" => dash)

\* Queries in live; in demo the synthetic readings are there at once.
Refresh ==
    IF mode = "demo"
    THEN /\ \E new \in DemoReadings :
                seen' = [g \in Gauges |-> IF Due(g) THEN new ELSE seen[g]]
         /\ UNCHANGED asked
    ELSE /\ asked' = [g \in Gauges |->
                IF Due(g) /\ (asked[g] = {} \/ Met("overlap"))
                THEN asked[g] \cup {Reading(level[g], "live", episode[g])} ELSE asked[g]]
         /\ UNCHANGED seen

\* setInterval's tick: nothing while the previous one awaits its snapshot.
BeginTick ==
    /\ loop /\ ~tick /\ mode = "live"
    /\ tick' = TRUE
    /\ UNCHANGED <<world, node, mode, loop, dash, readings, config, engine, history, disturbed>>

\* In demo the snapshot is there at once, and there are no checks.
DemoTick ==
    /\ loop /\ ~tick /\ mode = "demo"
    /\ Refresh
    /\ UNCHANGED <<world, node, app, config, engine, history, disturbed>>

\* The snapshot has come.  The checks run if the mode is live by now; the slow
\* block is taken even when no bot is connected.  Days or tip may be missing.
EndTick ==
    /\ tick /\ up
    /\ tick' = FALSE
    /\ IF mode = "live"
       THEN /\ slow' = FALSE
            /\ IF linked
               THEN \E over \in (IF slow THEN BOOLEAN ELSE {FALSE}) :
                       \/ Checks(kes, TRUE, over) /\ UNCHANGED disturbed
                       \/ Disturbed("unknown") /\ Checks(MaxDays, FALSE, over)
               ELSE UNCHANGED <<moved, engine, history, disturbed>>
       ELSE UNCHANGED <<slow, moved, engine, history, disturbed>>
    /\ Refresh
    /\ UNCHANGED <<world, up, tipAge, truth, kes, quiet, mode, loop, dash, config>>

\* It does not come: the rest of the tick is skipped.
FailTick ==
    /\ tick /\ ~up
    /\ tick' = FALSE
    /\ UNCHANGED <<world, node, mode, loop, dash, readings, config, engine, history, disturbed>>

\* An answer replaces what is there, whatever was asked first.  The mempool's finds
\* no panel off the dashboard.
AnswerGauge(g) ==
    \E new \in asked[g] :
        /\ asked' = [asked EXCEPT ![g] = @ \ {new}]
        /\ seen' = IF Due(g) THEN [seen EXCEPT ![g] = new] ELSE seen
        /\ UNCHANGED <<world, node, app, config, engine, history, disturbed>>

\* A query that fails leaves the peers' last reading and drops the mempool's.
FailGauge(g) ==
    \E new \in asked[g] :
        /\ Disturbed("queryFail")
        /\ asked' = [asked EXCEPT ![g] = @ \ {new}]
        /\ seen' = IF g = "mempool_full" /\ dash THEN [seen EXCEPT ![g] = None] ELSE seen
        /\ UNCHANGED <<world, node, app, config, engine, history>>

\* telegram_send returns; a message that failed is not sent again.
SendEnds(k) ==
    /\ k \in sending
    /\ sending' = sending \ {k}
    /\ \/ got' = got \cup ({k} \cap Keys) /\ UNCHANGED disturbed
       \/ Disturbed("sendFail") /\ UNCHANGED got
    /\ UNCHANGED <<world, node, app, readings, config, engine, told>>

-----------------------------------------------------------------------------
(* The operator.                                                           *)

\* The configuration is loaded at start, or the bot is connected.
Link ==
    /\ ~linked /\ linked' = TRUE
    /\ UNCHANGED <<world, node, app, readings, on, engine, history, disturbed>>

Toggle(id) ==
    /\ Disturbed("toggle") /\ id \in world
    /\ on' = IF id \in on THEN on \ {id} ELSE on \cup {id}
    /\ UNCHANGED <<world, node, app, readings, linked, engine, history>>

\* mountView.
ChangeView ==
    /\ dash => Disturbed("leave")
    /\ ~dash => UNCHANGED disturbed
    /\ dash' = ~dash
    /\ UNCHANGED <<world, node, mode, loop, tick, readings, config, engine, history>>

\* The wizard's demo link, over a session that stays open; the badge's way back.
EnterDemo ==
    /\ Disturbed("demo") /\ mode = "live" /\ loop
    /\ mode' = "demo"
    /\ UNCHANGED <<world, node, loop, dash, tick, readings, config, engine, history>>

LeaveDemo ==
    /\ mode = "demo" /\ mode' = "live"
    /\ UNCHANGED <<world, node, loop, dash, tick, readings, config, engine, history, disturbed>>

\* Disconnect stops the loop and forgets the peers and the slow block, but nothing
\* of the engine.  The user comes back to the same node.
Disconnect ==
    /\ Disturbed("reconnect") /\ loop /\ mode = "live"
    /\ loop' = FALSE /\ slow' = FALSE
    /\ seen' = [seen EXCEPT !["peers_low"] = None]
    /\ UNCHANGED <<world, up, tipAge, moved, truth, kes, quiet, mode, dash, tick, asked,
                   config, engine, history>>

Reconnect ==
    /\ ~loop /\ loop' = TRUE /\ dash' = TRUE
    /\ UNCHANGED <<world, node, mode, tick, readings, config, engine, history, disturbed>>

\* The application is started again; the operator has reconnected.
Restart ==
    /\ Disturbed("restart")
    /\ mode' = "live" /\ loop' = TRUE /\ dash' = TRUE /\ tick' = FALSE
    /\ seen' = [g \in Gauges |-> None] /\ asked' = [g \in Gauges |-> {}]
    /\ linked' = FALSE /\ slow' = FALSE
    /\ armed' = {} /\ cool' = [id \in Alerts |-> 0] /\ tipSeen' = FALSE /\ still' = 0
    /\ sending' = {} /\ told' = {} /\ got' = {}
    /\ UNCHANGED <<world, up, tipAge, moved, truth, kes, quiet, on>>

-----------------------------------------------------------------------------
(* The node, the chain and the clock.                                      *)

Pass ==
    /\ cool' = [id \in Alerts |-> IF cool[id] > 0 THEN cool[id] - 1 ELSE 0]
    /\ still' = UpTo(StallAfter, still)
    /\ tipAge' = UpTo(StallAfter, tipAge)
    /\ UNCHANGED <<world, up, moved, truth, kes, slow, quiet, app, readings, config,
                   armed, tipSeen, history, disturbed>>

TipMoves ==
    /\ "node_stall" \in world /\ up
    /\ tipAge' = 0 /\ moved' = TRUE /\ told' = told \ {<<Key("node_stall"), 0>>}
    /\ UNCHANGED <<world, up, truth, kes, slow, quiet, app, readings, config, engine,
                   sending, got, disturbed>>

NodeFlips ==
    /\ up => Disturbed("down")
    /\ ~up => UNCHANGED disturbed
    /\ up' = ~up
    /\ UNCHANGED <<world, tipAge, moved, truth, kes, slow, quiet, app, readings, config,
                   engine, history>>

\* Only the mempool has readings in between.
GaugeMoves(g) ==
    /\ g \in world
    /\ \/ level[g] # "bad" /\ level' = [level EXCEPT ![g] = "bad"] /\ UNCHANGED episode
       \/ /\ g = "mempool_full" /\ level[g] # "mid"
          /\ level' = [level EXCEPT ![g] = "mid"] /\ UNCHANGED episode
       \/ /\ level[g] # "good" /\ episode[g] < MaxEpisode
          /\ level' = [level EXCEPT ![g] = "good"]
          /\ episode' = [episode EXCEPT ![g] = @ + 1]
    /\ UNCHANGED <<world, up, tipAge, moved, kes, slow, quiet, app, readings, config,
                   engine, history, disturbed>>

\* A day is longer than any cooldown.
DayPasses ==
    /\ "kes_expiry" \in world /\ kes > 0 /\ cool["kes_expiry"] = 0
    /\ kes' = kes - 1
    /\ UNCHANGED <<world, up, tipAge, moved, truth, slow, quiet, app, readings, config,
                   engine, history, disturbed>>

\* The new key's warn-days are news again.
Rotate ==
    /\ Disturbed("rotate") /\ kes < MaxDays
    /\ kes' = MaxDays
    /\ told' = told \ {<<Kes(d), 0>> : d \in WarnDays} /\ got' = got \ {Kes(d) : d \in WarnDays}
    /\ UNCHANGED <<world, up, tipAge, moved, truth, slow, quiet, app, readings, config,
                   engine, sending>>

SlowBlock ==
    /\ Disturbed("slow") /\ mode = "live" /\ loop
    /\ slow' = TRUE
    /\ UNCHANGED <<world, up, tipAge, moved, truth, kes, quiet, app, readings, config,
                   engine, history>>

QuietFlips ==
    /\ ~quiet => Disturbed("quiet")
    /\ quiet => UNCHANGED disturbed
    /\ quiet' = ~quiet
    /\ UNCHANGED <<world, up, tipAge, moved, truth, kes, slow, app, readings, config,
                   engine, history>>

Next ==
    \/ BeginTick \/ DemoTick \/ EndTick \/ FailTick
    \/ \E g \in Gauges : AnswerGauge(g) \/ FailGauge(g) \/ GaugeMoves(g)
    \/ \E k \in sending : SendEnds(k)
    \/ Link \/ ChangeView \/ EnterDemo \/ LeaveDemo \/ Disconnect \/ Reconnect \/ Restart
    \/ \E id \in Alerts : Toggle(id)
    \/ Pass \/ TipMoves \/ NodeFlips \/ DayPasses \/ Rotate \/ SlowBlock \/ QuietFlips

Spec == Init /\ [][Next]_vars

\* The interval fires as long as the application runs, every query and every
\* message has a time limit, and quiet hours end.
Fairness ==
    /\ WF_vars(BeginTick) /\ WF_vars(EndTick) /\ WF_vars(FailTick) /\ WF_vars(Pass)
    /\ \A g \in Gauges : WF_vars(AnswerGauge(g))
    /\ \A k \in Keys : WF_vars(SendEnds(k))
    /\ WF_vars(quiet /\ QuietFlips) /\ WF_vars(LeaveDemo) /\ WF_vars(Link)

FairSpec == Spec /\ Fairness

-----------------------------------------------------------------------------
(* Properties.                                                             *)

\* Every variable keeps to its type; only keys that were announced, or warn-days
\* that were reached, are armed.
TypeOK ==
    /\ world \in Worlds
    /\ {up, moved, slow, quiet, loop, dash, tick, linked, tipSeen} \subseteq BOOLEAN
    /\ level \in [Gauges -> {"bad", "mid", "good"}] /\ episode \in [Gauges -> 0..MaxEpisode]
    /\ kes \in 0..MaxDays /\ mode \in {"live", "demo"}
    /\ tipAge \in 0..StallAfter /\ still \in 0..StallAfter
    /\ seen \in [Gauges -> {None} \cup DemoReadings \cup LiveReadings]
    /\ asked \in [Gauges -> SUBSET LiveReadings]
    /\ on \subseteq world \cap Alerts
    /\ armed \subseteq Keys /\ cool \in [Alerts -> 0..Cooldown]
    /\ sending \subseteq Keys \cup {Key("slow_block")}
    /\ told \subseteq Keys \X (0..MaxEpisode) /\ got \subseteq Keys
    /\ disturbed \in 0..MaxDisturb

\* A stall is announced only when the chain's tip really has not moved for the
\* time set, whatever the application missed meanwhile: an unreachable node, demo,
\* a disconnect, a bot connected late (alerts-engine.js:94-98, 137-150).
StallIsTrue ==
    [][Key("node_stall") \in sending' \ sending => tipAge >= StallAfter]_vars

\* A condition that lasts is announced once, however the cooldown runs, quiet
\* hours come and go, queries fail and the operator reconnects: not again before
\* it has really cleared.  Not so when answers overtake each other, or after demo.
OncePerEpisode ==
    [][~Met("overlap") /\ ~Met("demo") =>
       \A k \in sending' \ sending : <<k, EpisodeOf(k)>> \notin told]_vars

\* What the alert of key k is about is the case, and nothing keeps the application
\* from seeing it.
Trouble(k) ==
    CASE k[1] = "node_stall" -> tipAge = StallAfter
      [] k[1] = "peers_low" -> level["peers_low"] = "bad"
      [] k[1] = "mempool_full" -> level["mempool_full"] = "bad" /\ dash
      [] k[1] = "kes_expiry" -> k[2] \in Hit(kes)

Listening(k) ==
    /\ k[1] \in on /\ linked /\ up /\ loop /\ mode = "live"
    /\ ~Met("sendFail") /\ ~Met("rotate")

\* A trouble that lasts is on the operator's phone in the end, whenever it began:
\* in quiet hours, in a cooldown, while db or node did not answer, in demo.
\* Excepted are sends that fail, which nobody repeats, and a rotated KES key.
TroubleArrives ==
    \A k \in Keys : <>[](Listening(k) /\ Trouble(k)) => []<>(k \in got)

\* Alerts never evaluate demo data (main.js:236-237).
AlertsSeeLiveData ==
    [][tick /\ ~tick' /\ up /\ mode = "live" /\ linked
       => \A g \in Gauges \cap on : seen[g].of # "demo"]_vars
=============================================================================
