------------------------------ MODULE MCUpkeep -------------------------------
(* The parts that keep something up to date over failures, in one run:        *)
(* instances of their modules that share the slots below, under the fairness  *)
(* each module states. The initial state says which of them runs.             *)
EXTENDS Integers, FiniteSets, TLC

CONSTANTS
    None, Undefined,
    \* db-sync: SourceAccess
    Databases, NeedsSecret, Pools, MaxBackoff,
    AccessTroubles,        \* bound: disturbances
    \* upcoming blocks: UpcomingBlocks
    EpochLen, NextWindow, LastTime, Empty, CurRetry, NextRetry, Grace, RunTime,
    MaxFails, MaxResets, MaxRuns,
    \* sessions to a node: NodeSession
    Nodes, BPs, Envs,
    Troubles, HastyTroubles, \* bound: disturbances of its two instances
    \* the feed: MessageFeed
    Filtered, LastMessage,   \* messages hidden; bound: the newest
    SeedLimit, PageLen, MaxPages, BufferMax, Guard, OnScreen,
    Calls,                   \* bound: starts and polls under way
    FeedTroubles, FeedTrouble, \* bound: what may happen, and how often
    \* the notifications: NotifDisplay
    Batches, SummaryThreshold, MaxVisible,
    MaxStored, MaxQueries, MaxTurns, \* bound: events, queries, clicks
    \* a relay: RelayDashboard
    Ahead, Fresh, Retain, BeatsAtOnce,
    RelayPolls, StartPolls,  \* bound: polls under way in its two instances
    RelayTime,               \* bound: the clock
    RelayTroubles, StartTroubles, \* bound: what may happen in each,
    RelayTrouble, StartTrouble    \* and how often

\* The two queries of a run are over long before the node knows the epoch after the
\* next: they take at most 300 seconds each (cli.js:27), and it knows one about 36
\* hours before its boundary, which is 84 hours after the last (read-model.js:565).
ASSUME ScheduleAssumption ==
    /\ EpochLen \in Nat \ {0} /\ NextWindow \in Nat /\ RunTime \in Nat
    /\ 2 * RunTime < EpochLen - NextWindow

\* A page and the screen hold something (200, 50: now2.js:942, now2.js:904), and messages
\* are counted.
ASSUME FeedAssumption ==
    /\ LastMessage \in Nat /\ SeedLimit \in Nat /\ PageLen \in Nat \ {0}
    /\ BufferMax \in Nat /\ Guard \in Nat /\ OnScreen \in Nat \ {0}

\* A poll that announces something announces one event at least.
ASSUME NoticesAssumption ==
    /\ Batches \subseteq Nat \ {0} /\ SummaryThreshold \in Nat
    /\ MaxVisible \in Nat /\ MaxStored \in Nat

ASSUME RelayAssumption ==
    /\ Ahead \in Nat /\ Retain \in Nat /\ BeatsAtOnce \in Nat /\ RelayTime \in Nat

\* Nothing is no role.
ASSUME NoneAssumption == None \notin {"BP", "RELAY", "UNKNOWN"}

VARIABLES
    machine,  \* which of the instances below runs, chosen at first
    v1, v2, v3, v4, v5, v6, v7, v8, v9, v10, v11, v12, v13, v14, v15, v16  \* its variables, in the order of its WITH

slots == <<machine, v1, v2, v3, v4, v5, v6, v7, v8, v9, v10, v11, v12, v13, v14,
           v15, v16>>

\* The slots a machine of n variables leaves alone.
Unused(n) ==
    /\ IF n < 11 THEN v11 = 0 ELSE TRUE
    /\ IF n < 12 THEN v12 = 0 ELSE TRUE
    /\ IF n < 13 THEN v13 = 0 ELSE TRUE
    /\ IF n < 14 THEN v14 = 0 ELSE TRUE
    /\ IF n < 15 THEN v15 = 0 ELSE TRUE
    /\ IF n < 16 THEN v16 = 0 ELSE TRUE
Idle(n) ==
    /\ UNCHANGED machine
    /\ IF n < 11 THEN UNCHANGED v11 ELSE TRUE
    /\ IF n < 12 THEN UNCHANGED v12 ELSE TRUE
    /\ IF n < 13 THEN UNCHANGED v13 ELSE TRUE
    /\ IF n < 14 THEN UNCHANGED v14 ELSE TRUE
    /\ IF n < 15 THEN UNCHANGED v15 ELSE TRUE
    /\ IF n < 16 THEN UNCHANGED v16 ELSE TRUE

\* An env that sets all, one that warns, one without a pool, one that stops before it,
\* and one without the cli.
Env(error, ccli, net, pool) ==
    [error |-> error, ccli |-> ccli, socket |-> net, home |-> TRUE, net |-> net, pool |-> pool]
SomeEnvs == {Env(FALSE, TRUE, TRUE, TRUE), Env(TRUE, TRUE, TRUE, TRUE), Env(FALSE, TRUE, FALSE, FALSE),
         Env(TRUE, TRUE, TRUE, FALSE), Env(FALSE, FALSE, TRUE, TRUE)}

\* One database opens without a password, the other wants one.
Access == INSTANCE SourceAccess WITH
    Disturb <- {"test", "finish", "disconnect", "drop", "outage"},
    MaxDisturb <- AccessTroubles,
    pool <- v1, saved <- v2, secrets <- v3, serving <- v4, status <- v5,
    init <- v6, inFlight <- v7, fails <- v8, wait <- v9, cfg <- v10,
    hex <- v11, poolId <- v12, ready <- v13, call <- v14, prompt <- v15,
    left <- v16

\* An epoch closes and settles while backfill, filler and refresh write its row.
History == INSTANCE HistorySources WITH
    Sources <- {"dbsync", "koios"}, FirstEpoch <- 2, LastEpoch <- 3,
    Window <- 2, Disturb <- {"demo", "query"}, MaxDisturb <- 1,
    epoch <- v1, settled <- v2, up <- v3, mode <- v4, active <- v5,
    rows <- v6, done <- v7, koios <- v8, wait <- v9, job <- v10, left <- v11

\* Two epochs, the second without a slot; runs of the cli that overlap and fail.
Schedule == INSTANCE UpcomingBlocks WITH
    Window <- NextWindow,
    now <- v1, tip <- v2, curEpoch <- v3, curSlots <- v4, curCheckedAt <- v5,
    curFirstTryAt <- v6, nextEpoch <- v7, nextSlots <- v8,
    nextCheckedAt <- v9, disk <- v10, runs <- v11, fails <- v12, resets <- v13

\* Four messages for a buffer of two, over seeds and polls that overlap.
Feed == INSTANCE MessageFeed WITH
    Hidden <- Filtered, MaxTop <- LastMessage, Tasks <- Calls,
    Disturb <- FeedTroubles, MaxDisturb <- FeedTrouble,
    top <- v1, mode <- v2, mounted <- v3, demo <- v4, since <- v5,
    buffer <- v6, screen <- v7, paused <- v8, polling <- v9, dripping <- v10,
    task <- v11, late <- v12, left <- v13

\* Single events and bursts, announced over a feed that comes and goes.
Notices == INSTANCE NotifDisplay WITH
    stored <- v1, cleared <- v2, mode <- v3, mounted <- v4, unread <- v5,
    queries <- v6, canvas <- v7, toasts <- v8, burst <- v9, turns <- v10

\* A relay's tab over overlapping polls and one trouble.
Relay == INSTANCE RelayDashboard WITH
    Polls <- RelayPolls, MaxTime <- RelayTime,
    Disturb <- RelayTroubles, MaxDisturb <- RelayTrouble,
    now <- v1, block <- v2, born <- v3, node <- v4, link <- v5, mode <- v6,
    tab <- v7, fits <- v8, probe <- v9, beats <- v10, last <- v11,
    peers <- v12, shown <- v13, polls <- v14, left <- v15

\* The same, found while its node starts and has no metrics yet.
Starting == INSTANCE RelayDashboard WITH
    Polls <- StartPolls, MaxTime <- RelayTime,
    Disturb <- StartTroubles, MaxDisturb <- StartTrouble,
    now <- v1, block <- v2, born <- v3, node <- v4, link <- v5, mode <- v6,
    tab <- v7, fits <- v8, probe <- v9, beats <- v10, last <- v11,
    peers <- v12, shown <- v13, polls <- v14, left <- v15

\* A block producer and a relay, connected to in turn, resumed and left for demo.
Node == INSTANCE NodeSession WITH
    Disturb <- {"ssh", "env", "down", "disconnect", "demo", "settled"},
    MaxDisturb <- Troubles,
    shell <- v1, saved <- v2, mode <- v3, conn <- v4, probe <- v5,
    dialog <- v6, attempt <- v7, polling <- v8, asks <- v9, badge <- v10,
    version <- v11, warned <- v12, down <- v13, left <- v14

\* The same, with questions that outlive their session and a wizard closed early.
Hasty == INSTANCE NodeSession WITH
    Disturb <- {"down", "disconnect", "overlap", "reload", "cancel"},
    MaxDisturb <- HastyTroubles,
    shell <- v1, saved <- v2, mode <- v3, conn <- v4, probe <- v5,
    dialog <- v6, attempt <- v7, polling <- v8, asks <- v9, badge <- v10,
    version <- v11, warned <- v12, down <- v13, left <- v14

-----------------------------------------------------------------------------
Init ==
    \/ machine = "access" /\ Access!Init /\ Unused(16)
    \/ machine = "history" /\ History!Init /\ Unused(11)
    \/ machine = "schedule" /\ Schedule!Init /\ Unused(13)
    \/ machine = "feed" /\ Feed!Init /\ Unused(13)
    \/ machine = "notices" /\ Notices!Init /\ Unused(10)
    \/ machine = "relay" /\ Relay!Init /\ Unused(15)
    \/ machine = "starting" /\ Starting!Init /\ Unused(15)
    \/ machine = "node" /\ Node!Init /\ Unused(14)
    \/ machine = "hasty" /\ Hasty!Init /\ Unused(14)

Next ==
    \/ machine = "access" /\ Access!Next /\ Idle(16)
    \/ machine = "history" /\ History!Next /\ Idle(11)
    \/ machine = "schedule" /\ Schedule!Next /\ Idle(13)
    \/ machine = "feed" /\ Feed!Next /\ Idle(13)
    \/ machine = "notices" /\ Notices!Next /\ Idle(10)
    \/ machine = "relay" /\ Relay!Next /\ Idle(15)
    \/ machine = "starting" /\ Starting!Next /\ Idle(15)
    \/ machine = "node" /\ Node!Next /\ Idle(14)
    \/ machine = "hasty" /\ Hasty!Next /\ Idle(14)

(* What each module calls fair: timers fire, what was asked is answered, what went *)
(* down comes back.                                                               *)
Fairness ==
    /\ \A c \in Access!Callers : WF_slots(machine = "access" /\ Access!Step(c) /\ Idle(16))
    /\ WF_slots(machine = "access" /\ Access!Ensure /\ Idle(16))
    /\ WF_slots(machine = "access" /\ Access!Minute /\ Idle(16))
    /\ \A d \in Databases : WF_slots(machine = "access" /\ Access!Back(d) /\ Idle(16))
    /\ WF_slots(machine = "access" /\ (\E p \in Pools : Access!Connect(p)) /\ Idle(16))
    /\ SF_slots(machine = "history" /\ History!Tick /\ Idle(11))
    /\ WF_slots(machine = "history" /\ History!MinutePasses /\ Idle(11))
    /\ WF_slots(machine = "history" /\ History!WriteLive /\ Idle(11))
    /\ \A j \in History!Jobs : WF_slots(machine = "history" /\ History!JobStep(j) /\ Idle(11))
    /\ WF_slots(machine = "history" /\ History!Back /\ Idle(11))
    /\ WF_slots(machine = "history" /\ History!ComeBack /\ Idle(11))
    /\ WF_slots(machine = "schedule" /\ Schedule!Tick /\ Idle(13))
    /\ WF_slots(machine = "schedule" /\ Schedule!Poll /\ Idle(13))
    /\ WF_slots(machine = "schedule" /\ Schedule!Start /\ Idle(13))
    /\ WF_slots(machine = "schedule" /\ Schedule!Answer /\ Idle(13))
    /\ WF_slots(machine = "feed" /\ Feed!Drip /\ Idle(13))
    /\ WF_slots(machine = "feed" /\ (\E t \in Calls : Feed!Poll(t)) /\ Idle(13))
    /\ \A t \in Calls :
        WF_slots(machine = "feed" /\ Idle(13)
                 /\ (Feed!StartAnswers(t) \/ Feed!SeedAnswers(t) \/ Feed!PageAnswers(t)))
    /\ WF_slots(machine = "notices" /\ (Notices!Painted \/ Notices!Cleared) /\ Idle(10))
    /\ WF_slots(machine = "notices" /\ Notices!FadeOut /\ Idle(10))
    /\ WF_slots(machine = "relay" /\ Relay!Asks /\ Idle(15))
    /\ WF_slots(machine = "relay" /\ Relay!Answers /\ Idle(15))
    /\ WF_slots(machine = "relay" /\ Relay!Starts /\ Idle(15))
    /\ WF_slots(machine = "relay" /\ Relay!MetricsAnswer /\ Idle(15))
    /\ WF_slots(machine = "relay" /\ Relay!Returns /\ Idle(15))
    /\ WF_slots(machine = "node" /\ Node!Answer /\ Idle(14))

Spec == Init /\ [][Next]_slots /\ Fairness

-----------------------------------------------------------------------------
(* Properties.                                                             *)

\* The type invariant of whichever machine runs.
Typed ==
    CASE machine = "access" -> Access!TypeOK [] machine = "history" -> History!TypeOK
      [] machine = "schedule" -> Schedule!TypeOK [] machine = "feed" -> Feed!TypeOK
      [] machine = "notices" -> Notices!TypeOK [] machine = "relay" -> Relay!TypeOK
      [] machine = "starting" -> Starting!TypeOK
      [] machine = "node" -> Node!TypeOK [] machine = "hasty" -> Hasty!TypeOK

\* What is shown of a connection is true of it. A db-sync status of ok, with no attempt
\* in flight, means that queries reach it, through the wizard's tests, disconnects,
\* drops and outages. The node named in the header is the one that answers and has that
\* role and version, and is polled, after failed attempts, reconnecting elsewhere,
\* reloads and demo; a block producer without a pool is never shown without a warning.
ConnectionsAreAsShown ==
    /\ machine = "access" => Access!OkMeansReady
    /\ machine = "node" => Node!HeaderIsTheNodes /\ Node!NotStranded /\ Node!PoollessIsTold
    /\ machine = "hasty" => Hasty!PoollessIsTold

\* A schedule saved as an epoch's is that epoch's, or one without slots: the next start
\* adopts it unasked.
SavedNextIsItsEpochs == machine = "schedule" => Schedule!SavedNextIsItsEpochs

\* What is announced is announced once: no message surfaces twice or out of order while
\* calls do not overlap, no block beats twice on a relay's strip even when they do, and
\* toasts that come one at a time stay within the cap.
AnnouncedOnce ==
    /\ machine = "feed" => Feed!OnceAndInOrder
    /\ machine = "notices" => Notices!CapKeptOneByOne
    /\ machine = "relay" => Relay!BeatsOnce
    /\ machine = "starting" => Starting!BeatsOnce

\* A source that failed is used again: db-sync ends up open or waiting for its password,
\* a closed epoch whose rewards are settled does not stay without them, and a relay that
\* can be read is looked for until its tip is shown.
SourcesHeal ==
    /\ <>[](machine = "access" => Access!OpenOrAsking)
    /\ \A e \in History!Epochs :
         (machine = "history" /\ History!Owed(e)) ~> (machine = "history" /\ ~History!Owed(e))
    /\ []<>(machine = "relay" => Relay!TipShown)

\* Screens catch up: the schedule panel leaves "querying" and gets the epoch's slots, the
\* newest message not hidden reaches a dashboard left open in live mode, and the
\* notifications page left open comes to show what is stored and not cleared; the role
\* of a node in use is painted.
ScreensCatchUp ==
    /\ (machine = "schedule" /\ Schedule!Loading) ~> (machine = "schedule" /\ ~Schedule!Loading)
    /\ <>[](machine = "schedule" => Schedule!ScheduleIsThere)
    /\ <>[](machine = "feed" /\ Feed!Attended) => []<>(machine = "feed" => Feed!NewestShown)
    /\ <>[](machine = "notices" /\ Notices!Open) => <>[](machine = "notices" => Notices!AllShown)
    /\ (machine = "node" /\ Node!RoleMissing) ~> (machine = "node" /\ ~Node!RoleMissing)
=============================================================================
