---------------------------- MODULE ReadingsBase -----------------------------
(* The slots of the parts that read, work out and show, and those of the      *)
(* parts that promise something for every value of their constants.           *)
EXTENDS Integers, Sequences, FiniteSets, TLC

CONSTANTS
    None,                     \* null
    \* of the logs
    Units, JsonUnits,         \* the journal units, those whose node logs JSON
    LogWindows,               \* the propagation windows
    LogRuns, LogVisits,       \* bound: queries, times the tab is opened
    LogTroubles, LogTrouble,  \* bound: what may happen, and how often
    \* of the KES check
    Exact,                    \* the cli states the key's expiry
    Refresh, Timeout,         \* KES_REFRESH_S, CLI_TIMEOUT_KES_S
    Gap,                      \* the longest time between two blocks
    Day, Grades,              \* time units in a day; the days that score
    Life,                     \* how long a new key lasts
    KesTime,                  \* bound: the clock
    KesTroubles, KesTrouble,  \* bound: what may happen, and how often
    \* of the moves
    Home, Others,             \* our pool, the others
    LiveSources,              \* the live sources the operator may have chosen
    Memory,                   \* events the memory of who left looks through
    MaxMoves, MaxEpochs,      \* bound: delegations made, epochs that end
    MoveTroubles, MoveTrouble, \* bound: what may happen, and how often
    \* of the wizard
    WizardForms,              \* database forms that can be filled in
    WizardTokens, WizardKeys, \* Koios tokens, Blockfrost keys
    WizardGuided,             \* the guided key step is on
    WizardRuns,               \* bound: how often it is opened
    WizardTroubles, WizardTrouble, \* bound: what may happen, and how often
    \* of Koios
    Accounts,                 \* the delegators there may be
    KoiosPage, KoiosPages, KoiosBatch, \* rows of a page, pages, accounts asked at once
    HardStop, Ceiling,        \* where the meter pauses each tier, what Koios allows
    KoiosRuns,                \* what an execution may meet
    KoiosTrouble, KoiosDays,  \* bound: how often something happens, days
    \* of the peers' places
    PeerIps, LocalIps,        \* public and private addresses of peers
    OwnHosts, HostIp,         \* the keys of own locations, their addresses
    GeoCap, GeoBatch,         \* GEO_CACHE_MAX, addresses in a request
    GeoDelay,                 \* GEO_SAVE_DELAY_MS
    GeoCalls, GeoTime,        \* bound: requests under way, the clock
    GeoTroubles, GeoTrouble,  \* bound: what may happen, and how often
    \* of the peaks of the mempool
    PeakReadings, PeakClamp,  \* lengths of the queue, MAX_PEAK_BLK
    PeakPercent,              \* an old reading of one percent, in today's unit
    OldPeaks,                 \* what an earlier release may have left, <<>> for nothing
    PeakMinute, PeakBucket,   \* time units in a minute, minutes in a bucket
    PeakHour, PeakDay,        \* minutes kept one by one, minutes kept at all
    PeakWindows,              \* minutes of the columns
    PeakStart, PeakTime,      \* bound: the clock, at first and at last
    PeakTroubles, PeakTrouble, \* bound: what may happen, and how often
    \* of our blocks
    ForgePools,               \* the pools of the operator's nodes
    ForgeEpoch, ForgeTime,    \* ticks of an epoch; bound: the clock
    ForgeGrace, ForgeRefresh, \* LOST_GRACE_MS, PRODUCED_REFRESH_MS
    ForgeLag, ForgeQuery,     \* how long Koios may not have a block, a query take
    ForgeLeads,               \* leader schedules there may be
    ForgeMoves, ForgeMove,    \* bound: changes of the node, and how often
    \* of the gaps and the boundaries
    GapBeat, GapLength, GapMargin, \* PROP_HEARTBEAT_EVERY_MS, ETX_GAP_THRESH_S, MARGIN_S
    GapEpochs,                \* PROP_EPOCH_MAX
    GapTime, GapBlocks, GapEpoch, \* bound: the clock, blocks made, epochs
    GapTroubles, GapTrouble,  \* bound: what may happen, and how often
    \* of the slow blocks
    SlowPools, SlowViewers,   \* producers, views open at once
    SlowCap,                  \* PROP_SLOW_MAX
    SlowBefore, SlowAfter,    \* the window of the time match
    SlowTime, SlowHeight,     \* bound: the last slot, blocks forged
    SlowGenesis, SlowLegacy,  \* the first block, logs an earlier release may have left
    SlowTroubles, SlowTrouble \* bound: what may happen, and how often

\* A question is given up after 20 seconds and asked again after 60 (cli.js:25,
\* live.js:34).
ASSUME KesAssumption ==
    Refresh \in Nat /\ Timeout \in Nat /\ Timeout < Refresh /\ Gap \in Nat /\ Life \in Nat

\* No pool is called what a lookup says of one.
ASSUME PoolsAssumption ==
    /\ None \notin Others \cup {Home} /\ Home \notin Others
    /\ \A word \in {"no entry", "ours", "unknown"} : word \notin Others \cup {Home, None}

\* Nothing is no form, token, key, step or word.
ASSUME WizardAssumption ==
    /\ None \notin WizardForms \cup WizardTokens \cup WizardKeys \cup Nat
    /\ \A word \in {"ssh", "tunnel", "local", "bp", "remote", "alert", "db", "bf"} : None # word

\* Each tier's stop leaves room for a call for every time the pause is lifted: 100 calls
\* below 5000 without a token, 1000 below 50000 with one (koios-meter.js:33-34).
ASSUME KoiosAssumption ==
    /\ KoiosTrouble \in Nat
    /\ \A t \in {"free", "token"} :
         /\ HardStop[t] \in Nat \ {0} /\ Ceiling[t] \in Nat
         /\ HardStop[t] + KoiosTrouble <= Ceiling[t]

\* There are no more hosts than places (2000, geo-query.js:37), and no key of a host's own
\* location is an address.
ASSUME GeoAssumption ==
    /\ IsFiniteSet(PeerIps) /\ IsFiniteSet(OwnHosts) /\ GeoCap \in Nat /\ GeoBatch \in Nat
    /\ Cardinality(OwnHosts) <= GeoCap
    /\ \A h \in OwnHosts : HostIp[h] \notin OwnHosts
    /\ GeoDelay \in Nat /\ None \notin Nat

\* Times and lengths are numbers; a minute, a bucket and the clamp are none of them 0
\* (mempool.js:289-290, 334-339).
ASSUME PeakAssumption ==
    /\ PeakReadings \subseteq Nat /\ PeakClamp \in Nat \ {0} /\ PeakPercent \in Nat
    /\ PeakMinute \in Nat \ {0} /\ PeakBucket \in Nat \ {0}
    /\ PeakHour \in Nat /\ PeakDay \in Nat /\ PeakStart \in Nat /\ PeakWindows \subseteq Nat

\* The earlier release kept the maximum of every minute of the last day, in percent or in
\* clamped blocks (mempool.js:278, 300-320): none is above that of all time, whose own
\* minute is among them unless it is more than a day ago.
ASSUME OldPeaksAssumption ==
    \A o \in OldPeaks : o # <<>> =>
        /\ o.unit \in {"percent", "blocks"} /\ o.all \in Nat /\ o.at \in Nat
        /\ \A k \in DOMAIN o.mins : k \in Nat /\ o.mins[k] \in Nat /\ o.mins[k] <= o.all
        /\ o.unit = "blocks" => o.all <= PeakClamp
        /\ \/ o.at \div PeakMinute < PeakStart \div PeakMinute - PeakDay
           \/ \E k \in DOMAIN o.mins : k = o.at \div PeakMinute /\ o.mins[k] = o.all

\* What a run of the block counters holds while a query of it is under way.
ForgeRun ==
    [stage : {"schedule", "count"}, epoch : Int, ideal : ForgePools \cup {None},
     pool : ForgePools, since : Nat, open : BOOLEAN]

\* A slot is called lost after 10 minutes (read-model.js:665), a count asked for again
\* after 3 (read-model.js:554); the cli's query is given up after 5 (cli.js:27), Koios'
\* sooner (koios-query.js:27), and Koios is taken to have a block 7 minutes after it was
\* made.
ASSUME ForgeAssumption ==
    /\ ForgeEpoch \in Nat \ {0} /\ ForgeTime \in Nat
    /\ ForgeGrace \in Nat /\ ForgeRefresh \in Nat /\ ForgeLag \in Nat /\ ForgeQuery \in Nat
    /\ ForgeRefresh + ForgeLag <= ForgeGrace
    /\ ForgeQuery + ForgeRefresh <= ForgeGrace /\ 2 * ForgeQuery <= ForgeGrace
    /\ None \notin ForgePools /\ None \notin ForgeRun
    /\ \A l \in ForgeLeads : \A p \in ForgePools : l[p] \subseteq Nat

\* A gap is one of 120 seconds (logs.js:928-930), with a margin of 40 on either side
\* (logs.js:1021) and a beat every 30 (read-model.js:1353).
ASSUME GapAssumption ==
    /\ GapBeat \in Nat \ {0} /\ GapMargin \in Nat /\ GapEpochs \in Nat
    /\ GapLength \in Nat /\ GapLength > 2 * GapMargin + GapBeat

SlowBlock == [slot : Int, pool : SlowPools]
SlowRecord ==
    [blockNo : Int \cup {None}, htLive : BOOLEAN, ts : Int, pool : SlowPools \cup {None},
     resolved : BOOLEAN, block : SlowBlock, had : BOOLEAN]

\* An earlier release did not note whether a height came from the node.
ASSUME SlowAssumption ==
    /\ SlowCap \in Nat /\ SlowBefore \in Nat /\ SlowAfter \in Nat /\ None \notin Int
    /\ SlowGenesis \in SlowBlock /\ SlowLegacy \subseteq Seq(SlowRecord)
    /\ \A old \in SlowLegacy : \A i \in DOMAIN old : old[i].htLive = FALSE

VARIABLES
    machine,  \* which of the instances below runs, chosen at first
    v1, v2, v3, v4, v5, v6, v7, v8, v9, v10, v11, v12, v13, v14, v15, v16,
    v17, v18  \* its variables, in the order of its WITH

slots == <<machine, v1, v2, v3, v4, v5, v6, v7, v8, v9, v10, v11, v12, v13, v14,
           v15, v16, v17, v18>>

\* Two queries under way, over two visits.
Logs == INSTANCE LogsView WITH
    Units <- Units, JsonUnits <- JsonUnits, Windows <- LogWindows,
    MaxRuns <- LogRuns, MaxMounts <- LogVisits,
    Disturb <- LogTroubles, MaxDisturb <- LogTrouble,
    here <- v1, mount <- v2, demo <- v3, button <- v4, panel <- v5,
    status <- v6, copied <- v7, window <- v8, source <- v9, dbsync <- v10,
    unit <- v11, formats <- v12, tasks <- v13, runs <- v14, left <- v15

\* A key that nears its end, rotated, or a check that begins to fail.
Kes == INSTANCE KesReading WITH
    None <- None, Exact <- Exact, Refresh <- Refresh, Timeout <- Timeout,
    Gap <- Gap, Day <- Day, Grades <- Grades, Life <- Life, MaxTime <- KesTime,
    Disturb <- KesTroubles, MaxDisturb <- KesTrouble,
    now <- v1, past <- v2, due <- v3, probe <- v4, kes <- v5, asks <- v6,
    tip <- v7, shown <- v8, since <- v9, missed <- v10, left <- v11

\* An account that leaves for another pool or for none, and comes back.
Origins == INSTANCE MoveOrigins WITH
    None <- None, Us <- Home, Others <- Others, Sources <- LiveSources,
    Memory <- Memory, MaxMoves <- MaxMoves, MaxEpochs <- MaxEpochs,
    Disturb <- MoveTroubles, MaxDisturb <- MoveTrouble,
    source <- v1, pool <- v2, cert <- v3, active <- v4, listed <- v5,
    known <- v6, feed <- v7, tickers <- v8, poll <- v9, during <- v10,
    moves <- v11, epochs <- v12, left <- v13

\* The wizard, and the wizard again over what it stored.
Wizard == INSTANCE SetupWizard WITH
    None <- None, Entries <- WizardForms, Tokens <- WizardTokens,
    Keys <- WizardKeys, Guided <- WizardGuided, MaxRuns <- WizardRuns,
    Disturb <- WizardTroubles, MaxDisturb <- WizardTrouble,
    stored <- v1, token <- v2, bfKey <- v3, session <- v4, page <- v5,
    wiz <- v6, field <- v7, waits <- v8, applying <- v9, completed <- v10,
    touched <- v11, before <- v12, runs <- v13, left <- v14

\* The meter, the pause and the paged fetch of the delegators.
Koios == INSTANCE KoiosClient WITH
    Accounts <- Accounts, PageSize <- KoiosPage, MaxPages <- KoiosPages,
    BatchSize <- KoiosBatch, HardStop <- HardStop, Ceiling <- Ceiling, Worlds <- KoiosRuns,
    MaxDisturb <- KoiosTrouble, MaxDay <- KoiosDays,
    world <- v1, members <- v2, today <- v3, meter <- v4, paused <- v5,
    tier <- v6, fetch <- v7, list <- v8, stayed <- v9, ever <- v10,
    served <- v11, disturbed <- v12

\* Peers looked up, painted and trimmed.
Places == INSTANCE GeoCache WITH
    None <- None, Ips <- PeerIps, Local <- LocalIps, Hosts <- OwnHosts,
    OwnIp <- HostIp, Cap <- GeoCap, Batch <- GeoBatch, Delay <- GeoDelay,
    MaxCalls <- GeoCalls, MaxTime <- GeoTime,
    Disturb <- GeoTroubles, MaxDisturb <- GeoTrouble,
    now <- v1, mode <- v2, cache <- v3, timer <- v4, calls <- v5,
    stored <- v6, full <- v7, order <- v8, since <- v9, left <- v10

\* The marks of the mempool, from nothing or from those of an earlier release.
Peaks == INSTANCE MempoolPeaks WITH
    None <- <<>>, Readings <- PeakReadings, Clamp <- PeakClamp, Percent <- PeakPercent,
    OldPeaks <- OldPeaks, Minute <- PeakMinute, Bucket <- PeakBucket, Hour <- PeakHour,
    Day <- PeakDay, Windows <- PeakWindows, Start <- PeakStart, MaxTime <- PeakTime,
    Disturb <- PeakTroubles, MaxDisturb <- PeakTrouble,
    now <- v1, mode <- v2, loaded <- v3, peaks <- v4, dirty <- v5,
    savedAt <- v6, stored <- v7, older <- v8, full <- v9, seen <- v10,
    kept <- v11, readAt <- v12, refused <- v13, left <- v14

\* Slots of two epochs, the operator's node changed under a run.
Blocks == INSTANCE BlockProduction WITH
    None <- None, Pools <- ForgePools, EpochLen <- ForgeEpoch, LastTime <- ForgeTime,
    Grace <- ForgeGrace, Refresh <- ForgeRefresh, Lag <- ForgeLag, QueryTime <- ForgeQuery,
    Leads <- ForgeLeads, Moves <- ForgeMoves, MaxMoves <- ForgeMove,
    now <- v1, leads <- v2, minted <- v3, pool <- v4, bech <- v5, ideal <- v6,
    idealEpoch <- v7, idealCall <- v8, schedEpoch <- v9, assigned <- v10,
    producedAt <- v11, produced <- v12, loaded <- v13, call <- v14, bp <- v15,
    rows <- v16, moves <- v17, switched <- v18

\* Gaps between two blocks, watched or not, and the boundaries of epochs, over restarts,
\* reconnections and a node that is behind.
Gaps == INSTANCE Propagation WITH
    None <- None, BeatEvery <- GapBeat, GapThresh <- GapLength, Margin <- GapMargin,
    PropEpochMax <- GapEpochs, LastTime <- GapTime, MaxBlocks <- GapBlocks,
    MaxEpoch <- GapEpoch, Disturb <- GapTroubles, MaxDisturb <- GapTrouble,
    now <- v1, made <- v2, epoch <- v3, up <- v4, watched <- v5, metric <- v6,
    lastBlock <- v7, lastBeat <- v8, lastEpoch <- v9, samples <- v10,
    beats <- v11, boundaries <- v12, left <- v13

\* A full slow log, with a record of an earlier release, heights that come and go,
\* and a fork or a restart.
Slow == INSTANCE SlowBlocks WITH
    None <- None, Pools <- SlowPools, Viewers <- SlowViewers, SlowMax <- SlowCap,
    Before <- SlowBefore, After <- SlowAfter, LastSlot <- SlowTime, MaxBlocks <- SlowHeight,
    Legacy <- SlowLegacy, Genesis <- SlowGenesis, Disturb <- SlowTroubles,
    MaxDisturb <- SlowTrouble,
    slot <- v1, chain <- v2, indexed <- v3, last <- v4, log <- v5,
    purged <- v6, attempted <- v7, run <- v8, left <- v9, forked <- v10

-----------------------------------------------------------------------------
(* Properties.                                                             *)

\* The log table and its panel are of one source, the one its button names.
TableIsOfItsSource == machine = "logs" => Logs!TableIsOfItsSource

\* However the answers overlap, counters and expiry on the screen were the node's at
\* one moment not long ago, and a check that keeps failing scores nothing.
KesIsHonest == machine = "kes" => Kes!ReadingIsRecent /\ Kes!FailingScoresNothing

\* A join is told to have come from where the stake was active, a leave to have gone
\* where the account was, and no leave is lost to a failing lookup of Koios'.
MovesAreToldTruly == [][machine = "origins" => Origins!TruthIfTold]_slots

\* Finishing the wizard again keeps what was not touched, and what it stores is
\* whole: no database entry without its place, no key wanted and missing. Even with a
\* second click on Next the token, the use and the place of the database are kept.
FinishIsSound == [][machine = "wizard" => Wizard!KeepsTheRest /\ Wizard!WholeIfStored]_slots

\* What is limited stays so. The auto-pause keeps the day's requests of each tier
\* under what Koios allows, through tokens entered, mistyped and removed, lifted
\* pauses and midnights; the places of peers are cut to their cap from the end used
\* least, a host's own never among them, and no crash costs more than a minute's.
WithinLimit ==
    /\ machine = "koios" => Koios!WithinLimit
    /\ machine = "places" => Places!CapDropsOldest /\ Places!HostsStay /\ Places!CrashCostsAMinute

\* The peaks of each window are maxima of real readings of it, that of all time is
\* exact through one change of unit, and a crash loses a minute of readings at most.
PeaksAreHonest ==
    machine = "peaks" => Peaks!WindowsAreHonest /\ Peaks!AllTimeIsExact /\ Peaks!CrashCostsAMinute

\* What the application says of blocks is so. Never are more called lost than are,
\* not while a count lags, fails, or is that of the epoch or the connection before;
\* a slow block's producer is that of the height beside it, and its own when the node
\* told the height or db-sync had the block when asked, also in a log of an earlier
\* release and unless that block was forked away; a gap between blocks it watched is
\* told as the chain's; every epoch boundary it lived through is noted once, restarts
\* included.
BlocksAreToldTruly ==
    /\ machine = "blocks" => Blocks!NeverCriesLost
    /\ machine = "slow" => Slow!NamesAreKnown
    /\ machine = "gaps" => Gaps!WatchedGapIsTheChains /\ Gaps!BoundaryOnce
=============================================================================
