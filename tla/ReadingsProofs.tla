--------------------------- MODULE ReadingsProofs ---------------------------
(* Ten of the parts that read, work out and show keep their promise in        *)
(* every behaviour of MCReadings, for any value of their constants; the other *)
(* parts of it are only checked.                                              *)
EXTENDS MCReadings, ReadingsBaseProofs

LogsInv == machine = "logs" => Logs!TableFollows

LEMMA LogsSteps == LogsInv /\ [Next]_slots => LogsInv'
<1> SUFFICES ASSUME LogsInv, [Next]_slots PROVE LogsInv'
  OBVIOUS
<1>1. CASE machine = "logs" /\ Logs!Next /\ UNCHANGED machine
  BY <1>1, LogsNext DEF LogsInv
<1>2. CASE UNCHANGED slots
  BY <1>2 DEF LogsInv, slots, Logs!TableFollows, Logs!TableIsOfItsSource, Logs!Waits
<1>3. CASE machine # "logs" /\ UNCHANGED machine
  BY <1>3 DEF LogsInv
<1> QED  BY <1>1, <1>2, <1>3 DEF Next, Idle

\* A table of minted blocks is on the page under its own button only, and of the source
\* that the toggle names, whatever answers come late, for any units, windows and number
\* of queries (logs.js: runQuery, loadDbsyncBlocks, loadLocalBlocks).
THEOREM TableHolds == Spec => []TableIsOfItsSource
<1>1. Init => LogsInv
  BY LogsStart DEF Init, LogsInv
<1>2. LogsInv => TableIsOfItsSource
  BY DEF LogsInv, Logs!TableFollows, TableIsOfItsSource
<1> QED  BY <1>1, <1>2, LogsSteps, PTL DEF Spec

-----------------------------------------------------------------------------
(* The KES check.                                                          *)

KesSafe == machine = "kes" => KesInv

LEMMA KesSteps == KesSafe /\ [Next]_slots => KesSafe'
<1> SUFFICES ASSUME KesSafe, [Next]_slots PROVE KesSafe'
  OBVIOUS
<1>1. CASE machine = "kes" /\ Kes!Next /\ UNCHANGED machine
  BY <1>1, KesNext DEF KesSafe
<1>2. CASE UNCHANGED slots
  <2>1. UNCHANGED <<machine, v1, v2, v3, v4, v5, v6, v7, v8, v9, v10, v11>>
    BY <1>2 DEF slots
  <2>2. KesInv => KesInv'
    BY <2>1 DEF KesInv, KesTyped, Kes!Asked, Kes!Watched, Kes!IsAnswer, Kes!AnswerOf, Kes!Tells,
      Kes!Late, Kes!OpenSince, Kes!Fresh, Kes!Unknown, Kes!ReadingIsRecent,
      Kes!FailingScoresNothing, Kes!Steady, Kes!Lately, Kes!Lag
  <2> QED  BY <2>1, <2>2 DEF KesSafe
<1>3. CASE machine # "kes" /\ UNCHANGED machine
  BY <1>3 DEF KesSafe
<1> QED  BY <1>1, <1>2, <1>3 DEF Next, Idle

\* However the answers of the KES check overlap, the reading on the screen was the node's
\* at one moment not long ago, and a check that keeps failing scores nothing, for any
\* refresh and timeout, the timeout being shorter (live.js: _maybeRefreshKes).
THEOREM KesHolds == Spec => []KesIsHonest
<1>1. Init => KesSafe
  BY KesStart DEF Init, KesSafe
<1>2. KesSafe => KesIsHonest
  BY DEF KesSafe, KesInv, KesIsHonest
<1> QED  BY <1>1, <1>2, KesSteps, PTL DEF Spec

-----------------------------------------------------------------------------
(* The moves.                                                              *)

MovesSafe == machine = "origins" => MovesKnown

LEMMA MovesSteps ==
    MovesSafe /\ [Next]_slots =>
        MovesSafe' /\ [machine = "origins" => Origins!TruthIfTold]_slots
<1> SUFFICES ASSUME MovesSafe, [Next]_slots
             PROVE  MovesSafe' /\ [machine = "origins" => Origins!TruthIfTold]_slots
  OBVIOUS
<1>1. CASE machine = "origins" /\ Origins!Next /\ UNCHANGED machine
  BY <1>1, MovesNext DEF MovesSafe
<1>2. CASE UNCHANGED slots
  <2>1. UNCHANGED <<machine, v1, v2, v3, v4, v6, v7, v8, v9, v10>>
    BY <1>2 DEF slots
  <2>2. MovesKnown => MovesKnown'
    BY <2>1 DEF MovesKnown, Origins!PollIsTrue, Origins!TrueSoFar, Origins!Events, Origins!Idle
  <2> QED  BY <1>2, <2>1, <2>2 DEF MovesSafe
<1>3. CASE machine # "origins" /\ UNCHANGED machine
  BY <1>3 DEF MovesSafe
<1> QED  BY <1>1, <1>2, <1>3 DEF Next, Idle

\* A join names a pool the stake was active in, a leave where the account went while the
\* poll ran, and none is lost to a failing lookup of Koios', for any pools, number of moves
\* and epochs (read-model.js: refreshNotifications, classifyLeavers).
THEOREM MovesHold == Spec => MovesAreToldTruly
<1>1. Init => MovesSafe
  BY MovesStart DEF Init, MovesSafe
<1> QED  BY <1>1, MovesSteps, PTL DEF Spec, MovesAreToldTruly

-----------------------------------------------------------------------------
(* The wizard.                                                             *)

WizardSafe == machine = "wizard" => WizardInv

LEMMA WizardKeeps ==
    WizardSafe /\ [Next]_slots =>
        /\ WizardSafe'
        /\ [machine = "wizard" => Wizard!KeepsTheRest /\ Wizard!WholeIfStored]_slots
<1> SUFFICES ASSUME WizardSafe, [Next]_slots
             PROVE  /\ WizardSafe'
                    /\ [machine = "wizard" =>
                          Wizard!KeepsTheRest /\ Wizard!WholeIfStored]_slots
  OBVIOUS
<1>1. CASE machine = "wizard" /\ Wizard!Next /\ UNCHANGED machine
  BY <1>1, WizardNext DEF WizardSafe
<1>2. CASE UNCHANGED slots
  <2>1. UNCHANGED <<machine, v1, v2, v4, v5, v6, v7, v8, v9, v11>>
    BY <1>2 DEF slots
  <2>2. WizardInv => WizardInv'
    BY <2>1 DEF WizardInv, WizardOnce, WizardTyped, WizardFilled, WizardBehind, WizardWaits,
      WizardDbKept, WizardTokenKept, WizardAlways, WizardShape, WizardStored, WizardReached,
      WizardPlaceKept, WizardTokenStays
  <2> QED  BY <1>2, <2>1, <2>2 DEF WizardSafe
<1>3. CASE machine # "wizard" /\ UNCHANGED machine
  BY <1>3 DEF WizardSafe
<1> QED  BY <1>1, <1>2, <1>3 DEF Next, Idle

\* A run of the wizard ends in a whole configuration, and what the user did not touch of
\* the database and the token is as it was, for any forms, tokens and keys, any number of
\* runs, refusals and ways out; with any number of clicks on Next at once, the token and
\* the use and place of the database still are (wizard.js: showSetupWizard, applyWizard).
THEOREM FinishHolds == Spec => FinishIsSound
<1>1. Init => WizardSafe
  BY WizardStart DEF Init, WizardSafe
<1> QED  BY <1>1, WizardKeeps, PTL DEF Spec, FinishIsSound

-----------------------------------------------------------------------------
(* The meter of Koios' requests, and the places of the peers.              *)

KoiosSafe == machine = "koios" => KoiosInv

LEMMA KoiosKeeps == KoiosSafe /\ [Next]_slots => KoiosSafe'
<1> SUFFICES ASSUME KoiosSafe, [Next]_slots PROVE KoiosSafe'
  OBVIOUS
<1>1. CASE machine = "koios" /\ Koios!Next /\ UNCHANGED machine
  BY <1>1, KoiosNext DEF KoiosSafe
<1>2. CASE UNCHANGED slots
  <2>1. UNCHANGED <<machine, v3, v4, v5, v6, v11, v12>>
    BY <1>2 DEF slots
  <2>2. KoiosInv => KoiosInv'
    BY <2>1 DEF KoiosInv, KoiosTyped, Koios!Tally
  <2> QED  BY <2>1, <2>2 DEF KoiosSafe
<1>3. CASE machine # "koios" /\ UNCHANGED machine
  BY <1>3 DEF KoiosSafe
<1> QED  BY <1>1, <1>2, <1>3 DEF Next, Idle

PlacesSafe == machine = "places" => GeoInv

LEMMA PlacesKeep == PlacesSafe /\ [Next]_slots => PlacesSafe'
<1> SUFFICES ASSUME PlacesSafe, [Next]_slots PROVE PlacesSafe'
  OBVIOUS
<1>1. CASE machine = "places" /\ Places!Next /\ UNCHANGED machine
  BY <1>1, GeoNext DEF PlacesSafe
<1>2. CASE UNCHANGED slots
  <2>1. UNCHANGED <<machine, v1, v3, v4, v5, v6, v8, v9>>
    BY <1>2 DEF slots
  <2>2. GeoInv => GeoInv'
    BY <2>1 DEF GeoInv, GeoTimed
  <2> QED  BY <2>1, <2>2 DEF PlacesSafe
<1>3. CASE machine # "places" /\ UNCHANGED machine
  BY <1>3 DEF PlacesSafe
<1> QED  BY <1>1, <1>2, <1>3 DEF Next, Idle

\* No tier is asked more often in a day than Koios allows, through tokens entered, mistyped
\* and removed, pauses lifted and midnights; the places stored are within their cap, no
\* address used later than a kept one is gone, a host's own place stays, and what was
\* learned waits no longer than the delay: for any pages, stops, addresses, caps, delays
\* (koios-meter.js: recordCall; geo-query.js: trimCache, writeCache).
THEOREM LimitHolds == Spec => []WithinLimit
<1>1. Init => KoiosSafe /\ PlacesSafe
  BY KoiosStart, GeoStart DEF Init, KoiosSafe, PlacesSafe
<1>2. KoiosSafe /\ PlacesSafe => WithinLimit
  BY KoiosLimit, GeoHolds DEF KoiosSafe, PlacesSafe, WithinLimit
<1> QED  BY <1>1, <1>2, KoiosKeeps, PlacesKeep, PTL DEF Spec

-----------------------------------------------------------------------------
PeaksSafe == machine = "peaks" => PeaksInv

LEMMA PeaksKeeps == PeaksSafe /\ [Next]_slots => PeaksSafe'
<1> SUFFICES ASSUME PeaksSafe, [Next]_slots PROVE PeaksSafe'
  OBVIOUS
<1>1. CASE machine = "peaks" /\ Peaks!Next /\ UNCHANGED machine
  BY <1>1, PeaksNext DEF PeaksSafe
<1>2. CASE UNCHANGED slots
  <2>1. UNCHANGED <<machine, v1, v3, v4, v5, v6, v7, v8, v9, v10, v11, v12, v13>>
    BY <1>2 DEF slots
  <2>2. PeaksInv => PeaksInv'
    BY <2>1 DEF PeaksInv, PeaksTyped, PeaksStored, PeaksLoaded, PeaksSaved
  <2> QED  BY <2>1, <2>2 DEF PeaksSafe
<1>3. CASE machine # "peaks" /\ UNCHANGED machine
  BY <1>3 DEF PeaksSafe
<1> QED  BY <1>1, <1>2, <1>3 DEF Next, Idle

\* What the panel shows of the mempool's peaks is true, for any lengths of queue, windows,
\* clamp, buckets and marks of an earlier release: no reading of a window is above its peak,
\* which is that of a reading of it or of the bucket it begins in; the highest of all time
\* is a reading's own, with its date; and a reading a minute older than the last is marked
\* in the store too, so that a crash loses none of them, unless the store refused a write
\* (mempool.js: recordPeak, compactPeaks, migratePeaksV2, maxOverPeaks, savePeaksIfDue).
THEOREM PeaksHold == Spec => []PeaksAreHonest
<1>1. Init => PeaksSafe
  BY PeaksStart DEF Init, PeaksSafe
<1>2. PeaksSafe => PeaksAreHonest
  BY PeaksAreWindows, PeaksAreExact, PeaksAreSaved DEF PeaksSafe, PeaksAreHonest
<1> QED  BY <1>1, <1>2, PeaksKeeps, PTL DEF Spec

-----------------------------------------------------------------------------
(* What is told of blocks.                                                 *)

GapsSafe == machine = "gaps" => GapInv

LEMMA GapsKeep == GapsSafe /\ [Next]_slots => GapsSafe'
<1> SUFFICES ASSUME GapsSafe, [Next]_slots PROVE GapsSafe'
  OBVIOUS
<1>1. CASE machine = "gaps" /\ Gaps!Next /\ UNCHANGED machine
  BY <1>1, GapNext DEF GapsSafe
<1>2. CASE UNCHANGED slots
  <2>1. UNCHANGED <<machine, v1, v3, v5, v8, v10, v11, v12>>
    BY <1>2 DEF slots
  <2>2. GapInv => GapInv'
    BY <2>1 DEF GapInv
  <2> QED  BY <2>1, <2>2 DEF GapsSafe
<1>3. CASE machine # "gaps" /\ UNCHANGED machine
  BY <1>3 DEF GapsSafe
<1> QED  BY <1>1, <1>2, <1>3 DEF Next, Idle

SlowSafe == machine = "slow" => SlowInv

LEMMA SlowKeeps == SlowSafe /\ [Next]_slots => SlowSafe'
<1> SUFFICES ASSUME SlowSafe, [Next]_slots PROVE SlowSafe'
  OBVIOUS
<1>1. CASE machine = "slow" /\ Slow!Next /\ UNCHANGED machine
  BY <1>1, SlowNext DEF SlowSafe
<1>2. CASE UNCHANGED slots
  <2>1. UNCHANGED <<machine, v1, v2, v3, v5, v6, v8, v10>>
    BY <1>2 DEF slots
  <2>2. SlowInv => SlowInv'
    BY <2>1 DEF SlowInv, SlowChain, SlowLog
  <2> QED  BY <2>1, <2>2 DEF SlowSafe
<1>3. CASE machine # "slow" /\ UNCHANGED machine
  BY <1>3 DEF SlowSafe
<1> QED  BY <1>1, <1>2, <1>3 DEF Next, Idle

ForgeSafe == machine = "blocks" => ForgeInv

LEMMA ForgeKeeps == ForgeSafe /\ [Next]_slots => ForgeSafe'
<1> SUFFICES ASSUME ForgeSafe, [Next]_slots PROVE ForgeSafe'
  OBVIOUS
<1>1. CASE machine = "blocks" /\ Blocks!Next /\ UNCHANGED machine
  BY <1>1, ForgeNext DEF ForgeSafe
<1>2. CASE UNCHANGED slots
  <2>1. UNCHANGED <<machine, v1, v2, v3, v4, v5, v6, v8, v9, v10, v11, v12, v13, v14, v15,
                    v16, v18>>
    BY <1>2 DEF slots
  <2>2. ForgeInv => ForgeInv'
    BY <2>1 DEF ForgeInv, ForgeTyped, ForgeCall, ForgeCount, ForgeTold
  <2> QED  BY <2>1, <2>2 DEF ForgeSafe
<1>3. CASE machine # "blocks" /\ UNCHANGED machine
  BY <1>3 DEF ForgeSafe
<1> QED  BY <1>1, <1>2, <1>3 DEF Next, Idle

\* What is told of blocks is so: no more of ours are called lost than are, at any pace of
\* the queries and of Koios within the grace, for any schedules and changes of the node
\* (live.js, read-model.js: maybeSnapshotEpoch, updateBp); a slow block has the producer of
\* the height beside it, for any log of an earlier release and any forks but at that height,
\* and its own when the node told the height, or db-sync had it when it was matched by time
\* (read-model.js: enrichSlowBlockPools); a gap the loop watched is told as the chain's, and
\* a boundary is noted once (logs.js: detectGaps; read-model.js: capturePropagation).
THEOREM BlocksHold == Spec => []BlocksAreToldTruly
<1>1. Init => GapsSafe /\ SlowSafe /\ ForgeSafe
  BY GapStart, SlowStart, ForgeStart DEF Init, GapsSafe, SlowSafe, ForgeSafe
<1>2. GapsSafe /\ SlowSafe /\ ForgeSafe => BlocksAreToldTruly
  BY GapsAreTheChains, GapsNotedOnce, SlowIsTold, ForgeIsTold
     DEF GapsSafe, SlowSafe, ForgeSafe, BlocksAreToldTruly
<1> QED  BY <1>1, <1>2, GapsKeep, SlowKeeps, ForgeKeeps, PTL DEF Spec
=============================================================================
