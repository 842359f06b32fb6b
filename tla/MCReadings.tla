----------------------------- MODULE MCReadings ------------------------------
(* The parts that read, work out and show, in one run: instances of their     *)
(* modules that share the slots below. The initial state says which of them   *)
(* runs, no step changes it, and each is checked for what it promises.        *)
EXTENDS ReadingsBase

\* The slots a machine of n variables leaves alone.
Unused(n) ==
    /\ IF n < 8 THEN v8 = 0 ELSE TRUE
    /\ IF n < 9 THEN v9 = 0 ELSE TRUE
    /\ IF n < 10 THEN v10 = 0 ELSE TRUE
    /\ IF n < 11 THEN v11 = 0 ELSE TRUE
    /\ IF n < 12 THEN v12 = 0 ELSE TRUE
    /\ IF n < 13 THEN v13 = 0 ELSE TRUE
    /\ IF n < 14 THEN v14 = 0 ELSE TRUE
    /\ IF n < 15 THEN v15 = 0 ELSE TRUE
    /\ IF n < 16 THEN v16 = 0 ELSE TRUE
    /\ IF n < 17 THEN v17 = 0 ELSE TRUE
    /\ IF n < 18 THEN v18 = 0 ELSE TRUE
Idle(n) ==
    /\ UNCHANGED machine
    /\ IF n < 8 THEN UNCHANGED v8 ELSE TRUE
    /\ IF n < 9 THEN UNCHANGED v9 ELSE TRUE
    /\ IF n < 10 THEN UNCHANGED v10 ELSE TRUE
    /\ IF n < 11 THEN UNCHANGED v11 ELSE TRUE
    /\ IF n < 12 THEN UNCHANGED v12 ELSE TRUE
    /\ IF n < 13 THEN UNCHANGED v13 ELSE TRUE
    /\ IF n < 14 THEN UNCHANGED v14 ELSE TRUE
    /\ IF n < 15 THEN UNCHANGED v15 ELSE TRUE
    /\ IF n < 16 THEN UNCHANGED v16 ELSE TRUE
    /\ IF n < 17 THEN UNCHANGED v17 ELSE TRUE
    /\ IF n < 18 THEN UNCHANGED v18 ELSE TRUE

\* Three delegators on pages of two, who may leave and join; a few calls a day.
Stops == [free |-> 6, token |-> 9]
Limits == [free |-> 8, token |-> 11]
KoiosWorlds ==
    {[size |-> 3, disturb |-> {"cut", "balance", "page", "probe"}],
     [size |-> 3, disturb |-> {"moves", "cut", "page"}],
     [size |-> 2, disturb |-> {"moves", "balance", "page", "probe", "token"}]}

Snap(pool, amount) == [pool |-> pool, amount |-> amount]
Nowhere == Snap("none", 0)
Chains ==
    {c \in [1..5 -> {Nowhere, Snap("us", 1), Snap("us", 4), Snap("other", 4)}] :
        /\ c[1] = Snap("us", 4) /\ c[2] \in {Snap("us", 1), Nowhere}
        /\ c[3] \in {Snap("us", 1), Snap("other", 4)} /\ c[5] \in {c[4], Nowhere}}

Facts == {[blocks |-> 0, member |-> 0, pledge |-> 0, fees |-> 0],
          [blocks |-> 1, member |-> 4, pledge |-> 2, fees |-> 3]}
Certs == {{[from |-> 1, margin |-> 5]}, {[from |-> 1, margin |-> 5], [from |-> 2, margin |-> 7]}}

Delegator(s, ada, pending) == [stake |-> s, ada |-> ada, pending |-> pending]
X9 == Delegator("x", 9, FALSE)
Y1 == Delegator("y", 1, FALSE)
Y4 == Delegator("y", 4, FALSE)
Y6 == Delegator("y", 6, FALSE)
Z4 == Delegator("z", 4, TRUE)
ListsOf(ours) ==
    [w \in {"p1", "p2", "demo"} |->
       CASE w = "p1" -> ours [] w = "p2" -> {{X9}} [] w = "demo" -> {{Delegator("d", 9, FALSE)}}]
Tenure == [x |-> 1, y |-> 3, z |-> 0, d |-> 2]
Keeps == [x |-> 100, y |-> 25, z |-> 100, d |-> 100]
Place == [x |-> 1, y |-> 2, z |-> 3, d |-> 4]

\* What an earlier release wrote when a block was guessed by its time: of the first
\* block, or of one before it that was scraped late.
FirstBlock == [slot |-> 1, pool |-> "p1"]
EarlierBlock == [slot |-> -1, pool |-> "p2"]
OldRecord(block) ==
    [blockNo |-> 2, htLive |-> FALSE, ts |-> 1, pool |-> "p2", resolved |-> TRUE,
     block |-> block, had |-> FALSE]
OldRecords == {<<>>, <<OldRecord(FirstBlock)>>, <<OldRecord(EarlierBlock)>>}

\* Two slots in the first epoch and one in the second, all of one pool.
SomeLeads == {[p \in ForgePools |-> IF p = "p1" THEN {1, 4, 5} ELSE {}]}

\* More than a day of two-hour halves, from nothing or from older peaks.
SomeOldPeaks == {<<>>, [unit |-> "percent", all |-> 2, at |-> 2, mins |-> (0 :> 1) @@ (1 :> 2)],
             [unit |-> "blocks", all |-> 5, at |-> 0, mins |-> (0 :> 5) @@ (1 :> 3)]}

\* The address of the one host, which may be a peer's as well.
HostAddress == [h \in {"s"} |-> "c"]

\* An account that drops to a quarter, leaves, comes back or goes elsewhere.
Account == INSTANCE AccountHistory WITH
    Pools <- {"us", "other"}, Us <- "us", Amounts <- {1, 4}, FirstEpoch <- 3,
    LastEpoch <- 4, PageLen <- 2, MaxPages <- 4, Chains <- Chains,
    chain <- v1, epoch <- v2, known <- v3, tip <- v4, cached <- v5,
    holed <- v6, bf <- v7, accthist <- v8, shown <- v9

\* Epochs with and without a block, and a margin changed between them.
Rows == INSTANCE EpochRows WITH
    PoolIds <- {"a", "b"}, MaxEpoch <- 2, Facts <- Facts, Certs <- Certs,
    Stakes <- {[p \in {"a", "b"} |-> 3]},
    fact <- v1, certs <- v2, stake <- v3, stage <- v4, pool <- v5,
    timeline <- v6, owner <- v7, sound <- v8, answer <- v9

\* One visit to the delegators, with dust, an unsettled stake and a change of
\* mode or pool under it.
Table == INSTANCE DelegatorsView WITH
    PoolIds <- {"p1", "p2"}, Lists <- ListsOf({{X9, Y1, Z4}, {X9, Y6}}),
    Tenure <- Tenure, Keeps <- Keeps, Place <- Place, PerPage <- 1,
    DustFloor <- 2, HalfWeight <- 10, MaxMounts <- 1, MaxTurns <- 1,
    mode <- v1, pool <- v2, offers <- v3, cache <- v4, loyal <- v5,
    rows <- v6, view <- v7, sort <- v8, page <- v9, hit <- v10, drawn <- v11,
    screen <- v12, mounts <- v13, told <- v14, turns <- v15

\* Two visits whose answers overlap.
Visits == INSTANCE DelegatorsView WITH
    PoolIds <- {"p1", "p2"}, Lists <- ListsOf({{X9, Y4}, {X9, Y6}}),
    Tenure <- Tenure, Keeps <- Keeps, Place <- Place, PerPage <- 1,
    DustFloor <- 2, HalfWeight <- 10, MaxMounts <- 2, MaxTurns <- 0,
    mode <- v1, pool <- v2, offers <- v3, cache <- v4, loyal <- v5,
    rows <- v6, view <- v7, sort <- v8, page <- v9, hit <- v10, drawn <- v11,
    screen <- v12, mounts <- v13, told <- v14, turns <- v15

\* The block strip over failing polls, and with tips that mix.
Pulse == INSTANCE ChainPulse WITH
    None <- None, DemoAhead <- 9, Windows <- {6}, Ecg <- 3, Keep <- 11,
    Tolerance <- 3, Bucket <- 2, PollGap <- 1, MaxTime <- 3,
    Disturb <- {"fail", "reconnect", "demo", "fork"}, MaxDisturb <- 1,
    now <- v1, blocks <- v2, mode <- v3, polling <- v4, asked <- v5,
    seen <- v6, polledAt <- v7, boot <- v8, fresh <- v9, times <- v10,
    window <- v11, mounted <- v12, drawn <- v13, heard <- v14, mixed <- v15,
    left <- v16

\* The block strip left, returned to and shown at another scale.
Strip == INSTANCE ChainPulse WITH
    None <- None, DemoAhead <- 9, Windows <- {2, 6}, Ecg <- 3, Keep <- 11,
    Tolerance <- 3, Bucket <- 2, PollGap <- 1, MaxTime <- 3,
    Disturb <- {"unmount", "window"}, MaxDisturb <- 1,
    now <- v1, blocks <- v2, mode <- v3, polling <- v4, asked <- v5,
    seen <- v6, polledAt <- v7, boot <- v8, fresh <- v9, times <- v10,
    window <- v11, mounted <- v12, drawn <- v13, heard <- v14, mixed <- v15,
    left <- v16

\* Three transactions that spend each other's outputs and a reward.
Moves == INSTANCE AccountMovements WITH
    None <- None, Values <- {1, 2}, RowLimit <- 2, PayDelay <- 1, MaxTxs <- 3,
    MaxRewards <- 1, MaxEpoch <- 1, Disturb <- {"fail"}, MaxDisturb <- 1,
    txs <- v1, credits <- v2, epoch <- v3, held <- v4, purse <- v5,
    shown <- v6, left <- v7

-----------------------------------------------------------------------------
Init ==
    \/ machine = "koios" /\ Koios!Init /\ Unused(12)
    \/ machine = "account" /\ Account!Init /\ Unused(9)
    \/ machine = "rows" /\ Rows!Init /\ Unused(9)
    \/ machine = "table" /\ Table!Init /\ Unused(15)
    \/ machine = "visits" /\ Visits!Init /\ Unused(15)
    \/ machine = "blocks" /\ Blocks!Init /\ Unused(18)
    \/ machine = "gaps" /\ Gaps!Init /\ Unused(13)
    \/ machine = "slow" /\ Slow!Init /\ Unused(10)
    \/ machine = "pulse" /\ Pulse!Init /\ Unused(16)
    \/ machine = "strip" /\ Strip!Init /\ Unused(16)
    \/ machine = "peaks" /\ Peaks!Init /\ Unused(14)
    \/ machine = "wizard" /\ Wizard!Init /\ Unused(14)
    \/ machine = "logs" /\ Logs!Init /\ Unused(15)
    \/ machine = "moves" /\ Moves!Init /\ Unused(7)
    \/ machine = "kes" /\ Kes!Init /\ Unused(11)
    \/ machine = "origins" /\ Origins!Init /\ Unused(13)
    \/ machine = "places" /\ Places!Init /\ Unused(10)

Next ==
    \/ machine = "koios" /\ Koios!Next /\ Idle(12)
    \/ machine = "account" /\ Account!Next /\ Idle(9)
    \/ machine = "rows" /\ Rows!Next /\ Idle(9)
    \/ machine = "table" /\ Table!Next /\ Idle(15)
    \/ machine = "visits" /\ Visits!Next /\ Idle(15)
    \/ machine = "blocks" /\ Blocks!Next /\ Idle(18)
    \/ machine = "gaps" /\ Gaps!Next /\ Idle(13)
    \/ machine = "slow" /\ Slow!Next /\ Idle(10)
    \/ machine = "pulse" /\ Pulse!Next /\ Idle(16)
    \/ machine = "strip" /\ Strip!Next /\ Idle(16)
    \/ machine = "peaks" /\ Peaks!Next /\ Idle(14)
    \/ machine = "wizard" /\ Wizard!Next /\ Idle(14)
    \/ machine = "logs" /\ Logs!Next /\ Idle(15)
    \/ machine = "moves" /\ Moves!Next /\ Idle(7)
    \/ machine = "kes" /\ Kes!Next /\ Idle(11)
    \/ machine = "origins" /\ Origins!Next /\ Idle(13)
    \/ machine = "places" /\ Places!Next /\ Idle(10)

Spec == Init /\ [][Next]_slots

-----------------------------------------------------------------------------
(* Properties.                                                             *)

\* The type invariant of whichever machine runs.
Typed ==
    CASE machine = "koios" -> Koios!TypeOK [] machine = "account" -> Account!TypeOK
      [] machine = "rows" -> Rows!TypeOK [] machine = "table" -> Table!TypeOK
      [] machine = "visits" -> Visits!TypeOK [] machine = "blocks" -> Blocks!TypeOK
      [] machine = "gaps" -> Gaps!TypeOK [] machine = "slow" -> Slow!TypeOK
      [] machine = "pulse" -> Pulse!TypeOK [] machine = "strip" -> Strip!TypeOK
      [] machine = "peaks" -> Peaks!TypeOK [] machine = "wizard" -> Wizard!TypeOK
      [] machine = "logs" -> Logs!TypeOK [] machine = "moves" -> Moves!TypeOK
      [] machine = "kes" -> Kes!TypeOK [] machine = "origins" -> Origins!TypeOK
      [] machine = "places" -> Places!TypeOK

\* What the account queries answer is true of the chain: a delegator list Koios
\* answered with names nobody who was not there, and misses no more of those who
\* stayed than left while it was read, unless a later page went unanswered; the stake
\* shown as active is in force now and the one shown as coming is not, also when the
\* source is an epoch ahead of the application; what is called available can be
\* spent, also when a query failed and a narrower one was asked.
AnswersAreTrue ==
    [][/\ machine = "koios" => Koios!WholeIfDone
       /\ machine = "account" => Account!ActiveIfShown
       /\ machine = "moves" => Moves!RealIfAsked]_slots

\* What is put together from several answers agrees with itself. An account's
\* history has no hole between what was cached and what was fetched since, and its
\* loyalty is that of db-sync's own query; an epoch's row calls its rewards complete
\* when leader's and members' both are, and uses the margin of that epoch; the
\* movements of an account add up to the change of its balance.
HistoryAddsUp ==
    /\ machine = "account" => Account!NothingMissing /\ Account!LoyaltyAgrees
    /\ machine = "rows" => Rows!WholeRewards /\ Rows!MarginOfItsTime
    /\ machine = "moves" => Moves!NetsExplainTheBalance

\* A search in the delegators' table turns to the page the row is on, and what it
\* calls hidden or absent is on none, whatever mounts and redraws came between.
SearchLeadsToTheRow ==
    [][/\ machine = "table" => Table!TruthIfTold
       /\ machine = "visits" => Visits!TruthIfTold]_slots

\* The strip shows no more beats than there were blocks, and the newest block's is
\* there, also once the block log has replaced what the polls noticed.
PulseCounts ==
    /\ machine = "pulse" => Pulse!NoBeatTooMany /\ Pulse!NewestBeats
    /\ machine = "strip" => Strip!NoBeatTooMany /\ Strip!NewestBeats
=============================================================================
