----------------------------- MODULE StakeMoves -----------------------------
(***************************************************************************)
(* The balance half of the notification poll: which changes of a           *)
(* delegator's live stake refreshNotifications (src/data/read-model.js)    *)
(* reports as stake_up or stake_down.                                      *)
(*                                                                         *)
(* A change is measured against the snapshot the previous poll stored.     *)
(* After an epoch roll a settling window opens, in which the rewards       *)
(* credited at the roll are subtracted, where db-sync knows them, and      *)
(* whatever cannot be told from a reward still landing is held: its        *)
(* baseline stays, to be decided again.  The window, the held accounts and *)
(* the credits live in memory; the snapshot and the last epoch seen are    *)
(* stored.  One poll runs at a time here; overlaps are in DelegationFeed.  *)
(***************************************************************************)
EXTENDS Integers, FiniteSets, FiniteSetsExt

CONSTANTS
    Accounts,     \* the delegators, all of whom stay with the pool
    Threshold,    \* smallest change worth reporting (getNotifThresholdLovelace)
    MassFloor,    \* smallest mass-change limit (15 in the code)
    Credits,      \* sizes of the rewards an epoch roll credits
    MaxEpoch,     \* bound: epochs
    MaxMoves,     \* bound: payments an account makes
    Worlds,       \* the surroundings this instance explores
    MaxDisturb    \* bound: restarts, resets and failing writes

\* What surrounds the application.  credits: db-sync has them at the roll
\* ("ready"), later or never ("late"), or is not used ("none").  landing: a
\* reward shows in the live figure at the "roll", or at "any" later time, in the
\* window or after it.  movers make movements of the given sizes; last is the last
\* epoch the instance reaches.
Disturbances == {"restart", "reset", "storeFail", "unread", "rollInPoll", "missedEpoch"}
World == [credits : {"ready", "late", "none"}, landing : {"roll", "any"},
          movers : SUBSET Accounts, sizes : SUBSET Int, disturb : SUBSET Disturbances,
          last : 1..MaxEpoch]

ASSUME ThresholdAssumption == Threshold \in Nat \ {0}
ASSUME BoundsAssumption == MaxEpoch \in Nat /\ MaxMoves \in Nat /\ MaxDisturb \in Nat
ASSUME WorldsAssumption == Worlds \subseteq World
ASSUME CreditsAssumption == Credits \subseteq Nat /\ MassFloor \in Nat
ASSUME AccountsAssumption == IsFiniteSet(Accounts)

VARIABLES
    world,        \* the surroundings, fixed for a behaviour
    epoch,        \* the chain's epoch
    paid,         \* what each account moved, net, so far
    moves,        \* how many movements it made
    due,          \* credited to it at this epoch's roll, not yet in its figure
    landed,       \* rewards that are in its live figure
    credited,     \* db-sync: credited[e] is what the roll into epoch e credited
    snapshot, markedEpoch,                  \* stored: notif_snapshot, notif_epoch
    settling, held, credits, creditEpoch,   \* in memory (NoEpoch: no credits)
    job,          \* the running poll's step and local variables
    told,         \* history: what the reported changes of each account add up to
    netted,       \* history: what was subtracted from its changes, by epoch
    late,         \* history: accounts a window ended on before they were at rest
    disturbed     \* restarts, resets and failing writes so far

chain == <<world, epoch, paid, moves, due, landed, credited>>
stored == <<snapshot, markedEpoch>>
memory == <<settling, held, credits, creditEpoch>>
history == <<told, netted, late>>
vars == <<chain, stored, memory, job, history, disturbed>>

Epochs == 1..MaxEpoch
NoEpoch == 0
Zero == [s \in Accounts |-> 0]
NoCredits == Zero
Idle == [pc |-> "idle", tip |-> NoEpoch, list |-> Zero, settling |-> FALSE,
         known |-> FALSE, credits |-> NoCredits, holds |-> {}, report |-> Zero]

\* The live stake a source serves, over a base that never changes.
Live(s) == paid[s] + landed[s]

Init ==
    /\ world \in Worlds
    /\ epoch = 1
    /\ paid = Zero /\ moves = Zero /\ due = Zero /\ landed = Zero
    /\ credited = [e \in Epochs |-> Zero]
    /\ snapshot = Zero /\ markedEpoch = 1
    /\ settling = FALSE /\ held = {} /\ credits = NoCredits /\ creditEpoch = NoEpoch
    /\ job = Idle
    /\ told = Zero /\ netted = [e \in Epochs |-> Zero] /\ late = {}
    /\ disturbed = 0

At(step) == job.pc = step

Disturbed(kind) ==
    /\ kind \in world.disturb /\ disturbed < MaxDisturb
    /\ disturbed' = disturbed + 1

\* A write to the cache: the command may fail, which nothing notices.
Stored(write, keep) ==
    \/ write /\ UNCHANGED disturbed
    \/ keep /\ Disturbed("storeFail")

-----------------------------------------------------------------------------
(* The chain.                                                              *)

Pay(s, n) ==
    /\ moves[s] < MaxMoves
    /\ paid' = [paid EXCEPT ![s] = @ + n]
    /\ moves' = [moves EXCEPT ![s] = @ + 1]
    /\ UNCHANGED <<world, epoch, due, landed, credited, stored, memory, job, history, disturbed>>

\* The epoch rolls and every account is credited its reward.  Rolls are five
\* days apart: the previous one has settled, and the application saw it unless
\* the instance lets it miss one.
Roll(reward) ==
    /\ epoch < world.last /\ due = Zero /\ ~settling
    /\ "missedEpoch" \in world.disturb \/ markedEpoch = epoch
    /\ "rollInPoll" \in world.disturb \/ At("idle")
    /\ epoch' = epoch + 1
    /\ credited' = [credited EXCEPT ![epoch + 1] = reward]
    /\ IF world.landing = "roll"
       THEN landed' = [s \in Accounts |-> landed[s] + reward[s]] /\ UNCHANGED due
       ELSE due' = reward /\ UNCHANGED landed
    /\ UNCHANGED <<world, paid, moves, stored, memory, job, history, disturbed>>

\* A reward, or a part of it, reaches the live figure.
Land(s, n) ==
    /\ n <= due[s]
    /\ due' = [due EXCEPT ![s] = @ - n]
    /\ landed' = [landed EXCEPT ![s] = @ + n]
    /\ UNCHANGED <<world, epoch, paid, moves, credited, stored, memory, job, history, disturbed>>

\* A reward of the account is yet to land, or no poll has stored what landed.
Unsettled(s) == due[s] # 0 \/ snapshot[s] # Live(s)

\* Twenty minutes after the roll was noticed, whatever the polls have seen by then.
\* A poll reads the clock when it starts, so the end of the window matters between
\* polls only.
WindowEnds ==
    /\ settling /\ At("idle")
    /\ settling' = FALSE
    /\ late' = late \cup {s \in Accounts : Unsettled(s)}
    /\ UNCHANGED <<chain, stored, held, credits, creditEpoch, job, told, netted, disturbed>>

-----------------------------------------------------------------------------
(* The poll.                                                               *)

\* The epoch is the caller's, the clock is read on entry.
StartPoll ==
    /\ At("idle")
    /\ job' = [Idle EXCEPT !.pc = "list", !.tip = epoch, !.settling = settling]
    /\ UNCHANGED <<chain, stored, memory, history, disturbed>>

\* await registry.get(DELEGATOR_LIST_LIVE)
FetchList ==
    /\ At("list")
    /\ job' = [job EXCEPT !.pc = "mark", !.list = [s \in Accounts |-> Live(s)]]
    /\ UNCHANGED <<chain, stored, memory, history, disturbed>>

\* The stored baseline, or what says that there is one, cannot be read: the list
\* becomes the baseline and nothing is compared.
Rebaseline ==
    /\ At("mark") /\ Disturbed("unread")
    /\ snapshot' = job.list
    /\ job' = Idle
    /\ UNCHANGED <<chain, markedEpoch, memory, history>>

\* The first poll of an epoch stores it and opens the window.
MarkEpoch ==
    /\ At("mark")
    /\ IF job.tip # markedEpoch
       THEN /\ Stored(markedEpoch' = job.tip, UNCHANGED markedEpoch)
            /\ settling' = TRUE /\ held' = {} /\ creditEpoch' = NoEpoch
            /\ job' = [job EXCEPT !.pc = "credits", !.settling = TRUE]
       ELSE /\ job' = [job EXCEPT !.pc = "credits", !.settling = @ /\ settling]
            /\ UNCHANGED <<markedEpoch, settling, held, creditEpoch, disturbed>>
    /\ UNCHANGED <<chain, snapshot, credits, history>>

\* The stored epoch cannot be read: the poll takes its epoch for a new one.
MarkAgain ==
    /\ At("mark") /\ job.tip = markedEpoch /\ Disturbed("unread")
    /\ settling' = TRUE /\ held' = {} /\ creditEpoch' = NoEpoch
    /\ job' = [job EXCEPT !.pc = "credits", !.settling = TRUE]
    /\ UNCHANGED <<chain, stored, credits, history>>

\* db-sync has credits for the epoch.
Known(e) == world.credits # "none" /\ credited[e] # Zero

\* getEpochRewardCredits, at the boundary and until it has answered once.  The poll
\* goes on with the credits it has now, whatever becomes of the module's.
FetchCredits ==
    /\ At("credits")
    /\ LET wanted == (job.settling \/ held # {}) /\ creditEpoch # job.tip
       IN  \/ /\ wanted /\ Known(job.tip)
              /\ credits' = credited[job.tip] /\ creditEpoch' = job.tip
           \/ /\ ~wanted \/ ~Known(job.tip) \/ world.credits = "late"
              /\ UNCHANGED <<credits, creditEpoch>>
    /\ job' = [job EXCEPT !.pc = "compare", !.known = (creditEpoch' = job.tip),
                          !.credits = credits']
    /\ UNCHANGED <<chain, stored, settling, held, history, disturbed>>

AtLeastZero(n) == IF n < 0 THEN 0 ELSE n
Abs(n) == IF n < 0 THEN -n ELSE n

Verdict(action, net, credit) == [action |-> action, net |-> net, credit |-> credit]

\* A rise below the credit: the reward is still landing.
PartLanded(delta, credit) == 0 < delta /\ delta < credit

\* Past the window every hold resolves.
Settle(delta, credit) ==
    LET net == IF credit > 0 /\ delta > 0 THEN AtLeastZero(delta - credit) ELSE delta
    IN  Verdict(IF Abs(net) >= Threshold THEN "emit" ELSE "absorb", net, credit)

\* Mutant: an account is held for as long as its rise is below the credit.
ClassifyForever(delta, credit, haveCredits, pending, settles) ==
    IF pending /\ ~haveCredits THEN Verdict("skip", 0, 0)
    ELSE IF PartLanded(delta, credit) \/ (delta < 0 /\ pending)
         THEN Verdict("hold", 0, credit)
    ELSE Settle(delta, credit)

\* Mutant: a change without reward data is judged like any other.
ClassifyNoPause(delta, credit, haveCredits, pending, settles) ==
    IF settles /\ (PartLanded(delta, credit) \/ delta < 0)
    THEN Verdict("hold", 0, credit)
    ELSE Settle(delta, credit)

\* classifyStakeMove
Classify(delta, credit, haveCredits, pending, settles) ==
    IF pending /\ ~haveCredits THEN Verdict("skip", 0, 0)
    ELSE IF settles /\ (PartLanded(delta, credit) \/ delta < 0)
         THEN Verdict("hold", 0, credit)
    ELSE Settle(delta, credit)

\* Mutants: the credit is kept; only the change is taken off it.
SpentNever(s, verdict) == credits[s]
SpentPartly(s, verdict) ==
    IF verdict.action \in {"absorb", "emit"} THEN credits[s] - job.list[s] ELSE credits[s]

\* What is left of an account's credit: an absorbed or reported change spends it.
Spent(s, verdict) ==
    IF verdict.action \in {"absorb", "emit"} /\ verdict.credit > 0 THEN 0 ELSE credits[s]

\* The mass-change circuit breaker.
MassLimit == Max({MassFloor, (Cardinality(Accounts) + 4) \div 5})

\* Every account's change is classified.  The credits that are spent are the
\* module's, unless a reset has dropped them.
Compare ==
    /\ At("compare")
    /\ LET delta(s) == job.list[s] - snapshot[s]
           verdict == [s \in Accounts |->
               LET pending == job.settling \/ s \in held
               IN  Classify(delta(s), IF job.known /\ pending THEN job.credits[s] ELSE 0,
                            job.known, pending, job.settling)]
           emits == {s \in Accounts : verdict[s].action = "emit"}
           quiet == Cardinality(emits) > MassLimit
       IN  /\ job' = [job EXCEPT !.pc = "announce", !.known = FALSE, !.credits = NoCredits,
                         !.holds = {s \in Accounts : verdict[s].action = "hold"},
                         !.report = [s \in Accounts |->
                             IF s \in emits /\ ~quiet THEN verdict[s].net ELSE 0]]
           /\ credits' = [s \in Accounts |-> IF creditEpoch = job.tip THEN Spent(s, verdict[s])
                                             ELSE credits[s]]
           /\ netted' = [netted EXCEPT ![job.tip] = [s \in Accounts |->
                 IF verdict[s].action \in {"absorb", "emit"} THEN @[s] + verdict[s].credit
                 ELSE @[s]]]
    /\ UNCHANGED <<chain, stored, settling, held, creditEpoch, told, late, disturbed>>

\* The events are stored and announced.
Announce ==
    /\ At("announce")
    /\ told' = [s \in Accounts |-> told[s] + job.report[s]]
    /\ job' = [job EXCEPT !.pc = "store"]
    /\ UNCHANGED <<chain, stored, memory, netted, late, disturbed>>

Baseline(s) == IF s \in job.holds THEN snapshot[s] ELSE job.list[s]

\* cachePutNotifSnapshot ends the poll; held accounts keep their baseline.
StoreSnapshot ==
    /\ At("store")
    /\ held' = job.holds
    /\ Stored(snapshot' = [s \in Accounts |-> Baseline(s)], UNCHANGED snapshot)
    /\ job' = Idle
    /\ UNCHANGED <<chain, markedEpoch, settling, credits, creditEpoch, history>>

Poll == StartPoll \/ FetchList \/ Rebaseline \/ MarkEpoch \/ MarkAgain \/ FetchCredits
        \/ Compare \/ Announce \/ StoreSnapshot

-----------------------------------------------------------------------------
(* Restarts and reconnects.                                                *)

Forget ==
    /\ settling' = FALSE /\ held' = {} /\ credits' = NoCredits /\ creditEpoch' = NoEpoch

\* The application dies: a running poll with it.
Restart ==
    /\ Disturbed("restart") /\ (settling \/ ~At("idle"))
    /\ Forget /\ job' = Idle
    /\ UNCHANGED <<chain, stored, history>>

\* resetReadModel, on a reconnect: a running poll goes on.
Reset ==
    /\ Disturbed("reset") /\ settling
    /\ Forget
    /\ UNCHANGED <<chain, stored, job, history>>

Next ==
    \/ \E s \in world.movers : \E n \in world.sizes : Pay(s, n)
    \/ \E reward \in [Accounts -> Credits] : Roll(reward)
    \/ \E s \in Accounts : \E n \in 1..due[s] : Land(s, n)
    \/ WindowEnds
    \/ Poll
    \/ Restart \/ Reset

Spec == Init /\ [][Next]_vars

\* Polls are started on a timer and their awaits return; twenty minutes pass;
\* every reward lands in the end.
Fairness ==
    /\ WF_vars(Poll)
    /\ SF_vars(WindowEnds)
    /\ \A s \in Accounts : WF_vars(\E n \in 1..due[s] : Land(s, n))

FairSpec == Spec /\ Fairness

-----------------------------------------------------------------------------
(* Properties.                                                             *)

Amounts == Int
Amount == [Accounts -> Amounts]

\* Types of the state.
TypeOK ==
    /\ world \in Worlds
    /\ epoch \in Epochs /\ markedEpoch \in Epochs
    /\ paid \in Amount /\ moves \in [Accounts -> 0..MaxMoves]
    /\ due \in [Accounts -> Nat] /\ landed \in [Accounts -> Nat]
    /\ credited \in [Epochs -> [Accounts -> Nat]]
    /\ snapshot \in Amount /\ settling \in BOOLEAN /\ held \subseteq Accounts
    /\ credits \in [Accounts -> Nat] /\ creditEpoch \in Epochs \cup {NoEpoch}
    /\ job \in [pc : {"idle", "list", "mark", "credits", "compare", "announce", "store"},
                tip : Epochs \cup {NoEpoch}, list : Amount, settling : BOOLEAN,
                known : BOOLEAN, credits : [Accounts -> Nat], holds : SUBSET Accounts, report : Amount]
    /\ disturbed \in 0..MaxDisturb
    /\ told \in Amount /\ netted \in [Epochs -> [Accounts -> Nat]] /\ late \subseteq Accounts

\* No poll runs, nothing is held, and the account's baseline is its live figure.
AtRest(s) == At("idle") /\ s \notin held /\ due[s] = 0 /\ snapshot[s] = Live(s)

\* "The reward bump nets to nothing while a genuine payment landing in the same
\* window still fires" (README, NOTIFICATIONS): at rest, the changes reported
\* for an account add up to what it moved, rewards excluded.
ReportsAddUp == \A s \in Accounts : AtRest(s) => told[s] = paid[s]

\* db-sync credits somebody at every roll and a reward shows as it is credited;
\* accounts only receive, each time an amount worth reporting, and so few that the
\* mass-change breaker stays out of it; nothing is disturbed.
Prompt ==
    /\ world.credits = "ready" /\ world.landing = "roll" /\ world.disturb = {}
    /\ \A n \in world.sizes : n >= Threshold
    /\ Cardinality(world.movers) <= MassLimit
    /\ \A e \in 2..epoch : credited[e] # Zero

\* In those surroundings they do.
PromptReportsAddUp == Prompt => ReportsAddUp

\* A credit is "spent" by the change that absorbs it: "netting the same credit
\* again on a later poll would hide the next real movement" (read-model.js).
\* Only a reset during a poll, or a failure to store or to read the epoch, undoes
\* that.
CreditNettedOnce ==
    world.disturb \cap {"reset", "storeFail", "unread"} = {} =>
        \A e \in Epochs, s \in Accounts : netted[e][s] <= credited[e][s]

\* Without reward data the window is a blanket pause, and rewards land at any time.
Paused == world.credits = "none" /\ world.landing = "any" /\ world.disturb = {}

\* The window may be lost to a restart, but every roll credits more accounts than
\* the mass-change breaker lets pass, and none pays out what would bring it under
\* the threshold.
Breaks ==
    /\ world.credits = "none" /\ world.landing = "roll" /\ world.disturb = {"restart"}
    /\ world.sizes \subseteq Nat
    /\ \A e \in 2..epoch :
          Cardinality({s \in Accounts : credited[e][s] >= Threshold}) > MassLimit

\* Nothing is ever reported of an account that moved nothing: by the pause, if each
\* window ended with the account's reward landed and stored by a poll; by the
\* breaker, unconditionally.
RewardsNeverReported ==
    \A s \in Accounts :
        moves[s] = 0 /\ (Breaks \/ (Paused /\ s \notin late)) => told[s] = 0

\* "The whole stake distribution moving at an epoch boundary [is] detected and
\* absorbed silently, so only genuine per-delegator activity surfaces", and with
\* db-sync "precisely [...] so the reward bump nets to nothing" (README,
\* NOTIFICATIONS): without a word on when the polls come, or the rewards.
BoundaryAbsorbed ==
    world.disturb = {} => \A s \in Accounts : moves[s] = 0 => told[s] = 0

\* "PAST the window every hold must resolve, or an account whose live stake never
\* rises by the full credit would be held for ever" (classifyStakeMove).
HoldsResolve == \A s \in Accounts : s \in held ~> s \notin held

-----------------------------------------------------------------------------
(* Small instances for TLC.                                                *)

Around(known, landing, sizes, disturb, last) ==
    [credits |-> known, landing |-> landing, movers |-> {"a"}, sizes |-> sizes,
     disturb |-> disturb, last |-> last]

\* One world for each of the properties, and some that mix the disturbances.
SomeWorlds ==
    {Around("ready", "roll", {1, 2}, {}, 2),
     Around("ready", "roll", {1}, {}, 3),
     Around("none", "any", {1}, {}, 2),
     Around("none", "roll", {1}, {"restart"}, 2),
     Around("late", "any", {-1, 2}, {"rollInPoll"}, 2),
     Around("ready", "any", {}, {"missedEpoch"}, 3),
     Around("ready", "roll", {}, {"storeFail", "reset"}, 2),
     Around("ready", "roll", {}, {"unread"}, 2)}
=============================================================================
