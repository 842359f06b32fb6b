------------------------------ MODULE EpochRows ------------------------------
(***************************************************************************)
(* The pool's epochs as the three sources of history deliver them, in one  *)
(* shape (fetchHistory of dbsync-query.js and koios-history.js, and        *)
(* getPoolHistory of blockfrost-query.js).                                 *)
(*                                                                         *)
(* An epoch earns a member pot, which holds the pledge's share, and fees,  *)
(* which the operator takes.  db-sync has rows of the members' rewards,    *)
(* without the pledge's, and later of the leader's: the fees and the       *)
(* pledge's share.  Koios has fees, all delegated rewards and the          *)
(* members'.  Blockfrost has the pot and the fees, and this code works out *)
(* the pledge's share from the owners' stake.                              *)
(***************************************************************************)
EXTENDS Integers, Sequences, FiniteSets, FiniteSetsExt

CONSTANTS
    PoolIds,       \* pools the operator connects to
    MaxEpoch,      \* the last epoch
    Facts,         \* what an epoch may hold
    Certs,         \* registration certificates a pool may have, as sets
    Stakes         \* active stake of a pool in every epoch, of which its owners have 1

Epochs == 1..MaxEpoch
Null == -1         \* null, and what is missing
Sources == {"dbsync", "koios", "blockfrost"}
Stages == {"none", "members", "all"}
NoAnswer == [source |-> "none", pool |-> "none", rows |-> {}, sound |-> FALSE]

VARIABLES
    fact,          \* [PoolIds -> [Epochs -> ...]]: blocks, members', pledge's and operator's take
    certs,         \* certificates of each pool: [from, margin]
    stake,         \* a pool's active stake
    stage,         \* rewards of an epoch are not there yet, the members' are, or all
    pool,          \* the pool connected to
    timeline,      \* _bfParamTimeline, once it is built
    owner,         \* _bfOwnerStake, once it is built
    sound,         \* history: both were built for this pool by requests that were answered
    answer         \* the rows handed over last

vars == <<fact, certs, stake, stage, pool, timeline, owner, sound, answer>>

Init ==
    /\ fact \in [PoolIds -> [Epochs -> Facts]]
    /\ certs \in [PoolIds -> Certs] /\ stake \in Stakes
    /\ stage = [e \in Epochs |-> "none"]
    /\ pool \in PoolIds
    /\ timeline = [built |-> FALSE, certs |-> {}] /\ owner = [built |-> FALSE, stake |-> 0]
    /\ sound = TRUE
    /\ answer = NoAnswer

Fact(e) == fact[pool][e]
Forged(e) == Fact(e).blocks > 0
Pot(e) == Fact(e).member + Fact(e).pledge

\* The certificate in force.
InForce(all, e) == {c \in all : c.from <= e /\ \A d \in all : d.from <= e => d.from <= c.from}

\* Mutant: a certificate counts from the epoch after.
ParamsAfter(all, e) ==
    LET past == {c \in all : c.from < e}
    IN  IF past = {} THEN Null ELSE (CHOOSE c \in past : \A d \in past : d.from <= c.from).margin

\* paramsAt and paramsAtEpoch: the margin of the last change-point not after e.
ParamsAt(all, e) ==
    IF InForce(all, e) = {} THEN Null ELSE (CHOOSE c \in InForce(all, e) : TRUE).margin

Row(e, members, leader, margin, state) ==
    [epoch |-> e, adopted |-> Fact(e).blocks, members |-> members, leader |-> leader,
     margin |-> margin, state |-> state]

-----------------------------------------------------------------------------
(* The sources.                                                            *)

\* qRewards: what reward has for the pool and the epoch.
QRewards(e) ==
    [member |-> IF Forged(e) /\ stage[e] \in {"members", "all"} THEN Fact(e).member ELSE Null,
     leader |-> IF Forged(e) /\ stage[e] = "all" THEN Fact(e).fees + Fact(e).pledge ELSE Null]

\* Mutant: members' rewards alone make a row complete.
EitherCompletes(e) ==
    LET q == QRewards(e)
    IN  IF Fact(e).blocks = 0 THEN Row(e, 0, 0, ParamsAt(certs[pool], e), "zero")
        ELSE Row(e, q.member, q.leader, ParamsAt(certs[pool], e),
                 IF q.member # Null \/ q.leader # Null THEN "complete" ELSE "pending")

\* fetchHistory of db-sync: rewards are shown when both kinds are there.
DbsyncRow(e) ==
    LET q == QRewards(e)
        margin == ParamsAt(certs[pool], e)
    IN  IF Fact(e).blocks = 0 THEN Row(e, 0, 0, margin, "zero")
        ELSE IF q.member # Null /\ q.leader # Null
             THEN Row(e, q.member, q.leader, margin, "complete")
             ELSE Row(e, Null, Null, margin, "pending")

AskDbsync ==
    /\ answer' = [source |-> "dbsync", pool |-> pool, sound |-> TRUE,
                  rows |-> {DbsyncRow(e) : e \in Epochs}]
    /\ UNCHANGED <<fact, certs, stake, stage, pool, timeline, owner, sound>>

\* pool_history: null rewards until Koios has worked them out.  Koios does not say
\* that rewards are missing: only an epoch without blocks is told apart.
KoiosRow(e) ==
    LET there == stage[e] = "all" /\ Forged(e)
        member == IF there THEN Fact(e).member ELSE Null
        deleg == IF there THEN Fact(e).member + Fact(e).pledge ELSE Null
        fees == IF there THEN Fact(e).fees ELSE Null
        pledge == IF deleg # Null /\ member # Null THEN Max({0, deleg - member}) ELSE 0
    IN  Row(e, member, IF fees = Null THEN Null ELSE fees + pledge,
            ParamsAt(certs[pool], e),
            IF Fact(e).blocks = 0 THEN "zero" ELSE "complete")

\* fetchHistory of Koios: nothing if pool_history is not answered.
AskKoios ==
    /\ \E answered \in BOOLEAN :
        answer' = [source |-> "koios", pool |-> pool, sound |-> TRUE,
                   rows |-> IF answered THEN {KoiosRow(e) : e \in Epochs} ELSE {}]
    /\ UNCHANGED <<fact, certs, stake, stage, pool, timeline, owner, sound>>

\* buildParamTimeline: built once; a request that fails loses its certificates.
BuildTimeline ==
    IF timeline.built THEN UNCHANGED timeline
    ELSE \E found \in SUBSET certs[pool] : timeline' = [built |-> TRUE, certs |-> found]

\* buildOwnerStake: built once; nothing if the pool's owners are not answered.
BuildOwnerStake ==
    IF owner.built THEN UNCHANGED owner
    ELSE \E got \in {0, 1} : owner' = [built |-> TRUE, stake |-> got]

\* Mutant: the pledge's share is taken of the fees as well.
ShareOfAll(e, own) == (own * (Pot(e) + Fact(e).fees)) \div stake[pool]

\* The pledge's share of the member pot, by stake.
PledgeShare(e, own) == (own * Pot(e)) \div stake[pool]

\* The row of getPoolHistory; fees is null until the rewards are there.  Params that no
\* change-point gives are those of today.
BlockfrostRow(e, line, own) ==
    LET there == Forged(e) /\ stage[e] = "all"
        share == IF there THEN PledgeShare(e, own) ELSE 0
        margin == IF ParamsAt(line, e) # Null THEN ParamsAt(line, e) ELSE ParamsAt(certs[pool], MaxEpoch)
    IN  Row(e, IF there THEN Pot(e) - share ELSE IF Forged(e) THEN Null ELSE 0,
            IF there THEN Fact(e).fees + share ELSE IF Forged(e) THEN Null ELSE 0, margin,
            IF Fact(e).blocks = 0 THEN "zero" ELSE "complete")

\* getPoolHistory: pages until one is missing.
AskBlockfrost ==
    /\ BuildTimeline /\ BuildOwnerStake
    /\ sound' = (/\ sound
                 /\ ~timeline.built => timeline'.certs = certs[pool]
                 /\ ~owner.built => owner'.stake = 1)
    /\ \E upto \in 0..MaxEpoch :
        answer' = [source |-> "blockfrost", pool |-> pool, sound |-> sound',
                   rows |-> {BlockfrostRow(e, timeline'.certs, owner'.stake) : e \in 1..upto}]
    /\ UNCHANGED <<fact, certs, stake, stage, pool>>

-----------------------------------------------------------------------------
\* Rewards are worked out, the members' first.
Settle(e) ==
    /\ stage[e] # "all"
    /\ stage' = [stage EXCEPT ![e] = IF @ = "none" THEN "members" ELSE "all"]
    /\ answer' = NoAnswer
    /\ UNCHANGED <<fact, certs, stake, pool, timeline, owner, sound>>

\* Disconnect and connect: resetBlockfrost forgets neither the timeline nor the
\* owners' stake.
Switch ==
    /\ \E p \in PoolIds \ {pool} : pool' = p
    /\ sound' = (sound /\ ~timeline.built /\ ~owner.built)
    /\ answer' = NoAnswer
    /\ UNCHANGED <<fact, certs, stake, stage, timeline, owner>>

Next ==
    \/ AskDbsync \/ AskKoios \/ AskBlockfrost
    \/ \E e \in Epochs : Settle(e)
    \/ Switch

Spec == Init /\ [][Next]_vars

-----------------------------------------------------------------------------
TypeOK ==
    /\ stage \in [Epochs -> Stages]
    /\ answer.source \in Sources \cup {"none"}
    /\ \A r \in answer.rows : r.epoch \in Epochs /\ r.state \in {"zero", "complete", "pending"}

\* Rewards are shown whole or not at all, whichever source answers and whatever it has
\* worked out so far: a source never shows the members' without the leader's, and what
\* it shows is what the epoch earned.
WholeRewards ==
    \A r \in answer.rows :
        /\ (r.members = Null) = (r.leader = Null)
        /\ (r.members # Null /\ (answer.source = "blockfrost" => answer.sound))
            => /\ r.members = (IF Forged(r.epoch) THEN Fact(r.epoch).member ELSE 0)
               /\ r.leader = (IF Forged(r.epoch) THEN Fact(r.epoch).pledge + Fact(r.epoch).fees ELSE 0)

\* An epoch's margin is the one in force in it, not today's, with every source.
MarginOfItsTime ==
    \A r \in answer.rows :
        (InForce(certs[pool], r.epoch) # {} /\ (answer.source = "blockfrost" => answer.sound))
            => r.margin \in {c.margin : c \in InForce(certs[pool], r.epoch)}
=============================================================================
