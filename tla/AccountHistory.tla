---------------------------- MODULE AccountHistory ----------------------------
(***************************************************************************)
(* One delegator's past, as the three sources tell it: the pools it was    *)
(* with and its active stake by epoch (DELEGATOR_DETAIL and                *)
(* DELEGATOR_STAKE_HISTORY), and its loyalty (DELEGATOR_LOYALTY).  db-sync *)
(* and Koios are asked each time, Blockfrost keeps in the local cache what *)
(* it has fetched (dbsync-query.js, koios-query.js, blockfrost-query.js).  *)
(*                                                                         *)
(* A snapshot of the stake is fixed one epoch before it becomes active, so *)
(* in epoch N a source has rows up to N + 1 or, early in N, up to N.       *)
(***************************************************************************)
EXTENDS Integers, Sequences, SequencesExt, FiniteSets, FiniteSetsExt

CONSTANTS
    Pools, Us,     \* pools, ours among them
    Amounts,       \* what an account may have staked
    FirstEpoch,    \* the epoch an execution begins in
    LastEpoch,     \* bound: the last epoch
    PageLen,       \* rows in a page of /accounts/../history
    MaxPages,      \* pages asked for at most
    Chains         \* the pasts an execution may have

Gone == [pool |-> "none", amount |-> 0]
Snapshots == {Gone} \cup [pool : Pools, amount : Amounts]
Epochs == 1..(LastEpoch + 1)
NoRow == [epoch |-> 0, pool |-> "none", amount |-> 0]
Closed == [source |-> "none"]
Idle == [pc |-> "idle", tip |-> 0, page |-> 1, stop |-> 0, read |-> {}, rows |-> {},
         lost |-> FALSE, blind |-> FALSE, had |-> 0]

VARIABLES
    chain,         \* the account's snapshots, by the epoch they are active in
    epoch,         \* the chain's epoch
    known,         \* the newest epoch whose snapshots the sources have
    tip,           \* the epoch the application has in its cache
    cached,        \* epochs in delegator_stake (cache_get_delegator_stake)
    holed,         \* history: a fetch that was cut short is among them
    bf,            \* Blockfrost's fetch under way
    accthist,      \* epochs kept under accthist:{stake}
    shown          \* what was shown last

vars == <<chain, epoch, known, tip, cached, holed, bf, accthist, shown>>

Init ==
    /\ chain \in Chains
    /\ epoch = FirstEpoch /\ known = FirstEpoch /\ tip = FirstEpoch
    /\ cached = {} /\ holed = FALSE /\ bf = Idle /\ accthist = {}
    /\ shown = Closed

-----------------------------------------------------------------------------
(* What the sources compute.                                               *)

\* The rows of some epochs, oldest first.
RowsOf(epochs) ==
    SetToSortSeq({[epoch |-> e, pool |-> chain[e].pool, amount |-> chain[e].amount]
                    : e \in {f \in epochs : chain[f] # Gone}},
                 LAMBDA x, y : x.epoch < y.epoch)

FirstOr(rows) == IF rows = <<>> THEN NoRow ELSE Head(rows)
LastOr(rows) == IF rows = <<>> THEN NoRow ELSE Last(rows)

\* Mutant: the newest row is taken for the active one.
NewestWins(rows, t) == [current |-> LastOr(rows), next |-> NoRow]

\* splitAtTip: a row more than one epoch ahead shows that the tip is behind.
SplitAtTip(rows, t) ==
    LET at == Max({t, LastOr(rows).epoch - 1})
    IN  [current |-> LastOr(SelectSeq(rows, LAMBDA r : r.epoch <= at)),
         next    |-> FirstOr(SelectSeq(rows, LAMBDA r : r.epoch > at))]

\* Stretches with one pool: [pool, entry, exit, with the stake at both].
AddToRuns(runs, r) ==
    IF LastOr(runs).pool = r.pool
    THEN [runs EXCEPT ![Len(runs)].exit = r.epoch, ![Len(runs)].exitStake = r.amount]
    ELSE Append(runs, [pool |-> r.pool, entry |-> r.epoch, entryStake |-> r.amount,
                       exit |-> r.epoch, exitStake |-> r.amount])

Runs(rows) == FoldLeft(AddToRuns, <<>>, rows)

\* The pool before the first stretch with us.
CameFrom(runs) ==
    LET ours == {i \in DOMAIN runs : runs[i].pool = Us}
    IN  IF ours = {} \/ Min(ours) = 1 THEN "none" ELSE runs[Min(ours) - 1].pool

\* getAccountsPriorPool: the newest pool that is not ours.
PriorPool(rows) == LastOr(SelectSeq(rows, LAMBDA r : r.pool # Us)).pool

\* getDelegatorStakeHistory of db-sync and Koios: the change from row to row, none
\* for the first.
Series(rows) ==
    [i \in DOMAIN rows |-> [epoch |-> rows[i].epoch, stake |-> rows[i].amount,
                            delta |-> IF i = 1 THEN 0 ELSE rows[i].amount - rows[i-1].amount]]

\* The last run is marked as lasting: by db-sync and Koios whatever became of the
\* account, by Blockfrost if the account's active pool is that run's.
Marked(s, runs) ==
    IF s = "blockfrost" THEN LastOr(runs).pool = chain[epoch].pool ELSE runs # <<>>

\* getDelegatorDetail of db-sync and Koios.
Detail(s, rows, t) ==
    LET runs == Runs(rows)
        split == SplitAtTip(rows, t)
    IN  [source |-> s, rows |-> rows, at |-> epoch, had |-> known, tip |-> t,
         current |-> split.current, next |-> split.next,
         runs |-> runs, cameFrom |-> CameFrom(runs), lasts |-> Marked(s, runs),
         series |-> Series(rows)]

-----------------------------------------------------------------------------
(* Loyalty.                                                                *)

Ours(epochs) == {e \in epochs : chain[e].pool = Us}

\* Less than half of what was there before.
BigDrop(e, before) == 2 * chain[e].amount < chain[before].amount

\* The first of the drops after which half of what was lost shows up at another pool.
Defection(drops) ==
    LET at(d) == {e \in {d.to, d.to + 1} \cap 1..known :
                    /\ chain[e] # Gone /\ chain[e].pool # Us
                    /\ 2 * chain[e].amount >= chain[d.from].amount - chain[d.to].amount}
        found == {d \in drops : at(d) # {}}
    IN  IF found = {} THEN 0 ELSE Min({d.to : d \in found})

\* The current run: the rows with us without a gap up to some epoch, and after it.
RunAround(ours, e) ==
    {f \in ours : \A g \in Min({e, f})..Max({e, f}) : g \in ours}

Loyalty(ours, e, drops) ==
    LET run == RunAround(ours, e)
    IN  [tenure |-> Cardinality(run), since |-> Min(run), stake |-> chain[e].amount,
         drops |-> drops, defected |-> Defection(drops)]

NoLoyalty == [tenure |-> 0, since |-> 0, stake |-> 0, drops |-> {}, defected |-> 0]

\* getLoyalty of db-sync, for accounts with us in the newest complete snapshot: LAG
\* compares each row with the row before it, gap or not.
DbsyncLoyalty ==
    LET ours == Ours(1..known)
        before(e) == {f \in ours : f < e}
    IN  IF known \notin ours THEN NoLoyalty
        ELSE Loyalty(ours, known, {[from |-> Max(before(e)), to |-> e] :
                e \in {f \in ours : before(f) # {} /\ BigDrop(f, Max(before(f)))}})

\* computeLoyaltyForAccount of Blockfrost: from the last row with us, and drops
\* from one epoch to the next only.
BlockfrostLoyalty(epochs) ==
    LET ours == Ours(epochs)
    IN  IF ours = {} THEN NoLoyalty
        ELSE Loyalty(ours, Max(ours), {[from |-> e - 1, to |-> e] :
                e \in {f \in ours : f - 1 \in ours /\ BigDrop(f, f - 1)}})

-----------------------------------------------------------------------------
(* The operator looks.                                                     *)

\* db-sync and Koios have every row each time.
OpenDetail ==
    /\ shown = Closed /\ bf.pc = "idle"
    /\ shown' = Detail("asked", RowsOf(1..known), tip)
    /\ UNCHANGED <<chain, epoch, known, tip, cached, holed, bf, accthist>>

NeedFetch == cached = {} \/ Max(cached) <= tip

\* getDelegatorStakeHistory of Blockfrost reads the cache, and then its last epoch, and
\* asks for what is newer than all but that.  Either read may fail, to nothing; when only
\* the rows are not read, those that are not asked for again are missing.
OpenCached ==
    /\ shown = Closed /\ bf.pc = "idle"
    /\ \E rowsRead, lastRead \in BOOLEAN :
        LET last == IF lastRead /\ cached # {} THEN Max(cached) ELSE 0 IN
        bf' = [Idle EXCEPT !.pc = IF last = 0 \/ NeedFetch THEN "page" ELSE "end",
                           !.tip = tip, !.had = known, !.stop = Max({0, last - 1}),
                           !.read = IF rowsRead THEN cached ELSE {},
                           !.blind = ~rowsRead /\ lastRead]
    /\ UNCHANGED <<chain, epoch, known, tip, cached, holed, accthist, shown>>

\* The page's epochs: newest first.
Page ==
    LET all == Reverse(RowsOf(1..known))
        from == (bf.page - 1) * PageLen
    IN  {all[i].epoch : i \in (from + 1)..Min({from + PageLen, Len(all)})}

\* A page goes unanswered like an empty one, which ends the fetch.
FetchPage ==
    /\ bf.pc = "page"
    /\ \E answered \in BOOLEAN :
        LET page == IF answered THEN Page ELSE {}
            more == Cardinality(page) = PageLen /\ (\A e \in page : e > bf.stop)
                    /\ bf.page < MaxPages
        IN  bf' = [bf EXCEPT !.rows = @ \cup {e \in page : e > bf.stop},
                             !.lost = ~answered, !.page = @ + 1,
                             !.pc = IF more THEN "page" ELSE "end"]
    /\ UNCHANGED <<chain, epoch, known, tip, cached, holed, accthist, shown>>

\* getStakeHistoryDetail: cached and fetched rows in one.
StakeHistoryDetail(rows) ==
    [Detail("blockfrost", rows, bf.tip)
        EXCEPT !.source = IF bf.lost THEN "lost" ELSE IF bf.blind THEN "unread" ELSE @,
               !.had = bf.had]

\* What was fetched is kept, whole or not, if the write does not fail, and shown with what
\* was read.
EndFetch ==
    /\ bf.pc = "end"
    /\ \E stored \in BOOLEAN :
         /\ cached' = IF stored THEN cached \cup bf.rows ELSE cached
         /\ holed' = (holed \/ (stored /\ bf.lost /\ bf.rows # {}))
    /\ shown' = StakeHistoryDetail(RowsOf(bf.read \cup bf.rows))
    /\ bf' = Idle
    /\ UNCHANGED <<chain, epoch, known, tip, accthist>>

\* getAccountHistoryAll: once it is there it is never asked for again.
KeepHistory == accthist' = IF accthist = {} THEN {e \in 1..known : chain[e] # Gone} ELSE accthist

\* getDelegatorLoyalty.
OpenLoyalty ==
    /\ shown = Closed /\ bf.pc = "idle"
    /\ KeepHistory
    /\ shown' = [source |-> "loyalty", fresh |-> accthist = {}, at |-> known,
                 bf |-> BlockfrostLoyalty(accthist'), dbsync |-> DbsyncLoyalty]
    /\ UNCHANGED <<chain, epoch, known, tip, cached, holed, bf>>

Close ==
    /\ shown # Closed /\ shown' = Closed
    /\ UNCHANGED <<chain, epoch, known, tip, cached, holed, bf, accthist>>

-----------------------------------------------------------------------------
(* The chain.  db-sync, Koios and Blockfrost take the next snapshot when it *)
(* is done; the application sees a new epoch one refresh later.            *)

EpochTurns ==
    /\ shown = Closed /\ epoch < LastEpoch /\ tip = epoch /\ known = epoch + 1
    /\ epoch' = epoch + 1
    /\ UNCHANGED <<chain, known, tip, cached, holed, bf, accthist, shown>>

SnapshotDone ==
    /\ shown = Closed /\ known = epoch /\ known' = epoch + 1
    /\ UNCHANGED <<chain, epoch, tip, cached, holed, bf, accthist, shown>>

TipCatchesUp ==
    /\ shown = Closed /\ tip < epoch /\ tip' = epoch
    /\ UNCHANGED <<chain, epoch, known, cached, holed, bf, accthist, shown>>

Next ==
    \/ OpenDetail \/ OpenCached \/ FetchPage \/ EndFetch \/ OpenLoyalty \/ Close
    \/ EpochTurns \/ SnapshotDone \/ TipCatchesUp

Spec == Init /\ [][Next]_vars

-----------------------------------------------------------------------------
TypeOK ==
    /\ chain \in [Epochs -> Snapshots]
    /\ epoch \in Epochs /\ known \in {epoch, epoch + 1} /\ tip \in {epoch - 1, epoch}
    /\ cached \subseteq 1..known /\ accthist \subseteq 1..known
    /\ bf.rows \subseteq 1..known /\ bf.read \subseteq cached

\* The stake shown as active is that of the newest snapshot not in the future, and
\* the one shown as coming is in the future, although the application's epoch may be
\* one behind: "a row further ahead means the tip is stale".  Where it is behind and
\* the account has no snapshot of the next epoch yet, nothing can tell.
ActiveIfShown ==
    shown' # shown /\ shown'.source \in {"asked", "blockfrost"} /\ ~holed'
        /\ (shown'.tip = shown'.at \/ LastOr(shown'.rows).epoch = shown'.at + 1)
        => /\ shown'.current = LastOr(RowsOf(1..shown'.at))
           /\ shown'.next.epoch # 0 => shown'.next.epoch > shown'.at
ActiveIsActive == [][ActiveIfShown]_vars

\* What Blockfrost shows from its cache is what the chain had when it was asked, next
\* epoch's snapshot included: nothing is missing between what was fetched at
\* different times, also when a write failed, unless a fetch was cut short, whose gap
\* stays for good, or only the last epoch of the cache could be read.  While the
\* application does not know of a new epoch the newest snapshot may be missing.
NothingMissing ==
    (shown.source = "blockfrost" /\ ~holed)
        => \A e \in 1..Min({shown.tip + 1, shown.had}) : chain[e] # Gone => \E i \in DOMAIN shown.rows : shown.rows[i].epoch = e

\* "Full parity with db-sync": for an account whose time with us has no gap, whose
\* history is fetched anew, both compute the same loyalty.
LoyaltyAgrees ==
    (shown.source = "loyalty" /\ shown.fresh /\ shown.dbsync # NoLoyalty
        /\ Ours(1..shown.at) = Min(Ours(1..shown.at))..shown.at)
        => shown.bf = shown.dbsync

\* The same of every look at an account whose time with us has no gap.
LoyaltyParity ==
    (shown.source = "loyalty" /\ shown.dbsync # NoLoyalty
        /\ Ours(1..shown.at) = Min(Ours(1..shown.at))..shown.at)
        => shown.bf = shown.dbsync
=============================================================================
