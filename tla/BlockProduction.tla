-------------------------- MODULE BlockProduction --------------------------
(* The block card of the dashboard and the live row of the epoch cache: the *)
(* one-second snapshot of src/src/data/live.js starts two background reads, *)
(* the Ideal of the epoch and refreshBlockProduction of read-model.js, and  *)
(* goes on without them.  Both remember what they asked for in variables    *)
(* that live as long as the window does, so what they show depends on what  *)
(* Disconnect resets and on what a second connection finds already there.   *)
(* A schedule is named by the pool and the epoch it is for, an Ideal by its *)
(* pool: the numbers themselves are not modelled.  Nor is the one-time      *)
(* rewrite of rows an older release cached (correctGoIdealRowsOnce).        *)
EXTENDS Integers, FiniteSets

CONSTANTS
  None,       \* null
  Pools,      \* pools the operator's nodes belong to
  EpochLen,   \* ticks of an epoch
  LastTime,   \* the clock stops here
  Grace,      \* LOST_GRACE_MS
  Refresh,    \* PRODUCED_REFRESH_MS
  Lag,        \* the longest a minted block stays unreported by Koios
  QueryTime,  \* the longest a query of a run takes: `timeout` ends the cli's,
              \* --max-time Koios'
  Leads,      \* functions: pool -> times of its leader slots
  Moves,      \* which ways to change the node are taken
  MaxMoves

VARIABLES
  now, leads,
  minted,       \* slots whose block is on chain, as <<pool, time>>
  pool,         \* the connected pool, or None
  bech,         \* _bech32
  ideal,        \* this._ideal: the pool it was computed for, or None
  idealEpoch,   \* this._idealEpoch
  idealCall,    \* the stake-snapshot query that is out, or None
  schedEpoch,   \* _bpScheduleEpoch
  assigned,     \* _bpAssigned: [pool, epoch], or None
  producedAt, produced, loaded,   \* _bpProducedAt, _bpProduced, _bpProducedLoaded
  call,         \* the run of refreshBlockProduction that is waiting (_bpInFlight), or None
  bp,           \* _bp, or None
  rows,         \* the 'live' epoch rows in the cache, by pool and epoch
  moves,        \* how many of Moves have been made
  switched      \* history: one of them was a wizard run over an open session

session == <<pool, moves, switched>>
idealVars == <<ideal, idealEpoch, idealCall>>
bpVars == <<schedEpoch, assigned, producedAt, produced, loaded, call, bp, rows>>
vars == <<now, leads, minted, bech, session, idealVars, bpVars>>

Never == -1
Times == 0 .. LastTime
EpochOf(t) == t \div EpochLen
Epochs == 0 .. EpochOf(LastTime)

Slots(s) == {t \in leads[s.pool] : EpochOf(t) = s.epoch}

Init ==
  /\ now = 0
  /\ leads \in Leads
  /\ minted = {}
  /\ pool \in Pools
  /\ bech = None
  /\ ideal = None /\ idealEpoch = Never /\ idealCall = None
  /\ schedEpoch = Never /\ assigned = None
  /\ producedAt = Never /\ produced = 0 /\ loaded = FALSE
  /\ call = None /\ bp = None
  /\ rows = [p \in Pools |-> [e \in Epochs |-> None]]
  /\ moves = 0 /\ switched = FALSE

(* The chain: at its time a leader slot is minted or it is missed. A query  *)
(* of a run ends in its time.                                               *)
Tick ==
  /\ now < LastTime
  /\ call # None => now - call.since < QueryTime
  /\ now' = now + 1
  /\ \E won \in SUBSET {p \in Pools : now + 1 \in leads[p]} :
        minted' = minted \union (won \X {now + 1})
  /\ UNCHANGED <<leads, bech, session, idealVars, bpVars>>

Minted(p, e) == {t \in Times : <<p, t>> \in minted /\ EpochOf(t) = e}

(* Koios: what is on chain for longer than Lag is there, younger blocks may *)
(* be; a call that fails is answered like one that found nothing.           *)
Reported(p, e) ==
  {0} \union Cardinality({t \in Minted(p, e) : t <= now - Lag}) .. Cardinality(Minted(p, e))

-----------------------------------------------------------------------------
(* What a run does once its answers are in. *)

(* Without the grace period. *)
SettledAtOnce(s) == {t \in Slots(s) : now > t}
Settled(s) == {t \in Slots(s) : now - t > Grace}

LostOf(count, isLoaded, s) ==
  IF s = None \/ ~isLoaded THEN None
  ELSE LET passed == Cardinality(Settled(s)) IN
       IF passed > 0 /\ count = 0 THEN None
       ELSE IF passed > count THEN passed - count ELSE 0

Card(epoch, id, count, isLoaded, s) ==
  [epoch |-> epoch, pool |-> pool, leader |-> s, adopted |-> count, ideal |-> id,
   lost |-> LostOf(count, isLoaded, s)]

(* _bp is set and, when anything was asked, the row is written for the pool *)
(* the session has by then; the run is over.                                *)
Publish(c, count, isLoaded, s, dirty) ==
  LET card == Card(c.epoch, c.ideal, count, isLoaded, s) IN
  /\ bp' = card
  /\ rows' = IF dirty /\ pool # None
             THEN [rows EXCEPT ![pool][c.epoch] = [lost |-> card.lost, ideal |-> c.ideal]]
             ELSE rows
  /\ call' = None

Due == producedAt = Never \/ now - producedAt > Refresh

(* ensurePoolBech32: computed once, from the pool of the session. *)
Bech == IF bech # None THEN bech ELSE pool

(* The part from the produced count on, with the schedule s in hand: ask    *)
(* Koios when the count is due, publish at once when it is not.             *)
CountOrPublish(c, s, dirty) ==
  /\ IF Due
     THEN /\ producedAt' = now
          /\ bech' = Bech
          /\ IF Bech = None
             THEN Publish(c, produced, loaded, s, TRUE)
             ELSE /\ call' = [c EXCEPT !.stage = "count", !.pool = Bech, !.since = now]
                  /\ UNCHANGED <<bp, rows>>
     ELSE Publish(c, produced, loaded, s, dirty) /\ UNCHANGED <<producedAt, bech>>
  /\ UNCHANGED <<produced, loaded>>

-----------------------------------------------------------------------------
(* _maybeRefreshIdeal: once per epoch and never while a query is out. *)
StartIdeal ==
  IF idealCall = None /\ idealEpoch # EpochOf(now)
  THEN idealCall' = [pool |-> pool, epoch |-> EpochOf(now), open |-> TRUE]
       /\ UNCHANGED <<ideal, idealEpoch>>
  ELSE UNCHANGED idealVars

(* A failed query counts as asked until the next epoch. *)
IdealAnswer ==
  /\ idealCall # None
  /\ ideal' \in {None} \union IF idealCall.open THEN {idealCall.pool} ELSE {}
  /\ idealEpoch' = idealCall.epoch
  /\ idealCall' = None
  /\ UNCHANGED <<now, leads, minted, bech, session, bpVars>>

(* refreshBlockProduction(tip.epoch, this._ideal) up to its first await. *)
StartBp ==
  LET c == [stage |-> "schedule", epoch |-> EpochOf(now), ideal |-> ideal, pool |-> pool,
        since |-> now, open |-> TRUE] IN
  IF call # None THEN UNCHANGED <<bech, bpVars>>
  ELSE IF schedEpoch # EpochOf(now)
  THEN /\ schedEpoch' = EpochOf(now)
       /\ call' = c
       /\ UNCHANGED <<bech, assigned, producedAt, produced, loaded, bp, rows>>
  ELSE CountOrPublish(c, assigned, FALSE) /\ UNCHANGED <<schedEpoch, assigned>>

(* getNowSnapshot, after its tip query answered. *)
Snapshot ==
  /\ pool # None
  /\ StartIdeal
  /\ StartBp
  /\ UNCHANGED <<now, leads, minted, session>>

(* leadership-schedule answers with the slots of the node's current epoch,  *)
(* or fails; it fails when the session it ran in was closed.                *)
ScheduleAnswer ==
  /\ call # None /\ call.stage = "schedule"
  /\ \E s \in {None} \union IF call.open THEN {[pool |-> call.pool, epoch |-> EpochOf(now)]} ELSE {} :
        /\ assigned' = s
        /\ CountOrPublish(call, s, TRUE)
  /\ UNCHANGED <<now, leads, minted, session, idealVars, schedEpoch>>

CountAnswer ==
  /\ call # None /\ call.stage = "count"
  /\ \E n \in IF call.open THEN Reported(call.pool, call.epoch) ELSE {0} :
        produced' = n /\ Publish(call, n, TRUE, assigned, TRUE)
  /\ loaded' = TRUE
  /\ UNCHANGED <<now, leads, minted, bech, session, idealVars, schedEpoch, assigned, producedAt>>

-----------------------------------------------------------------------------
(* resetReadModel: _bpProducedLoaded is not in its list, and the fields of  *)
(* the live source are not its own.                                         *)
ResetReadModel ==
  /\ bech' = None
  /\ bp' = None /\ schedEpoch' = Never /\ assigned' = None
  /\ producedAt' = Never /\ produced' = 0
  /\ UNCHANGED <<loaded, rows>>

(* What waits in the closed session fails, and it fails at once: before the *)
(* user is through the next handshake nothing of it is left.                *)
Cut(c) == IF c = None THEN None ELSE [c EXCEPT !.open = FALSE]

Disconnect ==
  /\ "disconnect" \in Moves /\ moves < MaxMoves /\ pool # None
  /\ pool' = None
  /\ ResetReadModel
  /\ call' = Cut(call)
  /\ idealCall' = Cut(idealCall)
  /\ moves' = moves + 1
  /\ UNCHANGED <<now, leads, minted, ideal, idealEpoch, switched>>

(* markConnected and ensureCacheForPool: another pool empties the cache. *)
Connect(p) ==
  /\ pool' = p
  /\ rows' = [q \in Pools |-> IF q = p THEN rows[q] ELSE [e \in Epochs |-> None]]

Reconnect ==
  /\ pool = None /\ call = None /\ idealCall = None
  /\ \E p \in Pools : Connect(p)
  /\ UNCHANGED <<now, leads, minted, bech, moves, switched, idealVars, schedEpoch,
                 assigned, producedAt, produced, loaded, call, bp>>

(* Settings, re-run wizard, connect: a new session without a Disconnect. *)
Rerun ==
  /\ "rerun" \in Moves /\ moves < MaxMoves /\ pool # None
  /\ \E p \in Pools \ {pool} : Connect(p)
  /\ moves' = moves + 1 /\ switched' = TRUE
  /\ UNCHANGED <<now, leads, minted, bech, idealVars, schedEpoch, assigned,
                 producedAt, produced, loaded, call, bp>>

Next == \/ Tick \/ Snapshot \/ IdealAnswer \/ ScheduleAnswer \/ CountAnswer
        \/ Disconnect \/ Reconnect \/ Rerun

Spec == Init /\ [][Next]_vars
-----------------------------------------------------------------------------
TypeOK ==
  /\ pool \in Pools \union {None} /\ bech \in Pools \union {None}
  /\ ideal \in Pools \union {None} /\ idealEpoch \in Epochs \union {Never}
  /\ idealCall \in [pool : Pools, epoch : Epochs, open : BOOLEAN] \union {None}
  /\ schedEpoch \in Epochs \union {Never}
  /\ produced \in 0 .. Cardinality(Times) /\ producedAt \in Times \union {Never}
  /\ loaded \in BOOLEAN
  /\ call = None \/ call.stage \in {"schedule", "count"}

(* The slots of an epoch whose block never came. *)
Missed(p, e) == {t \in leads[p] : EpochOf(t) = e /\ t <= now /\ <<p, t>> \notin minted}

(* Never more is called lost than really is: not while Koios has yet to     *)
(* report a fresh block, not when its answer failed, not across an epoch    *)
(* boundary with the count of the epoch before, and not after a reconnect   *)
(* over a run of the connection before (LOST_GRACE_MS against               *)
(* PRODUCED_REFRESH_MS and the rule for a count of zero). A wizard run over *)
(* an open session resets nothing: what it leaves is not covered.           *)
NeverCriesLost ==
  ~switched =>
  /\ bp # None /\ bp.lost # None /\ bp.pool # None =>
       bp.lost <= Cardinality(Missed(bp.pool, bp.epoch))
  /\ \A p \in Pools, e \in Epochs :
       rows[p][e] # None /\ rows[p][e].lost # None =>
         rows[p][e].lost <= Cardinality(Missed(p, e))

(* The Ideal on the card is that of the pool the window is connected to. *)
IdealIsOfThisPool ==
  bp # None /\ bp.ideal # None /\ pool # None => bp.ideal = pool
=============================================================================
