------------------------------ MODULE MoveOrigins ------------------------------
(* How a join or a leave is told when no certificate tells it: where the     *)
(* account came from and where it went (classifyLeavers, resolveTickers and  *)
(* the two classifications in refreshNotifications of                        *)
(* src/src/data/read-model.js, with the lookups of koios-query.js and        *)
(* blockfrost-query.js).                                                     *)
(*                                                                           *)
(* DelegationFeed has the poll itself. Every account of a poll is looked up  *)
(* and told by itself: this module follows one. It moves while the lookups   *)
(* are under way, and epochs turn.                                           *)
EXTENDS Integers, Sequences, Functions

CONSTANTS
    None,        \* null: no pool, no ticker
    Us,          \* our pool
    Others,      \* the other pools, each with a ticker
    Sources,     \* the live sources the operator may have chosen
    Memory,      \* events the memory of who left looks through (1000)
    MaxMoves,    \* bound: delegations the account makes
    MaxEpochs,   \* bound: epochs that end
    Disturb,     \* bound: what may happen, out of "fail", "clear"
    MaxDisturb   \* bound: how often

VARIABLES
    source,    \* getNotifSource()
    pool,      \* where the account delegates; None: its key is not registered
    cert,      \* the pool its last certificate names
    active,    \* the pools its stake was active in, by epoch
    listed,    \* the live list has it
    known,     \* the snapshot has it
    feed,      \* the events stored about it, oldest first
    tickers,   \* _tickerCache: "unseen", "null" or "named" for each pool
    poll,      \* the poll under way
    during,    \* history: where it delegated since the poll began
    moves, epochs, left

account == <<pool, cert, active>>
vars == <<source, account, listed, known, feed, tickers, poll, during, moves, epochs, left>>

Pools == Others \cup {Us}
Idle == [step |-> "idle"]

Init ==
    /\ source \in Sources
    /\ pool \in Pools \cup {None} /\ cert = pool
    /\ active = IF pool = None THEN <<>> ELSE <<pool>>
    /\ listed = (pool = Us) /\ known = (pool = Us)
    /\ feed = <<>> /\ tickers = [p \in Others |-> "unseen"]
    /\ poll = Idle /\ during = {}
    /\ moves = 0 /\ epochs = 0 /\ left = MaxDisturb

Disturbed(kind) == kind \in Disturb /\ left > 0 /\ left' = left - 1

------------------------------------------------------------------------------
(* The account.                                                              *)

Move(p) ==
    /\ moves < MaxMoves /\ moves' = moves + 1
    /\ p # pool /\ pool' = p
    /\ cert' = IF p = None THEN cert ELSE p
    /\ during' = IF poll = Idle THEN {} ELSE during \cup {p}
    /\ UNCHANGED <<source, active, listed, known, feed, tickers, poll, epochs, left>>

\* Only what it delegates to when an epoch ends becomes part of its history.
EpochEnds ==
    /\ epochs < MaxEpochs /\ epochs' = epochs + 1
    /\ active' = IF pool = None THEN active ELSE Append(active, pool)
    /\ UNCHANGED <<source, pool, cert, listed, known, feed, tickers, poll, during, moves, left>>

ListCatchesUp ==
    /\ listed # (pool = Us) /\ listed' = (pool = Us)
    /\ UNCHANGED <<source, account, known, feed, tickers, poll, during, moves, epochs, left>>

------------------------------------------------------------------------------
(* The lookups. An answer that does not come has no entry for the account.   *)

NoEntry == "no entry"
Answered == UNCHANGED left
Failed == Disturbed("fail")

\* getAccountsPriorPool, of Koios whatever the source: the pool of the newest epoch
\* that is not ours.
NewestElsewhere(i) ==
    active[i] # Us /\ \A j \in i + 1..Len(active) : active[j] = Us
PriorPool ==
    IF \E i \in DOMAIN active : NewestElsewhere(i)
    THEN active[CHOOSE i \in DOMAIN active : NewestElsewhere(i)] ELSE None

\* Mutant: a failed lookup says that it delegates to nobody.
KoiosPoolOrNone(answered) == IF answered THEN pool ELSE None

\* Koios' account_info: a lookup that fails has no entry.
KoiosPool(answered) == IF answered THEN pool ELSE NoEntry

\* Blockfrost: the pool of the last certificate, else of the account; a request that
\* fails is a null like any other, so a failed lookup says nobody.
BlockfrostPool(answered) == IF ~answered THEN None ELSE IF cert # None THEN cert ELSE pool

DelegatedPool(answered) ==
    IF source = "koios" THEN KoiosPool(answered) ELSE BlockfrostPool(answered)

\* classifyLeavers.
Destination(found) ==
    CASE found = NoEntry -> "unknown" [] found = Us -> "ours" [] OTHER -> found

\* The pool it was last told to have left for, if it was; the pool may be unknown.
LeaveTypes == {"leave", "leave_redelegated", "leave_to_wallet"}
Recent == IF Len(feed) > Memory THEN SubSeq(feed, Len(feed) - Memory + 1, Len(feed)) ELSE feed
LeftBefore == \E i \in DOMAIN Recent : Recent[i].type \in LeaveTypes

------------------------------------------------------------------------------
(* The poll.                                                                 *)

Event(type, other) == [type |-> type, pool |-> other, ticker |-> "unseen"]

\* The list is compared with the snapshot: a newcomer, a leaver, or neither.
StartPoll ==
    /\ poll = Idle /\ listed # known
    /\ poll' = [step |-> IF listed THEN "origin" ELSE "destination"]
    /\ during' = {pool}
    /\ UNCHANGED <<source, account, listed, known, feed, tickers, moves, epochs, left>>

Told(ev) == [step |-> "tickers", event |-> ev]

\* Back with us after a leave that was told, and come from where Koios says or from
\* nobody knows where; come from another pool; or new.
JoinOf(from) ==
    IF LeftBefore THEN Event("join_returning", from)
    ELSE IF from # None THEN Event("join_redelegated", from)
    ELSE Event("join", None)

Classify ==
    /\ poll.step = "origin"
    /\ \/ Answered /\ poll' = Told(JoinOf(PriorPool))
       \/ Failed /\ poll' = Told(JoinOf(None))
    /\ UNCHANGED <<source, account, listed, known, feed, tickers, during, moves, epochs>>

\* An account that is still ours is left out: the list was behind.
LeaveOf(to) ==
    CASE to = "ours" -> [step |-> "snapshot"]
      [] to = "unknown" -> Told(Event("leave", None))
      [] to \in Others -> Told(Event("leave_redelegated", to))
      [] to = None -> Told(Event("leave_to_wallet", None))

ClassifyLeaver ==
    /\ poll.step = "destination"
    /\ \/ Answered /\ poll' = LeaveOf(Destination(DelegatedPool(TRUE)))
       \/ Failed /\ poll' = LeaveOf(Destination(DelegatedPool(FALSE)))
    /\ UNCHANGED <<source, account, listed, known, feed, tickers, during, moves, epochs>>

\* getPoolTickers answers with a ticker or with nothing, and what it answered is
\* remembered, nothing included.
PoolTicker(answered) == IF answered THEN "named" ELSE "null"

ResolveTickers ==
    LET p == poll.event.pool
        asks == p # None /\ tickers[p] = "unseen"
    IN
    /\ poll.step = "tickers"
    /\ \/ /\ asks /\ Answered
          /\ tickers' = [tickers EXCEPT ![p] = PoolTicker(TRUE)]
       \/ /\ asks /\ Failed
          /\ tickers' = [tickers EXCEPT ![p] = PoolTicker(FALSE)]
       \/ ~asks /\ UNCHANGED <<tickers, left>>
    /\ poll' = [step |-> "store",
                event |-> [poll.event EXCEPT !.ticker = IF p = None THEN @ ELSE tickers'[p]]]
    /\ UNCHANGED <<source, account, listed, known, feed, during, moves, epochs>>

\* The event, if there is one, and the snapshot.
Store ==
    /\ poll.step \in {"store", "snapshot"}
    /\ feed' = IF poll.step = "store" THEN Append(feed, poll.event) ELSE feed
    /\ known' = ~known
    /\ poll' = Idle /\ during' = {}
    /\ UNCHANGED <<source, account, listed, tickers, moves, epochs, left>>

Clear ==
    /\ Disturbed("clear") /\ feed # <<>> /\ feed' = <<>>
    /\ UNCHANGED <<source, account, listed, known, tickers, poll, during, moves, epochs>>

Next ==
    \/ \E p \in Pools \cup {None} : Move(p)
    \/ EpochEnds \/ ListCatchesUp
    \/ StartPoll \/ Classify \/ ClassifyLeaver \/ ResolveTickers \/ Store \/ Clear

Spec == Init /\ [][Next]_vars

------------------------------------------------------------------------------
(* Properties.                                                               *)

TypeOK ==
    /\ source \in Sources /\ pool \in Pools \cup {None} /\ cert \in Pools \cup {None}
    /\ active \in Seq(Pools) /\ listed \in BOOLEAN /\ known \in BOOLEAN
    /\ tickers \in [Others -> {"unseen", "null", "named"}]
    /\ \A i \in DOMAIN feed :
         /\ feed[i].pool \in Others \cup {None}
         /\ feed[i].type \in LeaveTypes \cup {"join", "join_redelegated", "join_returning"}
    /\ poll.step \in {"idle", "origin", "destination", "tickers", "store", "snapshot"}
    /\ during \subseteq Pools \cup {None}

\* A pool named as the origin is one the account's stake was active in, never the
\* one it is only remembered to have left for ("DON'T assert the stale last-seen pool
\* as the prior pool").
OriginIfTold ==
    LET ev == feed'[Len(feed')] IN
    Len(feed') > Len(feed) /\ ev.type \in {"join_redelegated", "join_returning"} /\ ev.pool # None
        => ev.pool \in Range(active)

\* Whoever is told gone to another pool, or to no pool, was there while the poll ran,
\* failing lookups included. And "a leave is never lost": the snapshot does not drop
\* the account without an event, unless it was with us while the poll ran.
LeaveIfTold ==
    LET ev == feed'[Len(feed')] IN
    /\ Len(feed') > Len(feed) =>
         /\ ev.type = "leave_redelegated" => ev.pool \in during
         /\ ev.type = "leave_to_wallet" => None \in during
    /\ known /\ ~known' /\ feed' = feed => Us \in during

\* Both, where Koios is asked where the account went.
TruthIfTold == OriginIfTold /\ (source = "koios" => LeaveIfTold)
MovesAreToldTruly == [][TruthIfTold]_vars

\* What makes it so: what a poll is about to tell is true by the account's history and
\* by where it was since the poll began.
Events ==
    [type : LeaveTypes \cup {"join", "join_redelegated", "join_returning"},
     pool : Others \cup {None}, ticker : {"unseen", "null", "named"}]
TrueSoFar(ev) ==
    /\ ev.type \in {"join_redelegated", "join_returning"} /\ ev.pool # None
         => ev.pool \in Range(active)
    /\ source = "koios" =>
         /\ ev.type = "leave_redelegated" => ev.pool \in during
         /\ ev.type = "leave_to_wallet" => None \in during
PollIsTrue ==
    /\ pool \in Pools \cup {None} /\ cert \in Pools \cup {None}
    /\ active \in Seq(Pools) /\ feed \in Seq(Events)
    /\ tickers \in [Others -> {"unseen", "null", "named"}]
    /\ poll # Idle => pool \in during
    /\ poll.step \in {"tickers", "store"} => poll.event \in Events /\ TrueSoFar(poll.event)
    /\ poll.step = "snapshot" /\ source = "koios" => Us \in during

\* The same of Blockfrost ("degrades to 'unknown' on any failure so a leave is never
\* lost"): its failed lookups say nobody, and after a key is deregistered its last
\* certificate still names us, so the leave is taken for a false one.
LeavesAreToldByAll == [][LeaveIfTold]_vars

\* A failed ticker lookup is made again: of the comment of resolveTickers, which says
\* failures leave the id unresolved. They are remembered as pools without one.
AskedAgain == \A p \in Others : tickers[p] # "null"
=============================================================================
