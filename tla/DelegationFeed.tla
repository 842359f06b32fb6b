--------------------------- MODULE DelegationFeed ---------------------------
(***************************************************************************)
(* The membership half of the notification poll: refreshNotifications in   *)
(* src/data/read-model.js, with the queries it makes of db-sync            *)
(* (dbsync-query.js) and the tables it writes (src-tauri/src/cache.rs).    *)
(*                                                                         *)
(* A poll detects joins and leaves in two ways.  While db-sync is          *)
(* reachable it scans the delegation certificates above a persisted        *)
(* watermark; otherwise it compares the live delegator list with the       *)
(* snapshot of the previous poll.  Every await of the poll is a point at   *)
(* which certificates land, the mode flips to demo, the read model is      *)
(* reset, or the application dies, so a poll is a sequence of actions.     *)
(* Balance movements, the other half of the poll, are in StakeMoves.       *)
(***************************************************************************)
EXTENDS Integers, Sequences, FiniteSets, SequencesExt

CONSTANTS
    Stakes,      \* the delegator accounts
    Movers,      \* those that move; the rest (the pledge, say) stay with us
    Polls,       \* identities of polls that may run at the same time
    MaxCerts,    \* bound: certificates that land during a behaviour
    Limit,       \* certificates one scan reads (1000 in the code)
    Keep,        \* rows the feed retains (NOTIF_EVENTS_KEEP)
    Details,     \* what an event's detail can say when it has no tx hash
    Disturb,     \* the disturbances this instance lets happen
    MaxDisturb   \* bound: how many of them happen

Disturbances == {"restart", "demo", "reset", "clearCache", "clearFeed",
                 "storeFail", "readFail", "race", "switch", "dbDown",
                 "queryFail", "deregister", "idleDemo"}

ASSUME LimitAssumption == Limit \in Nat \ {0}
ASSUME KeepAssumption == Keep \in Nat \ {0}
ASSUME MaxCertsAssumption == MaxCerts \in Nat
ASSUME MoversAssumption == Movers \subseteq Stakes
ASSUME DisturbAssumption == Disturb \subseteq Disturbances

NoMark == -1                       \* no watermark is stored
CertIds == 1..MaxCerts
Sources == {"koios-live", "blockfrost-live"}
Steps == {"idle", "list", "gate", "base", "baseMeta", "seed", "certs",
          "scanned", "advance", "diff", "store", "snap"}

VARIABLES
    certs,       \* db-sync's delegation table: the certificates so far
    member,      \* what the chain says of each account
    live,        \* the delegator list the live source serves
    source,      \* the live source the registry resolves to
    reachable,   \* dbsyncSource.reachable()
    baselined, snapshot, watermark, lastSource, feed,   \* the local cache
    mode,        \* "live" or "demo"
    inFlight,    \* _notifInFlight
    job,         \* each poll's progress and local variables
    dispatched,  \* history: times each certificate was shown to the operator
    told,        \* history: membership as the operator was last told it
    seeded,      \* history: the newest certificate when a watermark was last seeded
    disturbed    \* how many disturbances have happened

chain == <<certs, member, live, source, reachable>>
cache == <<baselined, snapshot, watermark, lastSource, feed>>
history == <<dispatched, told, seeded>>
vars == <<chain, cache, mode, inFlight, job, history, disturbed>>

Event == [type : {"join", "leave"}, stake : Stakes, ref : CertIds \cup Details]

Idle == [pc |-> "idle", cur |-> {}, src |-> "", prev |-> {}, mark |-> NoMark,
         devs |-> {}, upTo |-> NoMark, dbActive |-> FALSE, joins |-> {},
         leavers |-> {}]

-----------------------------------------------------------------------------
(* db-sync's delegation table.  A certificate's position is its            *)
(* delegation.id; at the start every account delegates to us.              *)

\* The account's previous certificate, if there is one: what the subquery for the
\* prior pool finds.
Previous(id) ==
    {i \in 1..(id - 1) :
        /\ certs[i].stake = certs[id].stake
        /\ \A j \in (i + 1)..(id - 1) : certs[j].stake # certs[id].stake}

\* getDelegationEvents keeps a certificate that joins us or leaves us: it names
\* another pool than the previous one, or than ours.  Deregistering a stake key
\* leaves no delegation certificate, so it does not show here.
Touches(id) ==
    IF Previous(id) = {} THEN certs[id].to # "ours"
    ELSE \E i \in Previous(id) : certs[i].to # certs[id].to

CertEvent(id) == [type |-> IF certs[id].to = "ours" THEN "join" ELSE "leave",
                  stake |-> certs[id].stake, ref |-> id]

\* Mutant: the window includes the watermark itself.
ScanEventsInclusive(from) ==
    {id \in 1..Len(certs) : from <= id /\ id <= from + Limit /\ Touches(id)}

\* getDelegationEvents, first statement: of the Limit certificates above the
\* watermark, those that touch our pool.
ScanEvents(from) ==
    {id \in 1..Len(certs) : from < id /\ id <= from + Limit /\ Touches(id)}

\* Mutants: the maximum of the whole table; a window taken to be full; no advance.
ScanMaxTable(from) == Len(certs)
ScanMaxFull(from) == from + Limit
ScanMaxStuck(from) == from

\* getDelegationEvents, second statement: the highest id among the Limit
\* certificates above the watermark; the watermark itself if there are none.
ScanMax(from) == IF Len(certs) > from + Limit THEN from + Limit
                 ELSE IF Len(certs) > from THEN Len(certs) ELSE from

-----------------------------------------------------------------------------
(* cache_put_notif_events: INSERT OR IGNORE under the unique index on      *)
(* (pool, type, stake, tx hash or detail), then keep the newest rows.      *)

AddRow(rows, ev) == IF ev \in ToSet(rows) THEN rows ELSE Append(rows, ev)

PutEvents(rows, evs) ==
    LET all == FoldLeft(AddRow, rows, evs)
    IN  IF Len(all) > Keep THEN SubSeq(all, Len(all) - Keep + 1, Len(all))
        ELSE all

\* A cache write whose failure is swallowed: it either happens or is lost.
Happens == {TRUE} \cup (IF "storeFail" \in Disturb THEN {FALSE} ELSE {})

\* A cache read whose failure is swallowed: cacheMetaGet answers null then, and
\* cacheGetNotifSnapshot an empty list, as if nothing were stored.
Reads == {TRUE} \cup (IF "readFail" \in Disturb THEN {FALSE} ELSE {})

-----------------------------------------------------------------------------
Init ==
    /\ certs = <<>>
    /\ member = [s \in Stakes |-> "ours"]
    /\ live = Stakes /\ source = "koios-live"
    /\ reachable \in BOOLEAN
    /\ "dbDown" \notin Disturb => reachable
    /\ baselined = TRUE /\ snapshot = Stakes /\ watermark = 0
    /\ lastSource = "koios-live" /\ feed = <<>>
    /\ mode = "live" /\ inFlight = FALSE
    /\ job = [p \in Polls |-> Idle]
    /\ dispatched = [id \in CertIds |-> 0]
    /\ told = [s \in Stakes |-> TRUE]
    /\ seeded = 0
    /\ disturbed = 0

-----------------------------------------------------------------------------
(* The poll.                                                               *)

At(p, step) == job[p].pc = step

\* Entry guards: demo, in flight, no source.  The throttle only delays a poll.
StartPoll(p) ==
    /\ At(p, "idle") /\ mode = "live" /\ ~inFlight
    /\ inFlight' = TRUE
    /\ job' = [job EXCEPT ![p] = [Idle EXCEPT !.pc = "list"]]
    /\ UNCHANGED <<chain, cache, mode, history, disturbed>>

\* finally { _notifInFlight = false }
Finish(p) ==
    /\ inFlight' = FALSE
    /\ job' = [job EXCEPT ![p] = Idle]

Goto(p, step) == job' = [job EXCEPT ![p].pc = step]

\* await registry.get(DELEGATOR_LIST_LIVE): the list, or an outage.
FetchList(p) ==
    /\ At(p, "list")
    /\ \/ /\ live # {}
          /\ job' = [job EXCEPT ![p].pc = "gate", ![p].cur = live]
          /\ UNCHANGED inFlight
       \/ /\ live = {} \/ "queryFail" \in Disturb
          /\ Finish(p)
    /\ UNCHANGED <<chain, cache, mode, history, disturbed>>

\* registry.resolve(...).id: in demo mode only the demo source answers.
CurSource == IF mode = "demo" THEN "demo" ELSE source

\* The baseline marker, the snapshot and the last source, as far as they could be
\* read, decide between storing a baseline and comparing.
Gate(p) ==
    /\ At(p, "gate")
    /\ \E marker, rows, last \in Reads :
         LET prev == IF rows THEN snapshot ELSE {}
             rebase == \/ ~(marker /\ baselined) \/ prev = {}
                       \/ last /\ lastSource # "" /\ lastSource # CurSource
         IN  job' = [job EXCEPT ![p].prev = prev, ![p].src = CurSource,
                                ![p].pc = IF rebase THEN "base"
                                          ELSE IF reachable THEN "certs" ELSE "diff",
                                ![p].dbActive = ~rebase /\ reachable]
    /\ UNCHANGED <<chain, cache, mode, inFlight, history, disturbed>>

\* Baseline: the snapshot is replaced and nothing is emitted.
StoreBaseline(p) ==
    /\ At(p, "base")
    /\ \E ok \in Happens : snapshot' = IF ok THEN job[p].cur ELSE snapshot
    /\ Goto(p, "baseMeta")
    /\ UNCHANGED <<chain, baselined, watermark, lastSource, feed, mode, inFlight,
                   history, disturbed>>

\* cacheMetaSet of the marker and the source; demo suppresses both.
StoreBaselineMeta(p) ==
    /\ At(p, "baseMeta")
    /\ \E ok \in Happens :
         IF ok /\ mode = "live"
         THEN baselined' = TRUE /\ lastSource' = job[p].src
         ELSE UNCHANGED <<baselined, lastSource>>
    /\ IF reachable THEN Goto(p, "seed") /\ UNCHANGED inFlight ELSE Finish(p)
    /\ UNCHANGED <<chain, snapshot, watermark, feed, mode, history, disturbed>>

\* getMaxDelegationId, which may fail, then cacheMetaSet of the watermark.
SeedWatermark(p) ==
    /\ At(p, "seed")
    /\ \/ /\ mode = "live"
          /\ watermark' = Len(certs) /\ seeded' = Len(certs)
       \/ /\ mode = "demo" \/ FALSE \in Happens \/ "queryFail" \in Disturb
          /\ UNCHANGED <<watermark, seeded>>
    /\ IF job[p].dbActive THEN Goto(p, "diff") /\ UNCHANGED inFlight
       ELSE Finish(p)
    /\ UNCHANGED <<chain, baselined, snapshot, lastSource, feed, mode, dispatched, told,
                   disturbed>>

\* The stored watermark, and getDelegationEvents' first statement.  A watermark
\* that is missing, or cannot be read, is seeded instead; a failed query leaves
\* nothing scanned.
ScanCerts(p) ==
    /\ At(p, "certs")
    /\ \/ (watermark = NoMark \/ FALSE \in Reads) /\ Goto(p, "seed")
       \/ /\ watermark # NoMark
          /\ \/ job' = [job EXCEPT ![p].pc = "scanned", ![p].mark = watermark,
                                    ![p].devs = ScanEvents(watermark)]
             \/ "queryFail" \in Disturb /\ Goto(p, "diff")
    /\ UNCHANGED <<chain, cache, mode, inFlight, history, disturbed>>

\* getDelegationEvents' second statement, a query of its own.
ScanTop(p) ==
    /\ At(p, "scanned")
    /\ \/ job' = [job EXCEPT ![p].pc = "advance", ![p].upTo = ScanMax(job[p].mark)]
       \/ /\ "queryFail" \in Disturb
          /\ job' = [job EXCEPT ![p].pc = "diff", ![p].devs = {}]
    /\ UNCHANGED <<chain, cache, mode, inFlight, history, disturbed>>

\* The watermark is stored before the events are; demo suppresses the write.
AdvanceWatermark(p) ==
    /\ At(p, "advance")
    /\ \E ok \in Happens :
         watermark' = IF ok /\ mode = "live" /\ job[p].upTo > job[p].mark
                      THEN job[p].upTo ELSE watermark
    /\ Goto(p, "diff")
    /\ UNCHANGED <<chain, baselined, snapshot, lastSource, feed, mode, inFlight,
                   history, disturbed>>

\* Mutant: the list is compared even though the certificates report joins.
JoinsAlways(j) == j.cur \ j.prev

\* Accounts new to the list; silent while db-sync's certificates report joins.
Joins(j) == IF j.dbActive THEN {} ELSE j.cur \ j.prev

\* Accounts gone from the list, except those a successful lookup (classifyLeavers)
\* still finds with us.
Leavers(j, known) ==
    IF j.dbActive THEN {}
    ELSE {s \in j.prev \ j.cur : known => member[s] # "ours"}

\* Joins and leaves: from the certificates when db-sync is active, else by
\* comparing the list with the snapshot.
Diff(p) ==
    /\ At(p, "diff")
    /\ \E known \in {TRUE} \cup (IF "queryFail" \in Disturb THEN {FALSE} ELSE {}) :
         LET joins == Joins(job[p])
             leavers == Leavers(job[p], known)
         IN  job' = [job EXCEPT ![p].joins = joins, ![p].leavers = leavers,
                                ![p].pc = IF job[p].devs \cup joins \cup leavers = {}
                                          THEN "snap" ELSE "store"]
    /\ UNCHANGED <<chain, cache, mode, inFlight, history, disturbed>>

\* The events of a poll in the order they are pushed; those of the comparison
\* have no tx hash and are told apart by their detail d.
EventsOf(j, d) ==
    LET row(type, s) == [type |-> type, stake |-> s, ref |-> d]
        ids == SetToSortSeq(j.devs, <)
    IN  [i \in 1..Len(ids) |-> CertEvent(ids[i])]
        \o SetToSeq({row("join", s) : s \in j.joins})
        \o SetToSeq({row("leave", s) : s \in j.leavers})

\* What the operator believes after reading the events in order.
TellAll(evs) ==
    [s \in Stakes |->
        LET about == SelectSeq(evs, LAMBDA ev : ev.stake = s)
        IN  IF about = <<>> THEN told[s] ELSE Last(about).type = "join"]

\* Twice is as bad as often: the history counts no further.
Again(n) == IF n = 0 THEN 1 ELSE 2

\* cachePutNotifEvents, then the window event the toasts and badge listen to.
StoreEvents(p) ==
    /\ At(p, "store")
    /\ \E ok \in Happens, d \in Details :
         LET evs == EventsOf(job[p], d)
         IN  /\ feed' = IF ok THEN PutEvents(feed, evs) ELSE feed
             /\ told' = TellAll(evs)
    /\ dispatched' = [id \in CertIds |->
                        IF id \in job[p].devs THEN Again(dispatched[id])
                        ELSE dispatched[id]]
    /\ Goto(p, "snap")
    /\ UNCHANGED <<chain, baselined, snapshot, watermark, lastSource, mode,
                   inFlight, seeded, disturbed>>

\* cachePutNotifSnapshot ends the poll.
StoreSnapshot(p) ==
    /\ At(p, "snap")
    /\ \E ok \in Happens : snapshot' = IF ok THEN job[p].cur ELSE snapshot
    /\ Finish(p)
    /\ UNCHANGED <<chain, baselined, watermark, lastSource, feed, mode, history,
                   disturbed>>

PollStep(p) ==
    \/ StartPoll(p) \/ FetchList(p) \/ Gate(p) \/ StoreBaseline(p)
    \/ StoreBaselineMeta(p) \/ SeedWatermark(p) \/ ScanCerts(p) \/ ScanTop(p)
    \/ AdvanceWatermark(p) \/ Diff(p) \/ StoreEvents(p) \/ StoreSnapshot(p)

-----------------------------------------------------------------------------
(* The chain and the sources.                                              *)

\* A delegation certificate is indexed.  Between the two statements of a scan
\* it lands only when the instance allows the race.
NewCert(s, to) ==
    /\ Len(certs) < MaxCerts
    /\ "race" \in Disturb \/ \A p \in Polls : ~At(p, "scanned")
    /\ certs' = Append(certs, [stake |-> s, to |-> to])
    /\ member' = [member EXCEPT ![s] = to]
    /\ UNCHANGED <<live, source, reachable, cache, mode, inFlight, job, history,
                   disturbed>>

\* The live source's list catches up with the chain.
SourceCatchesUp ==
    /\ live' = {s \in Stakes : member[s] = "ours"}
    /\ live' # live
    /\ UNCHANGED <<certs, member, source, reachable, cache, mode, inFlight, job,
                   history, disturbed>>

-----------------------------------------------------------------------------
(* Disturbances.                                                           *)

Disturbed(kind) ==
    /\ kind \in Disturb /\ disturbed < MaxDisturb
    /\ disturbed' = disturbed + 1

\* A stake key is deregistered: the account delegates to nobody.
Deregister(s) ==
    /\ Disturbed("deregister") /\ member[s] # "none"
    /\ member' = [member EXCEPT ![s] = "none"]
    /\ UNCHANGED <<certs, live, source, reachable, cache, mode, inFlight, job,
                   history>>

\* db-sync is lost (markDbsyncDown) or comes back (ensureDbsync).
DbsyncToggles ==
    /\ Disturbed("dbDown")
    /\ reachable' = ~reachable
    /\ UNCHANGED <<certs, member, live, source, cache, mode, inFlight, job, history>>

\* The operator chooses another live source.
SwitchSource ==
    /\ Disturbed("switch")
    /\ source' \in Sources \ {source}
    /\ UNCHANGED <<certs, member, live, reachable, cache, mode, inFlight, job,
                   history>>

\* The LIVE / DEMO badge: polls under way go on.
FlipMode ==
    /\ \/ /\ mode = "live" /\ mode' = "demo"
          /\ \/ Disturbed("demo")
             \/ Disturbed("idleDemo") /\ \A p \in Polls : At(p, "idle")
       \/ mode = "demo" /\ mode' = "live" /\ UNCHANGED disturbed
    /\ UNCHANGED <<chain, cache, inFlight, job, history>>

\* resetReadModel on a reconnect: the flag clears, polls under way go on.
Reset ==
    /\ Disturbed("reset") /\ inFlight
    /\ inFlight' = FALSE
    /\ UNCHANGED <<chain, cache, mode, job, history>>

\* The application dies and is started again; the cache survives.
Restart ==
    /\ Disturbed("restart") /\ \E p \in Polls : ~At(p, "idle")
    /\ inFlight' = FALSE /\ mode' = "live"
    /\ job' = [p \in Polls |-> Idle]
    /\ UNCHANGED <<chain, cache, history>>

\* cache_clear_all behind the Clear cache button.
ClearCache ==
    /\ Disturbed("clearCache")
    /\ baselined' = FALSE /\ snapshot' = {} /\ watermark' = NoMark
    /\ lastSource' = "" /\ feed' = <<>>
    /\ UNCHANGED <<chain, mode, inFlight, job, history>>

\* clearNotifications: the feed alone.
ClearFeed ==
    /\ Disturbed("clearFeed") /\ mode = "live" /\ feed # <<>>
    /\ feed' = <<>>
    /\ UNCHANGED <<chain, baselined, snapshot, watermark, lastSource, mode,
                   inFlight, job, history>>

Disturbance ==
    \/ \E s \in Movers : Deregister(s)
    \/ DbsyncToggles \/ SwitchSource \/ FlipMode \/ Reset \/ Restart
    \/ ClearCache \/ ClearFeed

Next ==
    \/ \E p \in Polls : PollStep(p)
    \/ \E s \in Movers, to \in {"ours", "other"} : NewCert(s, to)
    \/ SourceCatchesUp
    \/ Disturbance

Spec == Init /\ [][Next]_vars

\* main.js starts a poll on every tick and every await returns (the commands
\* carry timeouts); the live source catches up in the end.
Fairness ==
    /\ \A p \in Polls : WF_vars(PollStep(p))
    /\ WF_vars(SourceCatchesUp)

FairSpec == Spec /\ Fairness

-----------------------------------------------------------------------------
(* Properties.                                                             *)

Job == [pc : Steps, cur : SUBSET Stakes, src : Sources \cup {"", "demo"},
        prev : SUBSET Stakes, mark : CertIds \cup {NoMark, 0},
        devs : SUBSET CertIds, upTo : CertIds \cup {NoMark, 0},
        dbActive : BOOLEAN, joins : SUBSET Stakes, leavers : SUBSET Stakes]

\* Types of the state.
TypeOK ==
    /\ certs \in Seq([stake : Stakes, to : {"ours", "other"}])
    /\ Len(certs) <= MaxCerts
    /\ member \in [Stakes -> {"ours", "other", "none"}]
    /\ live \subseteq Stakes /\ source \in Sources
    /\ reachable \in BOOLEAN /\ baselined \in BOOLEAN
    /\ snapshot \subseteq Stakes
    /\ watermark \in CertIds \cup {NoMark, 0}
    /\ lastSource \in Sources \cup {"", "demo"}
    /\ feed \in Seq(Event)
    /\ mode \in {"live", "demo"} /\ inFlight \in BOOLEAN
    /\ job \in [Polls -> Job]
    /\ dispatched \in [CertIds -> 0..2]
    /\ told \in [Stakes -> BOOLEAN] /\ seeded \in 0..Len(certs)
    /\ disturbed \in 0..MaxDisturb

\* "Watermark by delegation.id so each cert emits exactly once" (read-model.js,
\* the comment on instant joins), the at-most-once half: no certificate is
\* shown to the operator twice.
AtMostOnce == \A id \in CertIds : dispatched[id] <= 1

\* The abstract specification: reports in order of certificate, each at most once.
Reports == INSTANCE CertReports WITH landed <- Len(certs), shown <- dispatched

\* With one poll at a time, no demo visit and no failing watermark write, the
\* poll implements that specification through crashes, outages, source switches
\* and cache clears: certificates are reported in order and never again.
InOrderOnce == Reports!Spec

Carried(id) == \E p \in Polls : job[p].pc \in {"advance", "diff", "store"} /\ id \in job[p].devs

Shown(id) == dispatched[id] > 0 \/ Carried(id)

\* The other half: what touches our pool and lies at or below the watermark has been
\* shown, or a running poll carries it to be shown.  Only a seed (of a new baseline,
\* of a watermark that is missing or could not be read) passes certificates over,
\* those indexed by then.
NoCertSkipped ==
    \A id \in 1..Len(certs) :
        seeded < id /\ id <= watermark /\ Touches(id) => Shown(id)

\* "Watermark by delegation.id so each cert emits exactly once" (read-model.js, the
\* comment on instant joins), with nothing excepted.  A cache read that fails looks
\* like an empty cache, is seeded anew, and breaks it.
EachIsEmitted ==
    \A id \in 1..Len(certs) : id <= watermark /\ Touches(id) => Shown(id)

\* Reports about each account alternate between join and leave, starting from
\* what the operator was told before.
Alternates(evs) ==
    \A s \in Stakes :
        LET about == SelectSeq(evs, LAMBDA ev : ev.stake = s)
        IN  \A i \in 1..Len(about) :
              (about[i].type = "join") =
                 (IF i = 1 THEN ~told[s] ELSE about[i - 1].type = "leave")

\* With db-sync active there is "no double-report and no false leave when Koios
\* finally catches up" (read-model.js): whatever the live list's lag, an account
\* is never reported joined twice, or left twice, in a row.
DoubleReport ==
    \E p \in Polls, d \in Details : StoreEvents(p) /\ ~Alternates(EventsOf(job[p], d))

NoDoubleReport == [][~DoubleReport]_vars

\* What the chain's last certificate says of an account.
Delegates(s) ==
    LET ids == {i \in 1..Len(certs) : certs[i].stake = s}
    IN  ids = {} \/ certs[CHOOSE i \in ids : \A j \in ids : j <= i].to = "ours"

\* The promise of the feed: once the chain is quiet the operator comes to know
\* of every account whether it delegates to us.  An empty list is an outage to
\* the poll, so a pool everyone has left is the exception.
Informed == live = {} \/ \A s \in Stakes : told[s] = Delegates(s)

OperatorLearns == <>[]Informed
=============================================================================
