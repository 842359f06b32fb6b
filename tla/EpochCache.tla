----------------------------- MODULE EpochCache -----------------------------
(***************************************************************************)
(* The cached epoch rows: the jobs of src/data/read-model.js that fetch    *)
(* history from Koios and write it with cachePutEpoch, and the pool guard  *)
(* of ensureCacheForPool.                                                  *)
(*                                                                         *)
(* cachePutEpoch reads the stored row, merges the reward fields Koios      *)
(* returned null, and writes the result: two commands with an await in     *)
(* between.  The jobs are started without being awaited, so they overlap,  *)
(* and they outlive a disconnect.  Each cache command names the pool of    *)
(* the session at the moment it is issued; what a job fetches is the pool's*)
(* it began with.                                                          *)
(***************************************************************************)
EXTENDS Integers, FiniteSets, FiniteSetsExt

CONSTANTS
    NoPool,       \* POOL_ID while disconnected: the empty string
    Epochs,       \* the closed epochs of the pools' history (integers)
    Worlds,       \* the circumstances this instance explores, records
    MaxDisturb    \* bound: how many disturbances happen

\* A circumstance: the pools an operator connects to, the identities of the
\* jobs that may run at the same time, the epochs Koios has nothing to enrich
\* with, and the disturbances that may happen.
Disturbances == {"restart", "reconnect", "force", "demo", "null", "fail", "unwritten",
                 "unread"}

VARIABLES
    world,        \* the circumstance, chosen once
    rows,         \* the epoch table, by pool and epoch
    version,      \* meta backfill_version is stored
    cachePool,    \* meta cache_pool_hex
    session,      \* "down", "opening" (connected, cache not yet checked), "up"
    pool,         \* POOL_ID of the session
    mode,         \* "live" or "demo"
    bech,         \* _bech32
    latched,      \* _backfillDone, _idealFillDone, _reconcileDone
    attempts,     \* _idealAttempts
    inFlight,     \* the jobs' in-flight flags
    job,          \* each running job
    disturbed     \* how many disturbances have happened

Pools == UNION {w.pools : w \in Worlds}
Jobs == UNION {w.jobs : w \in Worlds}
Keys == Pools \cup {NoPool}

ASSUME NoPoolAssumption == NoPool \notin Pools
ASSUME BoundsAssumption == MaxDisturb \in Nat /\ IsFiniteSet(Jobs)

\* A row: whose data it holds, and whether its reward and its enriched fields
\* (Ideal, leader reward) are real or null.
Row == [of : Pools, reward : BOOLEAN, ideal : BOOLEAN]
NoRow == [of |-> NoPool, reward |-> FALSE, ideal |-> FALSE]
MaxAttempts == 2                   \* IDEAL_MAX_ATTEMPTS
Newest == Max(Epochs)              \* the epoch refreshRecent looks at

ASSUME EpochsAssumption == Newest \in Epochs

stored == <<rows, version, cachePool>>
link == <<session, pool, mode>>
flags == <<bech, latched, attempts, inFlight>>
vars == <<world, stored, link, flags, job, disturbed>>

Kinds == {"backfill", "reconcile", "fill", "recent"}
NoRows == [e \in Epochs |-> NoRow]
Off == [kind |-> "none", pc |-> "off", of |-> NoPool, todo |-> {},
        data |-> NoRows, epoch |-> 0, row |-> NoRow, blind |-> FALSE]
NoAttempts == [e \in Epochs |-> 0]
Empty == [k \in Keys |-> NoRows]

Init ==
    /\ world \in Worlds
    /\ rows = Empty /\ version = FALSE /\ cachePool = NoPool
    /\ session = "down" /\ pool = NoPool /\ mode = "live"
    /\ bech = NoPool /\ latched = {} /\ attempts = NoAttempts /\ inFlight = {}
    /\ job = [j \in Jobs |-> Off]
    /\ disturbed = 0

Disturbed(kind) ==
    /\ kind \in world.disturb /\ disturbed < MaxDisturb
    /\ disturbed' = disturbed + 1

\* Koios may return a null where it has a value.
Answers == {TRUE} \cup (IF "null" \in world.disturb THEN {FALSE} ELSE {})

-----------------------------------------------------------------------------
(* The jobs.                                                               *)

At(j, step) == job[j].pc = step

\* The conditions under which a job's entry point does anything.
Due(kind) ==
    \/ kind = "backfill" /\ "backfill" \notin latched
    \/ kind = "fill" /\ "backfill" \in latched /\ "fill" \notin latched
    \/ kind = "recent" /\ "backfill" \in latched

Begin(j, kind) ==
    /\ bech' = IF bech = NoPool THEN pool ELSE bech
    /\ job' = [job EXCEPT ![j] = [Off EXCEPT !.kind = kind, !.pc = "fetch", !.of = bech']]

\* The live loop calls the entry points on every tick.  In demo another data
\* source is asked for the snapshot and the loop does not reach them.
Start(j, kind) ==
    /\ j \in world.jobs /\ At(j, "off") /\ session = "up" /\ mode = "live"
    /\ Due(kind) /\ kind \notin inFlight
    /\ IF kind = "backfill" /\ version
       THEN latched' = latched \cup {"backfill"} /\ UNCHANGED <<bech, inFlight, job>>
       ELSE /\ Begin(j, kind)
            /\ inFlight' = inFlight \cup {kind}
            /\ UNCHANGED latched
    /\ UNCHANGED <<world, stored, link, attempts, disturbed>>

Lacks(field) == {e \in Epochs : rows[pool][e] # NoRow /\ ~rows[pool][e][field]}

\* Mutant: a job that ends leaves its flag set.
ReleaseNot(kind) == inFlight

Release(kind) == inFlight \ {kind}

End(j) ==
    /\ inFlight' = Release(job[j].kind)
    /\ job' = [job EXCEPT ![j] = Off]

\* The history is fetched from Koios for the pool the job began with: all of it,
\* or the recent epochs.
FetchHistory(j) ==
    /\ At(j, "fetch") /\ job[j].kind \in {"backfill", "recent"}
    /\ job' = [job EXCEPT ![j].pc = "next",
                          ![j].todo = IF job[j].kind = "backfill" THEN Epochs ELSE {Newest}]
    /\ UNCHANGED <<world, stored, link, flags, disturbed>>

\* The reconciler looks for cached epochs without a reward; it keeps those for
\* which the history it fetches has one.
FetchMissing(j) ==
    /\ At(j, "fetch") /\ job[j].kind = "reconcile"
    /\ LET need == Lacks("reward")
       IN  IF need = {}
           THEN latched' = latched \cup {"reconcile"} /\ End(j)
           ELSE /\ \E found \in IF FALSE \in Answers THEN SUBSET need ELSE {need} :
                     /\ job' = [job EXCEPT ![j].pc = "next", ![j].todo = found]
                     /\ latched' = IF found = need THEN latched \cup {"reconcile"}
                                   ELSE latched
                /\ UNCHANGED inFlight
    /\ UNCHANGED <<world, stored, link, bech, attempts, disturbed>>

\* Mutant: one try more than IDEAL_MAX_ATTEMPTS.
GivenUpLate(e) == attempts[e] > MaxAttempts

GivenUp(e) == attempts[e] >= MaxAttempts

\* The filler reads the cached rows; with nothing to fill it latches done.
FetchGaps(j) ==
    /\ At(j, "fetch") /\ job[j].kind = "fill"
    /\ LET need == {e \in Lacks("ideal") : ~GivenUp(e)}
       IN  IF need = {}
           THEN latched' = latched \cup {"fill"} /\ End(j)
           ELSE /\ job' = [job EXCEPT ![j].pc = "next", ![j].todo = need,
                                      ![j].data = rows[pool]]
                /\ UNCHANGED <<latched, inFlight>>
    /\ UNCHANGED <<world, stored, link, bech, attempts, disturbed>>

\* A query throws: the job's catch logs it and its finally clears the flag.
FetchFails(j) ==
    /\ At(j, "fetch") /\ Disturbed("fail")
    /\ End(j)
    /\ UNCHANGED <<world, stored, link, bech, latched, attempts>>

\* A read of the cached rows fails: cacheGetEpochsRaw turns it into no rows, so
\* there is nothing to do and the job latches done.
FetchUnread(j) ==
    /\ At(j, "fetch") /\ job[j].kind \in {"reconcile", "fill"} /\ Disturbed("unread")
    /\ latched' = latched \cup {job[j].kind} /\ End(j)
    /\ UNCHANGED <<world, stored, link, bech, attempts>>

\* historyRow: enriched fields are null until the filler computes them;
\* refreshRecent computes them at once, if it can.
Fetched(j, e) ==
    [of : {job[j].of},
     reward : IF job[j].kind = "reconcile" THEN {TRUE} ELSE Answers,
     ideal : IF job[j].kind = "recent" /\ e \notin world.blank THEN Answers ELSE {FALSE}]

\* The filler completes the row it read when it began, if Koios can.
Completed(j, e) ==
    IF e \in world.blank THEN {} ELSE {[job[j].data[e] EXCEPT !.ideal = TRUE]}

\* Mutant: the row is written as it was fetched.
MergeNothing(row, prev) == row

\* A real reward is not replaced by a null one.
Merge(row, prev) == [row EXCEPT !.reward = @ \/ prev.reward]

\* The epochs are taken in order: newest first as Koios lists them, by the filler
\* oldest first as the cache does.
FirstOf(j) ==
    {e \in job[j].todo : \A other \in job[j].todo :
        IF job[j].kind = "fill" THEN e <= other ELSE other <= e}

\* What a job writes for an epoch: the stored row is read and merged into the new
\* one.  A read that fails counts as no stored row: the new one is written as it is.
ToWrite(j, e, row, unread) ==
    [job[j] EXCEPT !.pc = "write", !.epoch = e, !.todo = @ \ {e}, !.blind = unread,
                   !.row = IF unread THEN row ELSE Merge(row, rows[pool][e])]

\* cachePutEpoch, first half: the demo guard, then the read.
ReadRow(j) ==
    /\ At(j, "next") /\ job[j].todo # {} /\ mode = "live"
    /\ \E e \in FirstOf(j), unread \in BOOLEAN :
         /\ IF unread THEN Disturbed("unread") ELSE UNCHANGED disturbed
         /\ \E row \in IF job[j].kind = "fill" THEN Completed(j, e) ELSE Fetched(j, e) :
              job' = [job EXCEPT ![j] = ToWrite(j, e, row, unread)]
    /\ UNCHANGED <<world, stored, link, flags>>

\* The filler gets no answer for an epoch and counts the attempt.
CountAttempt(j) ==
    /\ At(j, "next") /\ job[j].kind = "fill" /\ job[j].todo # {} /\ mode = "live"
    /\ \E e \in FirstOf(j) :
           /\ e \in world.blank \/ FALSE \in Answers
           /\ attempts' = [attempts EXCEPT ![e] = @ + 1]
           /\ job' = [job EXCEPT ![j].todo = @ \ {e}]
    /\ UNCHANGED <<world, stored, link, bech, latched, inFlight, disturbed>>

\* Second half: the merged row replaces whatever is stored by then, under the
\* pool of the session there is by then.  A write that fails is only logged.
WriteRow(j) ==
    /\ At(j, "write")
    /\ \/ rows' = [rows EXCEPT ![pool][job[j].epoch] = job[j].row] /\ UNCHANGED disturbed
       \/ Disturbed("unwritten") /\ UNCHANGED rows
    /\ attempts' = IF job[j].kind = "fill" THEN [attempts EXCEPT ![job[j].epoch] = 0]
                   ELSE attempts
    /\ job' = [job EXCEPT ![j].pc = "next", ![j].row = NoRow, ![j].epoch = 0,
                          ![j].blind = FALSE]
    /\ UNCHANGED <<world, version, cachePool, link, bech, latched, inFlight>>

\* In demo the loops of backfill and filler return; the other two go on and
\* cachePutEpoch drops their rows.
Quiesce(j) ==
    /\ At(j, "next") /\ job[j].todo # {} /\ mode = "demo"
    /\ IF job[j].kind \in {"backfill", "fill"}
       THEN End(j)
       ELSE job' = [job EXCEPT ![j].todo = {}] /\ UNCHANGED inFlight
    /\ UNCHANGED <<world, stored, link, bech, latched, attempts, disturbed>>

\* Mutant: the version is stored while a row is still missing.
LastRowEarly(j) == Cardinality(job[j].todo) < Cardinality(Epochs)

LastRow(j) == job[j].todo = {}

\* reconcileRewards, called when the backfill is through: not again once it has
\* found nothing to do, and not in demo or without a pool.
ReconcileDue ==
    /\ "reconcile" \notin inFlight \cup latched /\ mode = "live"
    /\ bech # NoPool \/ pool # NoPool

\* After the last row the backfill stores its version (not in demo), latches
\* done and starts the reconciler; the other jobs just end.
Close(j) ==
    /\ At(j, "next") /\ LastRow(j)
    /\ IF job[j].kind = "backfill"
       THEN version' = (version \/ mode = "live") /\ latched' = latched \cup {"backfill"}
       ELSE UNCHANGED <<version, latched>>
    /\ IF job[j].kind = "backfill" /\ ReconcileDue
       THEN Begin(j, "reconcile") /\ inFlight' = Release("backfill") \cup {"reconcile"}
       ELSE End(j) /\ UNCHANGED bech
    /\ UNCHANGED <<world, rows, cachePool, link, attempts, disturbed>>

JobStep(j) ==
    \/ FetchHistory(j) \/ FetchMissing(j) \/ FetchGaps(j) \/ FetchFails(j)
    \/ FetchUnread(j) \/ ReadRow(j) \/ CountAttempt(j) \/ WriteRow(j) \/ Quiesce(j) \/ Close(j)

-----------------------------------------------------------------------------
(* The connection.                                                         *)

\* markConnected and setMode("live").
Connect(p) ==
    /\ session = "down" /\ p \in world.pools
    /\ session' = "opening" /\ pool' = p /\ mode' = "live"
    /\ UNCHANGED <<world, stored, flags, job, disturbed>>

\* ensureCacheForPool, first half: another pool's cache, its meta table
\* included, is cleared in one transaction.
ClearOther ==
    /\ session = "opening" /\ cachePool \notin {NoPool, pool}
    /\ rows' = Empty /\ version' = FALSE /\ cachePool' = NoPool
    /\ UNCHANGED <<world, link, flags, job, disturbed>>

\* Second half: the cache is marked with its pool; polling starts after it.
ClaimCache ==
    /\ session = "opening" /\ cachePool \in {NoPool, pool}
    /\ cachePool' = pool
    /\ session' = "up"
    /\ UNCHANGED <<world, rows, version, pool, mode, flags, job, disturbed>>

\* Disconnect: the session and the read model's state are reset, running jobs
\* are not.  resetReadModel leaves the attempts and the reconciler's two flags.
Disconnect ==
    /\ session = "up" /\ Disturbed("reconnect")
    /\ session' = "down" /\ pool' = NoPool
    /\ bech' = NoPool
    /\ latched' = latched \cap {"reconcile"} /\ inFlight' = inFlight \cap {"reconcile"}
    /\ UNCHANGED <<world, stored, mode, attempts, job>>

\* The application dies and is started again.
Restart ==
    /\ session # "down" /\ Disturbed("restart")
    /\ session' = "down" /\ pool' = NoPool /\ mode' = "live"
    /\ bech' = NoPool /\ latched' = {} /\ attempts' = NoAttempts /\ inFlight' = {}
    /\ job' = [j \in Jobs |-> Off]
    /\ UNCHANGED <<world, stored>>

\* "Explore demo" in the wizard, and the badge that leads back.
FlipMode ==
    /\ session = "up"
    /\ \/ mode = "live" /\ Disturbed("demo") /\ mode' = "demo"
       \/ mode = "demo" /\ mode' = "live" /\ UNCHANGED disturbed
    /\ UNCHANGED <<world, stored, session, pool, flags, job>>

\* forceRefreshHistory: the operator re-arms the filler, which looks again at
\* the epochs it gave up.
ForceRefresh ==
    /\ session = "up" /\ mode = "live" /\ "fill" \in latched
    /\ Disturbed("force")
    /\ latched' = latched \ {"fill"} /\ attempts' = NoAttempts
    /\ UNCHANGED <<world, stored, link, bech, inFlight, job>>

Next ==
    \/ \E j \in Jobs, kind \in Kinds : Start(j, kind)
    \/ \E j \in Jobs : JobStep(j)
    \/ \E p \in Pools : Connect(p)
    \/ ClearOther \/ ClaimCache \/ Disconnect \/ Restart \/ FlipMode \/ ForceRefresh

Spec == Init /\ [][Next]_vars

\* A query or command that was issued is answered, the loop's next tick calls
\* every entry point again, and the operator comes back from demo.  Nobody has
\* to reconnect.
Fairness ==
    /\ \A j \in Jobs : WF_vars(JobStep(j))
    /\ \A kind \in {"backfill", "fill"} : SF_vars(\E j \in Jobs : Start(j, kind))
    /\ WF_vars(ClearOther \/ ClaimCache)
    /\ WF_vars(FlipMode /\ mode = "demo")

FairSpec == Spec /\ Fairness

-----------------------------------------------------------------------------
(* Properties.                                                             *)

MaybeRow == Row \cup {NoRow}

\* IDEAL_MAX_ATTEMPTS bounds the tries, unless fillers overlap: a disconnect
\* clears the in-flight flag of a filler that goes on.
TriesBound ==
    IF "reconnect" \in world.disturb THEN MaxAttempts + Cardinality(Jobs) - 1
    ELSE MaxAttempts

\* Types of the state, and the bound on the filler's tries.
TypeOK ==
    /\ world \in Worlds
    /\ rows \in [Keys -> [Epochs -> MaybeRow]]
    /\ version \in BOOLEAN /\ cachePool \in Keys
    /\ session \in {"down", "opening", "up"} /\ pool \in Keys /\ mode \in {"live", "demo"}
    /\ bech \in Keys /\ latched \subseteq Kinds
    /\ attempts \in [Epochs -> 0..TriesBound] /\ inFlight \subseteq Kinds
    /\ job \in [Jobs -> [kind : Kinds \cup {"none"},
                         pc : {"off", "fetch", "next", "write"}, of : Keys,
                         todo : SUBSET Epochs, data : [Epochs -> MaybeRow],
                         epoch : Epochs \cup {0}, row : MaybeRow, blind : BOOLEAN]]
    /\ disturbed \in 0..MaxDisturb

\* "Done-flags stay unset and the job resumes cleanly on return to live"
\* (cachePutEpoch): unless a write failed or a backfill outlived its connection,
\* a stored version vouches for a row in every epoch of the pool the cache
\* belongs to, whatever crash, demo visit or change of pool came in between.
VersionMeansAllRows ==
    version /\ world.disturb \cap {"reconnect", "unwritten"} = {} =>
        \A e \in Epochs : rows[cachePool][e] # NoRow

\* "A real cached value is authoritative for a settled epoch and must never be
\* overwritten by a later null" (read-model.js, _REWARD_FIELDS).
RewardsStick ==
    [][\A p \in Pools, e \in Epochs :
         rows[p][e].reward /\ rows'[p][e] # NoRow => rows'[p][e].reward]_vars

\* The job is about to write a row that it could not compare with the stored one.
WritesBlind(j) == At(j, "write") /\ job[j].blind

\* While jobs do not run side by side and none outlives its connection, the only
\* write that replaces a real reward by a null is one whose own read of the stored
\* row failed; not a later one, and not that of a job that found no rows.
RewardsStickAlone ==
    [][(\E j \in Jobs : world.jobs = {j}) /\ "reconnect" \notin world.disturb =>
         \A p \in Pools, e \in Epochs :
           rows[p][e].reward /\ rows'[p][e] # NoRow =>
               rows'[p][e].reward \/ \E j \in Jobs : WritesBlind(j)]_vars

\* "Cross-pool protection moved to connect time" (main.js): rows kept under a
\* pool hold that pool's data.
RowsAreThePools ==
    \A p \in Pools, e \in Epochs : rows[p][e] # NoRow => rows[p][e].of = p

\* Through failing queries, demo visits, disconnects and epochs Koios cannot
\* enrich, a session that stays up backfills and sees the filler through: no job
\* keeps its in-flight flag and none is retried for ever.  (Koios that returns
\* nulls for ever could keep the filler busy for ever.)
FillingEnds ==
    <>[](session = "up" /\ "null" \notin world.disturb) => <>[]({"backfill", "fill"} \subseteq latched)

-----------------------------------------------------------------------------
(* Small instances for TLC.                                                *)

Instance(pools, jobs, blank, disturb) ==
    [pools |-> pools, jobs |-> jobs, blank |-> blank, disturb |-> disturb]

\* One job at a time through all that can happen to a session, and overlapping
\* jobs of one pool.
SomeWorlds ==
    {Instance({"A", "B"}, {"j1"}, {}, {"restart", "demo", "null"}),
     Instance({"A"}, {"j1"}, {}, {"reconnect", "unwritten", "null"}),
     Instance({"A"}, {"j1"}, {}, {"restart", "unread", "null"}),
     Instance({"A"}, {"j1", "j2"}, {1}, {"restart", "fail", "demo", "unread"}),
     Instance({"A"}, {"j1", "j2"}, {2}, {"reconnect", "force"})}
=============================================================================
