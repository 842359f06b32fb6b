-------------------------- MODULE EpochCacheProofs --------------------------
(***************************************************************************)
(* That a stored version vouches for every row, that a real reward stays,  *)
(* and that no epoch is tried more often than it should be, for any pools, *)
(* epochs, jobs and circumstances.                                         *)
(*                                                                         *)
(* The first two rest on the same fact: while nothing but a restart ends a *)
(* session, a job that runs has its session, so the pool it reads under is *)
(* the pool it writes under, and the cache is that pool's.  The third      *)
(* counts, for each epoch, the tries made and the fillers about to try.    *)
(***************************************************************************)
EXTENDS EpochCache, FiniteSetTheorems, TLAPS

JobRecord ==
    [kind : Kinds \cup {"none"}, pc : {"off", "fetch", "next", "write"}, of : Keys,
     todo : SUBSET Epochs, data : [Epochs -> MaybeRow],
     epoch : Epochs \cup {0}, row : MaybeRow, blind : BOOLEAN]

Typed ==
    /\ world \in Worlds
    /\ rows \in [Keys -> [Epochs -> MaybeRow]]
    /\ pool \in Keys /\ cachePool \in Keys /\ bech \in Keys
    /\ job \in [Jobs -> JobRecord]

\* A job that runs is of a pool; what it is about to write is a row; the rows the
\* filler works on were there when it read them.
JobSound(j) ==
    job[j].pc # "off" =>
        /\ job[j].of \in Pools
        /\ job[j].pc = "write" => job[j].row \in Row /\ job[j].epoch \in Epochs
        /\ job[j].kind = "fill" /\ job[j].pc \in {"next", "write"} =>
               \A e \in job[j].todo : job[j].data[e] \in Row

\* The circumstances VersionMeansAllRows is about.
Tame == world.disturb \cap {"reconnect", "unwritten"} = {}

\* A session has a pool, and while it is up the cache is the pool's.
SessionSound ==
    /\ session \in {"opening", "up"} => pool \in Pools
    /\ session = "up" => cachePool = pool
    /\ Tame /\ version => cachePool # NoPool

Sound == Typed /\ SessionSound /\ \A j \in Jobs : JobSound(j)

\* No job outlives its session, unless the operator disconnects.
JobHasSession(j) ==
    "reconnect" \notin world.disturb /\ job[j].pc # "off" => session = "up"

\* The row of this epoch is there or still to be written by j.
Covered(j, e) ==
    \/ rows[pool][e] # NoRow
    \/ e \in job[j].todo
    \/ job[j].pc = "write" /\ job[j].epoch = e

BackfillCovers(j) ==
    Tame /\ job[j].kind = "backfill" /\ job[j].pc \in {"next", "write"} =>
        \A e \in Epochs : Covered(j, e)

\* What j writes next is no poorer than what it replaces, if j is the only job and
\* read what it replaces.
RewardCarried(j) ==
    world.jobs = {j} /\ "reconnect" \notin world.disturb /\ job[j].pc = "write"
    /\ ~job[j].blind =>
        (rows[pool][job[j].epoch].reward => job[j].row.reward)

\* A job that does not belong to the circumstance never runs.
OthersOff(j) == j \notin world.jobs => job[j].pc = "off"

JobInv(j) == JobHasSession(j) /\ BackfillCovers(j) /\ RewardCarried(j) /\ OthersOff(j)

IInv == Sound /\ VersionMeansAllRows /\ \A j \in Jobs : JobInv(j)

-----------------------------------------------------------------------------
(* The data.                                                               *)

LEMMA RowFacts ==
    /\ NoRow \notin Row /\ NoRow \in MaybeRow /\ Row \subseteq MaybeRow
    /\ NoRows \in [Epochs -> MaybeRow]
    /\ Off \in JobRecord /\ Empty \in [Keys -> [Epochs -> MaybeRow]]
<1>1. NoRow \notin Row
  BY NoPoolAssumption DEF NoRow, Row
<1>2. NoRow \in MaybeRow /\ Row \subseteq MaybeRow
  BY DEF MaybeRow
<1>3. NoRows \in [Epochs -> MaybeRow]
  BY <1>2 DEF NoRows
<1> QED
  BY <1>1, <1>2, <1>3 DEF Off, JobRecord, Empty, Keys

\* Merging keeps a row a row, and a real reward.
LEMMA MergeKeeps ==
    ASSUME NEW row \in Row, NEW prev \in MaybeRow
    PROVE  Merge(row, prev) \in Row /\ (prev.reward => Merge(row, prev).reward)
<1>1. prev.reward \in BOOLEAN
  <2>1. CASE prev \in Row
    BY <2>1 DEF Row
  <2>2. CASE prev = NoRow
    BY <2>2 DEF NoRow
  <2> QED
    BY <2>1, <2>2 DEF MaybeRow
<1> QED
  BY <1>1 DEF Merge, Row

-----------------------------------------------------------------------------
(* Steps that change one job and neither the session nor a row.            *)

\* If that job and the version keep their parts, everything is kept.
LEMMA OneJobMoves ==
    ASSUME IInv, NEW j \in Jobs, NEW b \in JobRecord,
           job' = [job EXCEPT ![j] = b],
           UNCHANGED <<world, rows, cachePool, session, pool>>, bech' \in Keys,
           Tame /\ version' => cachePool # NoPool, VersionMeansAllRows',
           JobSound(j)', JobInv(j)'
    PROVE  IInv'
<1>1. /\ job' \in [Jobs -> JobRecord]
      /\ \A k \in Jobs \ {j} : job'[k] = job[k]
  BY DEF IInv, Sound, Typed
<1>2. Typed'
  BY <1>1 DEF IInv, Sound, Typed
<1>3. SessionSound'
  BY DEF IInv, Sound, SessionSound, Tame
<1>4. ASSUME NEW k \in Jobs \ {j}
      PROVE  JobSound(k)' /\ JobInv(k)'
  <2>1. JobSound(k) /\ JobInv(k) /\ job'[k] = job[k]
    BY <1>1 DEF IInv, Sound
  <2>2. JobSound(k)'
    BY <2>1 DEF JobSound
  <2>3. JobHasSession(k)' /\ OthersOff(k)'
    BY <2>1 DEF JobInv, JobHasSession, OthersOff
  <2>4. BackfillCovers(k)'
    BY <2>1 DEF JobInv, BackfillCovers, Covered, Tame
  <2>5. RewardCarried(k)'
    BY <2>1 DEF JobInv, RewardCarried
  <2> QED
    BY <2>2, <2>3, <2>4, <2>5 DEF JobInv
<1> QED
  BY <1>2, <1>3, <1>4 DEF IInv, Sound

\* A job ends.
LEMMA EndStep ==
    ASSUME IInv, NEW j \in Jobs, job' = [job EXCEPT ![j] = Off],
           UNCHANGED <<world, rows, cachePool, session, pool>>, bech' \in Keys,
           Tame /\ version' => cachePool # NoPool, VersionMeansAllRows'
    PROVE  IInv'
<1>1. job'[j] = Off
  BY DEF IInv, Sound, Typed
<1>2. Off.pc = "off"
  BY DEF Off
<1>3. JobSound(j)' /\ JobInv(j)'
  BY <1>1, <1>2 DEF JobSound, JobInv, JobHasSession, BackfillCovers, RewardCarried, OthersOff
<1> QED
  BY <1>1, <1>3, RowFacts, OneJobMoves

\* A job begins, with a pool and in its circumstance.
LEMMA BeginStep ==
    ASSUME IInv, NEW j \in Jobs, NEW kind \in Kinds, Begin(j, kind),
           UNCHANGED <<world, rows, cachePool, session, pool>>,
           Tame /\ version' => cachePool # NoPool, VersionMeansAllRows',
           bech # NoPool \/ pool # NoPool, j \in world.jobs,
           "reconnect" \notin world.disturb => session = "up"
    PROVE  IInv'
<1> DEFINE b == [Off EXCEPT !.kind = kind, !.pc = "fetch", !.of = bech']
<1>1. bech' \in Pools
  BY DEF Begin, IInv, Sound, Typed, Keys
<1>2. b \in JobRecord /\ b.pc = "fetch" /\ b.of = bech'
  BY <1>1, RowFacts DEF JobRecord, Keys, Off
<1>3. job' = [job EXCEPT ![j] = b]
  BY DEF Begin
<1>4. job'[j] = b
  BY <1>3 DEF IInv, Sound, Typed
<1> HIDE DEF b
<1>5. JobSound(j)'
  BY <1>1, <1>2, <1>4 DEF JobSound
<1>6. JobInv(j)'
  BY <1>2, <1>4 DEF JobInv, JobHasSession, BackfillCovers, RewardCarried, OthersOff
<1> QED
  BY <1>1, <1>2, <1>3, <1>5, <1>6, OneJobMoves DEF Keys

\* What a step leaves alone when it leaves the version and the rows.
LEMMA VersionKept ==
    ASSUME IInv, UNCHANGED <<world, rows, version, cachePool>>
    PROVE  (Tame /\ version' => cachePool # NoPool) /\ VersionMeansAllRows' /\ bech \in Keys
BY DEF IInv, Sound, Typed, SessionSound, Tame, VersionMeansAllRows

\* A step that touches none of this.
LEMMA Unmoved ==
    ASSUME IInv, UNCHANGED <<world, rows, version, cachePool, session, pool, bech, job>>
    PROVE  IInv'
BY DEF IInv, Sound, Typed, SessionSound, JobSound, JobInv, JobHasSession, BackfillCovers,
       Covered, Tame, RewardCarried, OthersOff, VersionMeansAllRows

LEMMA StartStep ==
    ASSUME IInv, NEW j \in Jobs, NEW kind \in Kinds, Start(j, kind)
    PROVE  IInv'
<1>1. /\ UNCHANGED <<world, rows, version, cachePool, session, pool>>
      /\ j \in world.jobs /\ session = "up"
  BY DEF Start, stored, link
<1>2. (Tame /\ version' => cachePool # NoPool) /\ VersionMeansAllRows' /\ bech \in Keys
  BY <1>1, VersionKept
<1>3. CASE Begin(j, kind)
  <2>1. pool # NoPool
    BY <1>1, NoPoolAssumption DEF IInv, Sound, SessionSound
  <2> QED
    BY <1>1, <1>2, <1>3, <2>1, BeginStep
<1>4. CASE UNCHANGED <<bech, inFlight, job>>
  BY <1>1, <1>4, Unmoved
<1> QED
  BY <1>3, <1>4 DEF Start

\* A step of a running job, none of whose parts is a row or the session.
LEMMA JobGoesOn ==
    ASSUME IInv, NEW j \in Jobs, job[j].pc # "off", NEW b \in JobRecord,
           job' = [job EXCEPT ![j] = b], b.of = job[j].of,
           UNCHANGED <<world, rows, version, cachePool, session, pool, bech>>,
           b.pc = "write" => b.row \in Row /\ b.epoch \in Epochs,
           b.kind = "fill" /\ b.pc \in {"next", "write"} => \A e \in b.todo : b.data[e] \in Row,
           b.kind = "backfill" /\ b.pc \in {"next", "write"} /\ Tame =>
               \A e \in Epochs : \/ rows[pool][e] # NoRow \/ e \in b.todo
                                 \/ b.pc = "write" /\ b.epoch = e,
           b.pc = "write" /\ ~b.blind => (rows[pool][b.epoch].reward => b.row.reward)
    PROVE  IInv'
<1>1. job'[j] = b
  BY DEF IInv, Sound, Typed
<1>2. (Tame /\ version' => cachePool # NoPool) /\ VersionMeansAllRows' /\ bech' \in Keys
  BY VersionKept
<1>3. JobSound(j)'
  BY <1>1 DEF JobSound, IInv, Sound
<1>4. BackfillCovers(j)'
  BY <1>1 DEF BackfillCovers, Covered, Tame
<1>5. RewardCarried(j)'
  BY <1>1 DEF RewardCarried
<1>6. JobHasSession(j)' /\ OthersOff(j)'
  BY <1>1 DEF JobHasSession, OthersOff, IInv, JobInv
<1> QED
  BY <1>2, <1>3, <1>4, <1>5, <1>6, OneJobMoves DEF JobInv

LEMMA FetchHistoryStep ==
    ASSUME IInv, NEW j \in Jobs, FetchHistory(j)
    PROVE  IInv'
<1> DEFINE todo == IF job[j].kind = "backfill" THEN Epochs ELSE {Newest}
           b == [job[j] EXCEPT !.pc = "next", !.todo = todo]
<1>1. todo \subseteq Epochs
  BY EpochsAssumption
<1>2. job[j] \in JobRecord
  BY DEF IInv, Sound, Typed
<1>3. /\ b \in JobRecord /\ b.pc = "next" /\ b.of = job[j].of
      /\ b.kind = job[j].kind /\ b.todo = todo
  BY <1>1, <1>2 DEF JobRecord
<1>4. job' = [job EXCEPT ![j] = b]
  BY DEF FetchHistory
<1>5. job[j].pc = "fetch" /\ job[j].kind \in {"backfill", "recent"}
  BY DEF FetchHistory, At
<1>6. UNCHANGED <<world, rows, version, cachePool, session, pool, bech>>
  BY DEF FetchHistory, stored, link, flags
<1>7. b.kind = "backfill" => b.todo = Epochs
  BY <1>3
<1> HIDE DEF b, todo
<1> QED
  BY <1>3, <1>4, <1>5, <1>6, <1>7, JobGoesOn

LEMMA FetchMissingStep ==
    ASSUME IInv, NEW j \in Jobs, FetchMissing(j)
    PROVE  IInv'
<1>1. UNCHANGED <<world, rows, version, cachePool, session, pool, bech>>
  BY DEF FetchMissing, stored, link
<1>2. (Tame /\ version' => cachePool # NoPool) /\ VersionMeansAllRows' /\ bech' \in Keys
  BY <1>1, VersionKept
<1>3. CASE End(j)
  BY <1>1, <1>2, <1>3, EndStep DEF End
<1>4. ASSUME NEW found \in SUBSET Epochs,
             job' = [job EXCEPT ![j].pc = "next", ![j].todo = found]
      PROVE  IInv'
  <2> DEFINE b == [job[j] EXCEPT !.pc = "next", !.todo = found]
  <2>1. job[j] \in JobRecord
    BY DEF IInv, Sound, Typed
  <2>2. b \in JobRecord /\ b.pc = "next" /\ b.of = job[j].of /\ b.kind = job[j].kind
    BY <2>1 DEF JobRecord
  <2>3. job' = [job EXCEPT ![j] = b]
    BY <1>4
  <2>4. job[j].pc = "fetch" /\ job[j].kind = "reconcile"
    BY DEF FetchMissing, At
  <2> HIDE DEF b
  <2> QED
    BY <1>1, <2>2, <2>3, <2>4, JobGoesOn
<1>5. Lacks("reward") \subseteq Epochs
  BY DEF Lacks
<1> QED
  BY <1>3, <1>4, <1>5 DEF FetchMissing

LEMMA FetchGapsStep ==
    ASSUME IInv, NEW j \in Jobs, FetchGaps(j)
    PROVE  IInv'
<1> DEFINE need == {e \in Lacks("ideal") : ~GivenUp(e)}
<1>1. UNCHANGED <<world, rows, version, cachePool, session, pool, bech>>
  BY DEF FetchGaps, stored, link
<1>2. (Tame /\ version' => cachePool # NoPool) /\ VersionMeansAllRows' /\ bech' \in Keys
  BY <1>1, VersionKept
<1>3. CASE End(j)
  BY <1>1, <1>2, <1>3, EndStep DEF End
<1>4. ASSUME job' = [job EXCEPT ![j].pc = "next", ![j].todo = need, ![j].data = rows[pool]]
      PROVE  IInv'
  <2> DEFINE b == [job[j] EXCEPT !.pc = "next", !.todo = need, !.data = rows[pool]]
  <2>1. job[j] \in JobRecord /\ rows[pool] \in [Epochs -> MaybeRow]
    BY DEF IInv, Sound, Typed
  <2>2. need \subseteq Epochs /\ \A e \in need : rows[pool][e] # NoRow
    BY DEF Lacks
  <2>3. /\ b \in JobRecord /\ b.pc = "next" /\ b.of = job[j].of /\ b.kind = job[j].kind
        /\ b.todo = need /\ b.data = rows[pool]
    BY <2>1, <2>2 DEF JobRecord
  <2>4. job' = [job EXCEPT ![j] = b]
    BY <1>4
  <2>5. job[j].pc = "fetch" /\ job[j].kind = "fill"
    BY DEF FetchGaps, At
  <2>6. \A e \in need : rows[pool][e] \in Row
    BY <2>1, <2>2 DEF MaybeRow
  <2> HIDE DEF b, need
  <2> QED
    BY <1>1, <2>3, <2>4, <2>5, <2>6, JobGoesOn
<1> QED
  BY <1>3, <1>4 DEF FetchGaps

LEMMA FetchFailsStep ==
    ASSUME IInv, NEW j \in Jobs, FetchFails(j)
    PROVE  IInv'
BY VersionKept, EndStep DEF FetchFails, End, stored, link

LEMMA FetchUnreadStep ==
    ASSUME IInv, NEW j \in Jobs, FetchUnread(j)
    PROVE  IInv'
BY VersionKept, EndStep DEF FetchUnread, End, stored, link

\* What is about to be written is a row, and no poorer than what it replaces unless
\* that could not be read.
LEMMA ReadRowStep ==
    ASSUME IInv, NEW j \in Jobs, ReadRow(j)
    PROVE  IInv'
<1>1. /\ job[j] \in JobRecord /\ job[j].todo \subseteq Epochs
      /\ job[j].pc = "next" /\ job[j].of \in Pools
      /\ rows[pool] \in [Epochs -> MaybeRow]
  BY DEF ReadRow, At, IInv, Sound, Typed, JobSound, JobRecord
<1>2. PICK e \in FirstOf(j), unread \in BOOLEAN :
        \E row \in IF job[j].kind = "fill" THEN Completed(j, e) ELSE Fetched(j, e) :
          job' = [job EXCEPT ![j] = ToWrite(j, e, row, unread)]
  BY DEF ReadRow
<1>3. PICK row \in IF job[j].kind = "fill" THEN Completed(j, e) ELSE Fetched(j, e) :
        job' = [job EXCEPT ![j] = ToWrite(j, e, row, unread)]
  BY <1>2
<1>4. e \in job[j].todo /\ e \in Epochs
  BY <1>1 DEF FirstOf
<1>5. row \in Row
  <2>1. CASE job[j].kind = "fill"
    <3>1. job[j].data[e] \in Row
      BY <1>1, <1>4, <2>1 DEF IInv, Sound, JobSound
    <3>2. row = [job[j].data[e] EXCEPT !.ideal = TRUE]
      BY <1>3, <2>1 DEF Completed
    <3> QED
      BY <3>1, <3>2 DEF Row
  <2>2. CASE job[j].kind # "fill"
    <3>1. row \in Fetched(j, e)
      BY <1>3, <2>2
    <3>2. Answers \subseteq BOOLEAN
      BY DEF Answers
    <3> QED
      BY <1>1, <3>1, <3>2 DEF Fetched, Row
  <2> QED
    BY <2>1, <2>2
<1> DEFINE merged == IF unread THEN row ELSE Merge(row, rows[pool][e])
           b == ToWrite(j, e, row, unread)
<1>6. merged \in Row /\ (~unread => (rows[pool][e].reward => merged.reward))
  BY <1>1, <1>4, <1>5, MergeKeeps
<1>7. job' = [job EXCEPT ![j] = b]
  BY <1>3
<1>12. b = [job[j] EXCEPT !.pc = "write", !.epoch = e, !.todo = @ \ {e}, !.blind = unread,
                          !.row = merged]
  BY DEF ToWrite
<1> HIDE DEF merged, b
<1>8. /\ b \in JobRecord /\ b.pc = "write" /\ b.of = job[j].of /\ b.kind = job[j].kind
      /\ b.row = merged /\ b.epoch = e /\ b.todo = job[j].todo \ {e} /\ b.data = job[j].data
      /\ b.blind = unread
  BY <1>1, <1>4, <1>6, <1>12, RowFacts DEF JobRecord
<1>9. b.kind = "backfill" /\ Tame =>
        \A d \in Epochs : rows[pool][d] # NoRow \/ d \in b.todo \/ b.epoch = d
  BY <1>1, <1>8 DEF IInv, JobInv, BackfillCovers, Covered
<1>10. b.kind = "fill" => \A d \in b.todo : b.data[d] \in Row
  BY <1>1, <1>8 DEF IInv, Sound, JobSound
<1>11. UNCHANGED <<world, rows, version, cachePool, session, pool, bech>>
  BY DEF ReadRow, stored, link, flags
<1> QED
  BY <1>1, <1>4, <1>6, <1>7, <1>8, <1>9, <1>10, <1>11, JobGoesOn

LEMMA CountAttemptStep ==
    ASSUME IInv, NEW j \in Jobs, CountAttempt(j)
    PROVE  IInv'
<1>1. /\ job[j] \in JobRecord /\ job[j].pc = "next" /\ job[j].kind = "fill"
  BY DEF CountAttempt, At, IInv, Sound, Typed
<1>2. PICK e \in FirstOf(j) : job' = [job EXCEPT ![j].todo = @ \ {e}]
  BY DEF CountAttempt
<1> DEFINE b == [job[j] EXCEPT !.todo = @ \ {e}]
<1>3. job' = [job EXCEPT ![j] = b]
  BY <1>2
<1>4. /\ b \in JobRecord /\ b.pc = "next" /\ b.of = job[j].of /\ b.kind = "fill"
      /\ b.todo = job[j].todo \ {e} /\ b.data = job[j].data
  BY <1>1 DEF JobRecord
<1>5. \A d \in job[j].todo : job[j].data[d] \in Row
  BY <1>1 DEF IInv, Sound, JobSound
<1>6. UNCHANGED <<world, rows, version, cachePool, session, pool, bech>>
  BY DEF CountAttempt, stored, link
<1> HIDE DEF b
<1> QED
  BY <1>1, <1>3, <1>4, <1>5, <1>6, JobGoesOn

LEMMA QuiesceStep ==
    ASSUME IInv, NEW j \in Jobs, Quiesce(j)
    PROVE  IInv'
<1>1. UNCHANGED <<world, rows, version, cachePool, session, pool, bech>>
  BY DEF Quiesce, stored, link
<1>2. CASE End(j)
  BY <1>1, <1>2, VersionKept, EndStep DEF End
<1>3. CASE job[j].kind \notin {"backfill", "fill"} /\ job' = [job EXCEPT ![j].todo = {}]
  <2> DEFINE b == [job[j] EXCEPT !.todo = {}]
  <2>1. job[j] \in JobRecord /\ job[j].pc = "next"
    BY DEF Quiesce, At, IInv, Sound, Typed
  <2>2. b \in JobRecord /\ b.pc = "next" /\ b.of = job[j].of /\ b.kind = job[j].kind
    BY <2>1 DEF JobRecord
  <2>3. job' = [job EXCEPT ![j] = b]
    BY <1>3
  <2> HIDE DEF b
  <2> QED
    BY <1>1, <1>3, <2>1, <2>2, <2>3, JobGoesOn
<1> QED
  BY <1>2, <1>3 DEF Quiesce

\* The version is stored by a backfill whose session it still is: the cache is the
\* pool's, and nothing is left to be written.
LEMMA CloseStep ==
    ASSUME IInv, NEW j \in Jobs, Close(j)
    PROVE  IInv'
<1>1. /\ UNCHANGED <<world, rows, cachePool, session, pool>>
      /\ job[j].pc = "next" /\ job[j].todo = {}
  BY DEF Close, link, At, LastRow
<1>2. (Tame /\ version' => cachePool # NoPool) /\ VersionMeansAllRows'
  <2>1. CASE version' = version
    BY <1>1, <2>1, VersionKept
  <2>2. CASE version' # version
    <3>1. job[j].kind = "backfill"
      BY <2>2 DEF Close
    <3>2. Tame => cachePool = pool /\ pool \in Pools
      BY <1>1 DEF Tame, IInv, Sound, SessionSound, JobInv, JobHasSession
    <3>3. Tame => \A e \in Epochs : rows[pool][e] # NoRow
      BY <1>1, <3>1 DEF IInv, JobInv, BackfillCovers, Covered
    <3> QED
      BY <1>1, <3>2, <3>3, NoPoolAssumption DEF VersionMeansAllRows, Tame
  <2> QED
    BY <2>1, <2>2
<1>3. CASE ReconcileDue /\ Begin(j, "reconcile")
  <2>1. j \in world.jobs /\ ("reconnect" \notin world.disturb => session = "up")
    BY <1>1 DEF IInv, JobInv, JobHasSession, OthersOff
  <2>2. bech # NoPool \/ pool # NoPool
    BY <1>3 DEF ReconcileDue
  <2>3. "reconcile" \in Kinds
    BY DEF Kinds
  <2> QED
    BY <1>1, <1>2, <1>3, <2>1, <2>2, <2>3, BeginStep
<1>4. CASE End(j) /\ UNCHANGED bech
  <2>1. bech' \in Keys
    BY <1>4 DEF IInv, Sound, Typed
  <2> QED
    BY <1>1, <1>2, <1>4, <2>1, EndStep DEF End
<1> QED
  BY <1>3, <1>4 DEF Close

-----------------------------------------------------------------------------
(* Steps that change a row or the session.                                 *)

\* A row is written and never erased; nobody else is about to write if j is the
\* only job.
LEMMA WriteRowStep ==
    ASSUME IInv, NEW j \in Jobs, WriteRow(j)
    PROVE  IInv'
<1> DEFINE b == [job[j] EXCEPT !.pc = "next", !.row = NoRow, !.epoch = 0, !.blind = FALSE]
<1>1. /\ job[j] \in JobRecord /\ job[j].pc = "write" /\ pool \in Keys
      /\ job[j].row \in Row /\ job[j].epoch \in Epochs
      /\ rows \in [Keys -> [Epochs -> MaybeRow]]
  BY DEF WriteRow, At, IInv, Sound, Typed, JobSound
<1>2. UNCHANGED <<world, version, cachePool, session, pool, bech>>
  BY DEF WriteRow, link
<1>3. job' = [job EXCEPT ![j] = b]
  BY DEF WriteRow
<1>4. /\ b \in JobRecord /\ b.pc = "next" /\ b.of = job[j].of /\ b.kind = job[j].kind
      /\ b.todo = job[j].todo /\ b.data = job[j].data
  BY <1>1, RowFacts DEF JobRecord
<1> HIDE DEF b
<1>5. /\ job' \in [Jobs -> JobRecord] /\ job'[j] = b
      /\ \A k \in Jobs \ {j} : job'[k] = job[k]
  BY <1>3, <1>4 DEF IInv, Sound, Typed
<1>6. /\ rows' \in [Keys -> [Epochs -> MaybeRow]]
      /\ \A p \in Keys, e \in Epochs : rows[p][e] # NoRow => rows'[p][e] # NoRow
      /\ Tame => rows'[pool][job[j].epoch] # NoRow
  <2>1. CASE rows' = [rows EXCEPT ![pool][job[j].epoch] = job[j].row]
    BY <1>1, <2>1, RowFacts
  <2>2. CASE Disturbed("unwritten") /\ UNCHANGED rows
    BY <1>1, <2>2 DEF Disturbed, Tame
  <2> QED
    BY <2>1, <2>2 DEF WriteRow
<1>7. Typed' /\ SessionSound'
  BY <1>2, <1>5, <1>6 DEF IInv, Sound, Typed, SessionSound, Tame
<1>8. VersionMeansAllRows'
  BY <1>2, <1>6 DEF IInv, Sound, Typed, VersionMeansAllRows
<1>9. JobSound(j)' /\ JobInv(j)'
  <2>1. JobSound(j)'
    BY <1>1, <1>4, <1>5 DEF IInv, Sound, JobSound
  <2>2. JobHasSession(j)' /\ OthersOff(j)' /\ RewardCarried(j)'
    BY <1>1, <1>2, <1>4, <1>5 DEF IInv, JobInv, JobHasSession, OthersOff, RewardCarried
  <2>3. BackfillCovers(j)'
    BY <1>1, <1>2, <1>4, <1>5, <1>6 DEF IInv, JobInv, BackfillCovers, Covered, Tame
  <2> QED
    BY <2>1, <2>2, <2>3 DEF JobInv
<1>10. ASSUME NEW k \in Jobs \ {j}
       PROVE  JobSound(k)' /\ JobInv(k)'
  <2>1. job'[k] = job[k] /\ JobSound(k) /\ JobInv(k)
    BY <1>5 DEF IInv, Sound
  <2>2. JobSound(k)' /\ JobHasSession(k)' /\ OthersOff(k)'
    BY <1>2, <2>1 DEF JobSound, JobInv, JobHasSession, OthersOff
  <2>3. BackfillCovers(k)'
    BY <1>1, <1>2, <1>6, <2>1 DEF JobInv, BackfillCovers, Covered, Tame
  <2>4. world.jobs # {k}
    BY <1>1 DEF IInv, JobInv, OthersOff
  <2> QED
    BY <1>2, <2>2, <2>3, <2>4 DEF JobInv, RewardCarried
<1> QED
  BY <1>7, <1>8, <1>9, <1>10 DEF IInv, Sound

\* The steps of the session leave the jobs alone or end them all; between two
\* sessions none runs, unless the operator disconnected.
LEMMA BetweenSessions ==
    ASSUME IInv, NEW j \in Jobs, session # "up", UNCHANGED <<world, job>>
    PROVE  JobSound(j)' /\ JobInv(j)'
<1>1. JobSound(j) /\ JobInv(j)
  BY DEF IInv, Sound
<1> QED
  BY <1>1 DEF JobSound, JobInv, JobHasSession, BackfillCovers, Tame, RewardCarried, OthersOff

LEMMA ConnectStep ==
    ASSUME IInv, NEW p \in Pools, Connect(p)
    PROVE  IInv'
<1>1. /\ session = "down" /\ session' = "opening" /\ pool' = p
      /\ UNCHANGED <<world, rows, version, cachePool, bech, job>>
  BY DEF Connect, stored, flags
<1>2. Typed' /\ SessionSound' /\ VersionMeansAllRows'
  BY <1>1 DEF IInv, Sound, Typed, SessionSound, Keys, Tame, VersionMeansAllRows
<1> QED
  BY <1>1, <1>2, BetweenSessions DEF IInv, Sound

LEMMA ClearOtherStep ==
    ASSUME IInv, ClearOther
    PROVE  IInv'
<1>1. /\ session = "opening" /\ rows' = Empty /\ version' = FALSE /\ cachePool' = NoPool
      /\ UNCHANGED <<world, session, pool, bech, job>>
  BY DEF ClearOther, link, flags
<1>2. Typed' /\ SessionSound' /\ VersionMeansAllRows'
  BY <1>1, RowFacts DEF IInv, Sound, Typed, SessionSound, Keys, VersionMeansAllRows
<1> QED
  BY <1>1, <1>2, BetweenSessions DEF IInv, Sound

LEMMA ClaimCacheStep ==
    ASSUME IInv, ClaimCache
    PROVE  IInv'
<1>1. /\ session = "opening" /\ session' = "up" /\ cachePool' = pool
      /\ cachePool \in {NoPool, pool}
      /\ UNCHANGED <<world, rows, version, pool, bech, job>>
  BY DEF ClaimCache, flags
<1>2. pool \in Pools
  BY <1>1 DEF IInv, Sound, SessionSound
<1>3. Typed' /\ SessionSound'
  BY <1>1, <1>2, NoPoolAssumption DEF IInv, Sound, Typed, SessionSound, Keys
<1>4. VersionMeansAllRows'
  BY <1>1 DEF IInv, Sound, SessionSound, Tame, VersionMeansAllRows
<1> QED
  BY <1>1, <1>3, <1>4, BetweenSessions DEF IInv, Sound

LEMMA DisconnectStep ==
    ASSUME IInv, Disconnect
    PROVE  IInv'
<1>1. /\ session' = "down" /\ pool' = NoPool /\ bech' = NoPool
      /\ "reconnect" \in world.disturb
      /\ UNCHANGED <<world, rows, version, cachePool, job>>
  BY DEF Disconnect, Disturbed, stored
<1>2. Typed' /\ SessionSound' /\ VersionMeansAllRows'
  BY <1>1 DEF IInv, Sound, Typed, SessionSound, Keys, Tame, VersionMeansAllRows
<1>3. ASSUME NEW j \in Jobs
      PROVE  JobSound(j)' /\ JobInv(j)'
  <2>1. JobSound(j) /\ JobInv(j)
    BY DEF IInv, Sound
  <2> QED
    BY <1>1, <2>1 DEF JobSound, JobInv, JobHasSession, BackfillCovers, Tame, RewardCarried,
                      OthersOff
<1> QED
  BY <1>2, <1>3 DEF IInv, Sound

LEMMA RestartStep ==
    ASSUME IInv, Restart
    PROVE  IInv'
<1>1. /\ session' = "down" /\ pool' = NoPool /\ bech' = NoPool
      /\ job' = [j \in Jobs |-> Off]
      /\ UNCHANGED <<world, rows, version, cachePool>>
  BY DEF Restart, stored
<1>2. Typed' /\ SessionSound' /\ VersionMeansAllRows'
  BY <1>1, RowFacts DEF IInv, Sound, Typed, SessionSound, Keys, Tame, VersionMeansAllRows
<1>3. ASSUME NEW j \in Jobs
      PROVE  JobSound(j)' /\ JobInv(j)'
  BY <1>1 DEF Off, JobSound, JobInv, JobHasSession, BackfillCovers, RewardCarried, OthersOff
<1> QED
  BY <1>2, <1>3 DEF IInv, Sound

-----------------------------------------------------------------------------
(* The specification.                                                      *)

LEMMA InitInv == Init => IInv
<1> SUFFICES ASSUME Init PROVE IInv
  OBVIOUS
<1>1. Typed /\ SessionSound /\ VersionMeansAllRows
  BY RowFacts DEF Init, Typed, SessionSound, Keys, VersionMeansAllRows
<1>2. ASSUME NEW j \in Jobs
      PROVE  JobSound(j) /\ JobInv(j)
  BY DEF Init, Off, JobSound, JobInv, JobHasSession, BackfillCovers, RewardCarried, OthersOff
<1> QED
  BY <1>1, <1>2 DEF IInv, Sound

LEMMA JobStepInv ==
    ASSUME IInv, NEW j \in Jobs, JobStep(j)
    PROVE  IInv'
BY FetchHistoryStep, FetchMissingStep, FetchGapsStep, FetchFailsStep, FetchUnreadStep, ReadRowStep,
   CountAttemptStep, WriteRowStep, QuiesceStep, CloseStep DEF JobStep

LEMMA NextInv ==
    ASSUME IInv, [Next]_vars
    PROVE  IInv'
<1>1. CASE UNCHANGED vars
  BY <1>1, Unmoved DEF vars, stored, link, flags
<1>2. CASE FlipMode \/ ForceRefresh
  BY <1>2, Unmoved DEF FlipMode, ForceRefresh, stored, link, flags
<1> QED
  BY <1>1, <1>2, StartStep, JobStepInv, ConnectStep, ClearOtherStep, ClaimCacheStep,
     DisconnectStep, RestartStep DEF Next

LEMMA InvHolds == Spec => []IInv
BY InitInv, NextInv, PTL DEF Spec

\* A stored backfill version vouches for every row of the cache's pool, through
\* restarts, demo visits, failing queries, overlapping jobs and changes of pool
\* (read-model.js, cachePutEpoch and the backfill's last lines).
THEOREM VersionIsTrue == Spec => []VersionMeansAllRows
BY InvHolds, PTL DEF IInv

\* RewardsStickAlone without its box.
RewardKept ==
    (\E j \in Jobs : world.jobs = {j}) /\ "reconnect" \notin world.disturb =>
        \A p \in Pools, e \in Epochs :
            rows[p][e].reward /\ rows'[p][e] # NoRow =>
                rows'[p][e].reward \/ \E j \in Jobs : WritesBlind(j)

LEMMA WriteKeepsReward ==
    ASSUME IInv, NEW k \in Jobs, WriteRow(k)
    PROVE  RewardKept
<1>1. SUFFICES ASSUME NEW j \in Jobs, world.jobs = {j}, "reconnect" \notin world.disturb,
                      NEW p \in Pools, NEW e \in Epochs, rows[p][e].reward,
                      \A i \in Jobs : ~WritesBlind(i)
               PROVE  rows'[p][e].reward
  BY DEF RewardKept
<1>2. job[k].pc = "write"
  BY DEF WriteRow, At
<1>3. k = j
  BY <1>1, <1>2 DEF IInv, JobInv, OthersOff
<1>4. rows[pool][job[k].epoch].reward => job[k].row.reward
  BY <1>1, <1>2, <1>3 DEF IInv, JobInv, RewardCarried, WritesBlind, At
<1>5. CASE rows' = [rows EXCEPT ![pool][job[k].epoch] = job[k].row]
  BY <1>1, <1>4, <1>5 DEF IInv, Sound, Typed, Keys
<1>6. CASE UNCHANGED rows
  BY <1>1, <1>6
<1> QED
  BY <1>5, <1>6 DEF WriteRow

LEMMA OthersKeepReward ==
    ASSUME IInv, [Next]_vars, \A k \in Jobs : ~WriteRow(k)
    PROVE  RewardKept
<1>1. CASE ClearOther
  BY <1>1 DEF ClearOther, Empty, NoRows, Keys, RewardKept
<1>2. CASE UNCHANGED rows
  BY <1>2 DEF RewardKept
<1>3. ASSUME NEW k \in Jobs, JobStep(k)
      PROVE  UNCHANGED rows
  BY <1>3 DEF JobStep, FetchHistory, FetchMissing, FetchGaps, FetchFails, FetchUnread,
              ReadRow, CountAttempt, Quiesce, Close, stored
<1>4. ASSUME NEW k \in Jobs, NEW kind \in Kinds, Start(k, kind)
      PROVE  UNCHANGED rows
  BY <1>4 DEF Start, stored
<1>5. ASSUME NEW p \in Pools, Connect(p)
      PROVE  UNCHANGED rows
  BY <1>5 DEF Connect, stored
<1>6. ASSUME ClaimCache \/ Disconnect \/ Restart \/ FlipMode \/ ForceRefresh \/ UNCHANGED vars
      PROVE  UNCHANGED rows
  BY <1>6 DEF ClaimCache, Disconnect, Restart, FlipMode, ForceRefresh, vars, stored
<1> QED
  BY <1>1, <1>2, <1>3, <1>4, <1>5, <1>6 DEF Next

\* While jobs do not run side by side and none outlives its connection, a real
\* reward is replaced by a null only in a write whose own read of the stored row
\* failed (read-model.js, cachePutEpoch and _REWARD_FIELDS).
THEOREM RewardsStickHolds == Spec => RewardsStickAlone
<1>1. IInv /\ [Next]_vars => [RewardKept]_vars
  BY WriteKeepsReward, OthersKeepReward
<1>2. RewardsStickAlone <=> [][RewardKept]_vars
  BY DEF RewardsStickAlone, RewardKept
<1> QED
  BY <1>1, <1>2, InvHolds, PTL DEF Spec
-----------------------------------------------------------------------------
(* The filler's tries.                                                     *)

\* The fillers that have yet to try this epoch.
Fillers(e) ==
    {j \in Jobs : job[j].kind = "fill" /\ job[j].pc \in {"next", "write"} /\ e \in job[j].todo}

Filling(j) == job[j].kind = "fill" /\ job[j].pc # "off"

\* One filler at a time, by its flag, unless the operator disconnects.
OneFiller ==
    "reconnect" \notin world.disturb =>
        \A j \in Jobs : Filling(j) =>
            "fill" \in inFlight /\ \A k \in Jobs : Filling(k) => k = j

\* What was tried and what is about to be tried.
TriesBounded ==
    /\ attempts \in [Epochs -> Nat]
    /\ \A e \in Epochs : attempts[e] + Cardinality(Fillers(e)) <= TriesBound

FlagsTyped ==
    /\ version \in BOOLEAN /\ session \in {"down", "opening", "up"} /\ mode \in {"live", "demo"}
    /\ latched \subseteq Kinds /\ inFlight \subseteq Kinds /\ disturbed \in 0..MaxDisturb

TriesInv == FlagsTyped /\ OneFiller /\ TriesBounded

LEMMA FillersFinite ==
    ASSUME NEW e
    PROVE  /\ IsFiniteSet(Fillers(e)) /\ Cardinality(Fillers(e)) \in Nat
           /\ Fillers(e) \subseteq Jobs
           /\ Cardinality(Fillers(e)) <= Cardinality(Jobs) /\ Cardinality(Jobs) \in Nat
<1>1. Fillers(e) \subseteq Jobs
  BY DEF Fillers
<1> QED
  BY <1>1, BoundsAssumption, FS_Subset, FS_CardinalityType

\* With no more tries and no more fillers to try, the bound is kept.
LEMMA TriesKept ==
    ASSUME TriesBounded, UNCHANGED world,
           attempts' \in [Epochs -> Nat], \A e \in Epochs : attempts'[e] <= attempts[e],
           \A e \in Epochs : Fillers(e)' \subseteq Fillers(e)
    PROVE  TriesBounded'
<1>1. TriesBound' = TriesBound /\ TriesBound \in Int
  BY FillersFinite DEF TriesBound, MaxAttempts
<1>2. ASSUME NEW e \in Epochs
      PROVE  attempts'[e] + Cardinality(Fillers(e)') <= TriesBound
  <2>1. /\ IsFiniteSet(Fillers(e)) /\ Cardinality(Fillers(e)) \in Nat
        /\ Fillers(e)' \subseteq Fillers(e)
    BY FillersFinite
  <2>2. Cardinality(Fillers(e)') <= Cardinality(Fillers(e)) /\ Cardinality(Fillers(e)') \in Nat
    BY <2>1, FS_Subset, FS_CardinalityType
  <2>3. attempts[e] + Cardinality(Fillers(e)) <= TriesBound
    BY DEF TriesBounded
  <2>4. attempts'[e] <= attempts[e] /\ attempts'[e] \in Nat /\ attempts[e] \in Nat
    BY DEF TriesBounded
  <2> QED
    BY <1>1, <2>1, <2>2, <2>3, <2>4
<1> QED
  BY <1>1, <1>2 DEF TriesBounded

\* A step of one job that begins no filling and counts no try.
LEMMA QuietMove ==
    ASSUME IInv, OneFiller, TriesBounded, NEW j \in Jobs, NEW b,
           job' = [job EXCEPT ![j] = b], UNCHANGED world,
           b.kind = "fill" /\ b.pc # "off" => Filling(j),
           b.kind = "fill" /\ b.pc \in {"next", "write"} =>
               job[j].pc \in {"next", "write"} /\ b.todo \subseteq job[j].todo,
           "fill" \in inFlight /\ ~(Filling(j) /\ b.pc = "off") => "fill" \in inFlight',
           attempts' \in [Epochs -> Nat], \A e \in Epochs : attempts'[e] <= attempts[e]
    PROVE  OneFiller' /\ TriesBounded'
<1>1. job'[j] = b /\ \A k \in Jobs \ {j} : job'[k] = job[k]
  BY DEF IInv, Sound, Typed
<1>2. \A k \in Jobs : Filling(k)' => Filling(k)
  BY <1>1 DEF Filling
<1>3. Filling(j) /\ b.pc = "off" => ~Filling(j)'
  BY <1>1 DEF Filling
<1>4. OneFiller'
  <2> SUFFICES ASSUME "reconnect" \notin world.disturb, NEW k \in Jobs, Filling(k)'
               PROVE  "fill" \in inFlight' /\ \A l \in Jobs : Filling(l)' => l = k
    BY DEF OneFiller
  <2>1. "fill" \in inFlight /\ \A l \in Jobs : Filling(l) => l = k
    BY <1>2 DEF OneFiller
  <2> QED
    BY <1>2, <1>3, <2>1
<1>5. \A e \in Epochs : Fillers(e)' \subseteq Fillers(e)
  <2> SUFFICES ASSUME NEW e \in Epochs, NEW k \in Fillers(e)'
               PROVE  k \in Fillers(e)
    OBVIOUS
  <2>1. k \in Jobs /\ job'[k].kind = "fill" /\ job'[k].pc \in {"next", "write"} /\ e \in job'[k].todo
    BY DEF Fillers
  <2>2. CASE k # j
    BY <1>1, <2>1, <2>2 DEF Fillers
  <2>3. CASE k = j
    <3>1. Filling(j) /\ job[j].pc \in {"next", "write"} /\ e \in job[j].todo
      BY <1>1, <2>1, <2>3
    <3> QED
      BY <2>3, <3>1 DEF Fillers, Filling
  <2> QED
    BY <2>2, <2>3
<1> QED
  BY <1>4, <1>5, TriesKept

\* No job changes.
LEMMA QuietRest ==
    ASSUME OneFiller, TriesBounded, UNCHANGED <<world, job>>,
           attempts' \in [Epochs -> Nat], \A e \in Epochs : attempts'[e] <= attempts[e],
           "reconnect" \in world.disturb \/ inFlight \subseteq inFlight'
    PROVE  OneFiller' /\ TriesBounded'
<1>1. \A e \in Epochs : Fillers(e)' \subseteq Fillers(e)
  BY DEF Fillers
<1>2. OneFiller'
  BY DEF OneFiller, Filling
<1> QED
  BY <1>1, <1>2, TriesKept

LEMMA EndQuiet ==
    ASSUME IInv, OneFiller, TriesBounded, NEW j \in Jobs, job[j].pc # "off", End(j),
           UNCHANGED <<world, attempts>>
    PROVE  OneFiller' /\ TriesBounded'
<1>1. job' = [job EXCEPT ![j] = Off] /\ Off.pc = "off" /\ inFlight' = inFlight \ {job[j].kind}
  BY DEF End, Release, Off
<1>2. "fill" \in inFlight /\ ~(Filling(j) /\ Off.pc = "off") => "fill" \in inFlight'
  BY <1>1 DEF Filling
<1>3. attempts' \in [Epochs -> Nat] /\ \A e \in Epochs : attempts'[e] <= attempts[e]
  BY DEF TriesBounded
<1> QED
  BY <1>1, <1>2, <1>3, QuietMove
\* A job begins: a filler only while none is in flight.
LEMMA BeginQuiet ==
    ASSUME IInv, OneFiller, TriesBounded, NEW j \in Jobs, NEW kind \in Kinds, Begin(j, kind),
           UNCHANGED <<world, attempts>>, ~Filling(j),
           "fill" \in inFlight => "fill" \in inFlight' /\ kind # "fill",
           kind = "fill" => "fill" \in inFlight'
    PROVE  OneFiller' /\ TriesBounded'
<1> DEFINE b == [Off EXCEPT !.kind = kind, !.pc = "fetch", !.of = bech']
<1>1. job' = [job EXCEPT ![j] = b] /\ b.pc = "fetch" /\ b.kind = kind
  BY DEF Begin, Off
<1> HIDE DEF b
<1>2. job'[j] = b /\ \A k \in Jobs \ {j} : job'[k] = job[k]
  BY <1>1 DEF IInv, Sound, Typed
<1>3. \A e \in Epochs : Fillers(e)' \subseteq Fillers(e)
  <2> SUFFICES ASSUME NEW e \in Epochs, NEW k \in Fillers(e)'
               PROVE  k \in Fillers(e)
    OBVIOUS
  <2>1. k # j /\ k \in Jobs
    BY <1>1, <1>2 DEF Fillers
  <2> QED
    BY <1>2, <2>1 DEF Fillers
<1>4. OneFiller'
  <2> SUFFICES ASSUME "reconnect" \notin world.disturb, NEW k \in Jobs, Filling(k)'
               PROVE  "fill" \in inFlight' /\ \A l \in Jobs : Filling(l)' => l = k
    BY DEF OneFiller
  <2>1. CASE kind = "fill"
    <3>1. \A l \in Jobs : ~Filling(l)
      BY <2>1 DEF OneFiller
    <3>2. \A l \in Jobs : Filling(l)' => l = j
      BY <1>2, <3>1 DEF Filling
    <3> QED
      BY <2>1, <3>2
  <2>2. CASE kind # "fill"
    <3>1. \A l \in Jobs : Filling(l)' => Filling(l)
      BY <1>1, <1>2, <2>2 DEF Filling
    <3> QED
      BY <3>1 DEF OneFiller
  <2> QED
    BY <2>1, <2>2
<1> QED
  BY <1>3, <1>4, TriesKept DEF TriesBounded

LEMMA StartQuiet ==
    ASSUME IInv, OneFiller, TriesBounded, NEW j \in Jobs, NEW kind \in Kinds, Start(j, kind)
    PROVE  OneFiller' /\ TriesBounded'
<1>1. UNCHANGED <<world, attempts>> /\ ~Filling(j) /\ kind \notin inFlight
  BY DEF Start, At, Filling
<1>2. CASE UNCHANGED <<bech, inFlight, job>>
  BY <1>1, <1>2, QuietRest DEF TriesBounded
<1>3. CASE Begin(j, kind) /\ inFlight' = inFlight \cup {kind}
  BY <1>1, <1>3, BeginQuiet
<1> QED
  BY <1>2, <1>3 DEF Start

\* The filler takes up the epochs not given up: at most the other jobs, or none
\* while the flag holds, are about to try them too.
LEMMA FetchGapsTries ==
    ASSUME IInv, OneFiller, TriesBounded, NEW j \in Jobs, FetchGaps(j)
    PROVE  OneFiller' /\ TriesBounded'
<1> DEFINE need == {e \in Lacks("ideal") : ~GivenUp(e)}
           b == [job[j] EXCEPT !.pc = "next", !.todo = need, !.data = rows[pool]]
<1>1. /\ UNCHANGED <<world, attempts>> /\ job[j].pc = "fetch" /\ job[j].kind = "fill"
      /\ job[j] \in JobRecord
  BY DEF FetchGaps, At, IInv, Sound, Typed
<1>2. CASE End(j)
  BY <1>1, <1>2, EndQuiet
<1>3. CASE job' = [job EXCEPT ![j].pc = "next", ![j].todo = need, ![j].data = rows[pool]]
           /\ UNCHANGED inFlight
  <2>1. job' = [job EXCEPT ![j] = b]
    BY <1>3
  <2>2. b.pc = "next" /\ b.kind = "fill" /\ b.todo = need
    BY <1>1 DEF JobRecord
  <2>3. \A e \in need : e \in Epochs /\ attempts[e] <= 1
    BY DEF GivenUp, MaxAttempts, Lacks, TriesBounded
  <2> HIDE DEF b, need
  <2>4. job'[j] = b /\ \A k \in Jobs \ {j} : job'[k] = job[k]
    BY <2>1 DEF IInv, Sound, Typed
  <2>5. \A k \in Jobs : Filling(k)' <=> Filling(k)
    BY <1>1, <2>2, <2>4 DEF Filling
  <2>6. OneFiller'
    BY <1>1, <1>3, <2>5 DEF OneFiller
  <2>7. TriesBound' = TriesBound /\ TriesBound \in Int
    BY <1>1, FillersFinite DEF TriesBound, MaxAttempts
  <2>8. ASSUME NEW e \in Epochs
        PROVE  attempts[e] + Cardinality(Fillers(e)') <= TriesBound
    <3>1. CASE e \notin need
      <4>1. Fillers(e)' \subseteq Fillers(e)
        BY <2>2, <2>4, <3>1 DEF Fillers
      <4>2. /\ Cardinality(Fillers(e)') <= Cardinality(Fillers(e))
            /\ Cardinality(Fillers(e)') \in Nat /\ Cardinality(Fillers(e)) \in Nat
        BY <4>1, FillersFinite, FS_Subset, FS_CardinalityType
      <4> QED
        BY <2>7, <4>2 DEF TriesBounded
    <3>2. CASE e \in need /\ "reconnect" \in world.disturb
      <4>1. TriesBound = Cardinality(Jobs) + 1
        BY <3>2, FillersFinite DEF TriesBound, MaxAttempts
      <4>2. Fillers(e)' \subseteq Jobs
        BY DEF Fillers
      <4>3. /\ Cardinality(Fillers(e)') <= Cardinality(Jobs)
            /\ Cardinality(Fillers(e)') \in Nat /\ Cardinality(Jobs) \in Nat
        BY <4>2, BoundsAssumption, FS_Subset, FS_CardinalityType
      <4> QED
        BY <2>3, <3>2, <4>1, <4>3 DEF TriesBounded
    <3>3. CASE e \in need /\ "reconnect" \notin world.disturb
      <4>1. TriesBound = 2
        BY <3>3 DEF TriesBound, MaxAttempts
      <4>2. Filling(j)'
        BY <2>2, <2>4 DEF Filling
      <4>3. Fillers(e)' \subseteq {j}
        <5>1. \A k \in Jobs : Filling(k)' => k = j
          BY <1>1, <2>6, <3>3, <4>2 DEF OneFiller
        <5> QED
          BY <5>1 DEF Fillers, Filling
      <4>4. Cardinality(Fillers(e)') <= 1 /\ Cardinality(Fillers(e)') \in Nat
        <5>1. IsFiniteSet({j}) /\ Cardinality({j}) = 1
          BY FS_Singleton
        <5> QED
          BY <4>3, <5>1, FS_Subset, FS_CardinalityType
      <4> QED
        BY <2>3, <3>3, <4>1, <4>4 DEF TriesBounded
    <3> QED
      BY <3>1, <3>2, <3>3
  <2> QED
    BY <1>1, <2>6, <2>7, <2>8 DEF TriesBounded
<1> QED
  BY <1>2, <1>3 DEF FetchGaps

\* A try is counted by the filler that had it before it.
LEMMA CountAttemptTries ==
    ASSUME IInv, OneFiller, TriesBounded, NEW j \in Jobs, CountAttempt(j)
    PROVE  OneFiller' /\ TriesBounded'
<1>1. PICK d \in FirstOf(j) : /\ attempts' = [attempts EXCEPT ![d] = @ + 1]
                              /\ job' = [job EXCEPT ![j].todo = @ \ {d}]
  BY DEF CountAttempt
<1> DEFINE b == [job[j] EXCEPT !.todo = @ \ {d}]
<1>2. /\ UNCHANGED <<world, inFlight>> /\ job[j].pc = "next" /\ job[j].kind = "fill"
      /\ job[j] \in JobRecord /\ d \in job[j].todo /\ d \in Epochs
  BY DEF CountAttempt, At, IInv, Sound, Typed, FirstOf, JobRecord
<1>3. job' = [job EXCEPT ![j] = b] /\ b.pc = "next" /\ b.kind = "fill" /\ b.todo = job[j].todo \ {d}
  BY <1>1, <1>2 DEF JobRecord
<1> HIDE DEF b
<1>4. job'[j] = b /\ \A k \in Jobs \ {j} : job'[k] = job[k]
  BY <1>3 DEF IInv, Sound, Typed
<1>5. \A k \in Jobs : Filling(k)' <=> Filling(k)
  BY <1>2, <1>3, <1>4 DEF Filling
<1>6. OneFiller'
  BY <1>2, <1>5 DEF OneFiller
<1>7. TriesBound' = TriesBound /\ TriesBound \in Int
  BY <1>2, FillersFinite DEF TriesBound, MaxAttempts
<1>8. ASSUME NEW e \in Epochs
      PROVE  attempts'[e] + Cardinality(Fillers(e)') <= TriesBound
  <2>1. attempts \in [Epochs -> Nat] /\ attempts[e] + Cardinality(Fillers(e)) <= TriesBound
    BY DEF TriesBounded
  <2>2. CASE e = d
    <3>1. j \in Fillers(e) /\ Fillers(e)' = Fillers(e) \ {j}
      BY <1>2, <1>3, <1>4, <2>2 DEF Fillers
    <3>2. /\ Cardinality(Fillers(e)') = Cardinality(Fillers(e)) - 1
          /\ Cardinality(Fillers(e)) \in Nat
      BY <3>1, FillersFinite, FS_RemoveElement
    <3>3. attempts'[e] = attempts[e] + 1
      BY <1>1, <2>1, <2>2
    <3> QED
      BY <1>7, <2>1, <3>2, <3>3
  <2>3. CASE e # d
    <3>1. Fillers(e)' = Fillers(e)
      BY <1>2, <1>3, <1>4, <2>3 DEF Fillers
    <3>2. attempts'[e] = attempts[e]
      BY <1>1, <2>1, <2>3
    <3> QED
      BY <2>1, <3>1, <3>2
  <2> QED
    BY <2>2, <2>3
<1>9. attempts' \in [Epochs -> Nat]
  BY <1>1, <1>2 DEF TriesBounded
<1> QED
  BY <1>6, <1>7, <1>8, <1>9 DEF TriesBounded
\* The other steps of a job.
LEMMA JobTries ==
    ASSUME IInv, OneFiller, TriesBounded, NEW j \in Jobs, JobStep(j)
    PROVE  OneFiller' /\ TriesBounded'
<1>1. /\ job[j] \in JobRecord /\ attempts \in [Epochs -> Nat]
      /\ \A e \in Epochs : attempts[e] <= attempts[e]
  BY DEF IInv, Sound, Typed, TriesBounded
<1>2. CASE FetchHistory(j)
  <2> DEFINE b == [job[j] EXCEPT !.pc = "next",
                      !.todo = IF job[j].kind = "backfill" THEN Epochs ELSE {Newest}]
  <2>1. /\ job' = [job EXCEPT ![j] = b] /\ b.kind = job[j].kind /\ b.kind # "fill"
        /\ UNCHANGED <<world, attempts, inFlight>>
    BY <1>1, <1>2 DEF FetchHistory, flags, JobRecord
  <2> HIDE DEF b
  <2> QED
    BY <1>1, <2>1, QuietMove
<1>3. CASE FetchMissing(j)
  <2>1. UNCHANGED <<world, attempts>> /\ job[j].pc = "fetch" /\ job[j].kind = "reconcile"
    BY <1>3 DEF FetchMissing, At
  <2>2. CASE End(j)
    BY <2>1, <2>2, EndQuiet
  <2>3. ASSUME NEW found, job' = [job EXCEPT ![j].pc = "next", ![j].todo = found],
               UNCHANGED inFlight
        PROVE  OneFiller' /\ TriesBounded'
    <3> DEFINE b == [job[j] EXCEPT !.pc = "next", !.todo = found]
    <3>1. job' = [job EXCEPT ![j] = b] /\ b.kind # "fill"
      BY <1>1, <2>1, <2>3 DEF JobRecord
    <3> HIDE DEF b
    <3> QED
      BY <1>1, <2>1, <2>3, <3>1, QuietMove
  <2> QED
    BY <1>3, <2>2, <2>3 DEF FetchMissing
<1>4. CASE FetchFails(j)
  BY <1>4, EndQuiet DEF FetchFails, At
<1>9. CASE FetchUnread(j)
  BY <1>9, EndQuiet DEF FetchUnread, At
<1>5. CASE ReadRow(j)
  <2>0. PICK e \in FirstOf(j), unread \in BOOLEAN : \E row :
          job' = [job EXCEPT ![j] = ToWrite(j, e, row, unread)]
    BY <1>5 DEF ReadRow
  <2>1. PICK row :
          job' = [job EXCEPT ![j] = ToWrite(j, e, row, unread)]
    BY <2>0
  <2> DEFINE b == ToWrite(j, e, row, unread)
  <2>2. /\ job' = [job EXCEPT ![j] = b] /\ b.kind = job[j].kind /\ b.pc = "write"
        /\ b.todo \subseteq job[j].todo /\ job[j].pc = "next"
        /\ UNCHANGED <<world, attempts, inFlight>>
    BY <1>1, <1>5, <2>1 DEF ReadRow, At, flags, JobRecord, ToWrite
  <2> HIDE DEF b
  <2> QED
    BY <1>1, <2>2, QuietMove DEF Filling
<1>6. CASE WriteRow(j)
  <2> DEFINE b == [job[j] EXCEPT !.pc = "next", !.row = NoRow, !.epoch = 0, !.blind = FALSE]
  <2>1. /\ job' = [job EXCEPT ![j] = b] /\ b.kind = job[j].kind /\ b.pc = "next"
        /\ b.todo = job[j].todo /\ job[j].pc = "write" /\ UNCHANGED <<world, inFlight>>
    BY <1>1, <1>6 DEF WriteRow, At, JobRecord
  <2>2. attempts' = attempts \/ attempts' = [attempts EXCEPT ![job[j].epoch] = 0]
    BY <1>6 DEF WriteRow
  <2>3. attempts' \in [Epochs -> Nat] /\ \A e \in Epochs : attempts'[e] <= attempts[e]
    BY <1>1, <2>2
  <2> HIDE DEF b
  <2> QED
    BY <2>1, <2>3, QuietMove DEF Filling
<1>7. CASE Quiesce(j)
  <2>1. UNCHANGED <<world, attempts>> /\ job[j].pc = "next"
    BY <1>7 DEF Quiesce, At
  <2>2. CASE End(j)
    BY <2>1, <2>2, EndQuiet
  <2>3. CASE job' = [job EXCEPT ![j].todo = {}] /\ UNCHANGED inFlight
    <3> DEFINE b == [job[j] EXCEPT !.todo = {}]
    <3>1. /\ job' = [job EXCEPT ![j] = b] /\ b.kind = job[j].kind /\ b.pc = job[j].pc
          /\ b.todo = {}
      BY <1>1, <2>3 DEF JobRecord
    <3> HIDE DEF b
    <3> QED
      BY <1>1, <2>1, <2>3, <3>1, QuietMove DEF Filling
  <2> QED
    BY <1>7, <2>2, <2>3 DEF Quiesce
<1>8. CASE Close(j)
  <2>1. UNCHANGED <<world, attempts>> /\ job[j].pc = "next"
    BY <1>8 DEF Close, At
  <2>2. CASE End(j)
    BY <2>1, <2>2, EndQuiet
  <2>3. CASE /\ job[j].kind = "backfill" /\ Begin(j, "reconcile")
             /\ inFlight' = Release("backfill") \cup {"reconcile"}
    BY <2>1, <2>3, BeginQuiet DEF Filling, Release, Kinds
  <2> QED
    BY <1>8, <2>2, <2>3 DEF Close
<1> QED
  BY <1>2, <1>3, <1>4, <1>5, <1>6, <1>7, <1>8, <1>9, FetchGapsTries,
     CountAttemptTries DEF JobStep

LEMMA NextTries ==
    ASSUME IInv, OneFiller, TriesBounded, [Next]_vars
    PROVE  OneFiller' /\ TriesBounded'
<1>1. attempts \in [Epochs -> Nat] /\ \A e \in Epochs : attempts[e] <= attempts[e]
  BY DEF TriesBounded
<1>2. ASSUME UNCHANGED <<world, job, attempts, inFlight>>
      PROVE  OneFiller' /\ TriesBounded'
  BY <1>1, <1>2, QuietRest
<1>3. ASSUME NEW p \in Pools, Connect(p)
      PROVE  OneFiller' /\ TriesBounded'
  BY <1>2, <1>3 DEF Connect, flags
<1>4. CASE ClearOther \/ ClaimCache \/ FlipMode \/ UNCHANGED vars
  BY <1>2, <1>4 DEF ClearOther, ClaimCache, FlipMode, flags, vars
<1>5. CASE Disconnect
  BY <1>1, <1>5, QuietRest DEF Disconnect, Disturbed
<1>6. CASE ForceRefresh
  <2>1. attempts' \in [Epochs -> Nat] /\ \A e \in Epochs : attempts'[e] <= attempts[e]
    BY <1>1, <1>6 DEF ForceRefresh, NoAttempts
  <2> QED
    BY <1>6, <2>1, QuietRest DEF ForceRefresh
<1>7. CASE Restart
  <2>1. attempts' \in [Epochs -> Nat] /\ \A e \in Epochs : attempts'[e] <= attempts[e]
    BY <1>1, <1>7 DEF Restart, NoAttempts
  <2>2. \A j \in Jobs : job'[j] = Off
    BY <1>7 DEF Restart
  <2>3. \A e \in Epochs : Fillers(e)' \subseteq Fillers(e)
    BY <2>2 DEF Fillers, Off
  <2>4. OneFiller'
    BY <2>2 DEF OneFiller, Filling, Off
  <2>5. world' = world
    BY <1>7 DEF Restart
  <2> QED
    BY <2>1, <2>3, <2>4, <2>5, TriesKept
<1> QED
  BY <1>3, <1>4, <1>5, <1>6, <1>7, StartQuiet, JobTries DEF Next

LEMMA NextFlags ==
    ASSUME IInv, FlagsTyped, [Next]_vars
    PROVE  FlagsTyped'
<1>1. ASSUME NEW kind, Disturbed(kind)
      PROVE  disturbed' \in 0..MaxDisturb
  BY <1>1, BoundsAssumption DEF Disturbed, FlagsTyped
<1>2. Kinds = {"backfill", "reconcile", "fill", "recent"}
  BY DEF Kinds
<1>3. ASSUME NEW j \in Jobs, NEW kind \in Kinds, Start(j, kind)
      PROVE  FlagsTyped'
  BY <1>2, <1>3 DEF Start, FlagsTyped, stored, link
<1>4. ASSUME NEW j \in Jobs, JobStep(j)
      PROVE  FlagsTyped'
  <2>1. CASE FetchHistory(j) \/ FetchMissing(j) \/ FetchGaps(j) \/ CountAttempt(j) \/ Quiesce(j)
    BY <1>2, <2>1 DEF FetchHistory, FetchMissing, FetchGaps, CountAttempt, Quiesce,
                      End, Release, FlagsTyped, stored, link, flags
  <2>2. CASE FetchFails(j) \/ WriteRow(j)
    BY <1>1, <2>2 DEF FetchFails, WriteRow, End, Release, FlagsTyped, stored, link
  <2>4. CASE FetchUnread(j)
    BY <1>1, <1>2, <2>4 DEF FetchUnread, End, Release, FlagsTyped, stored, link
  <2>5. CASE ReadRow(j)
    BY <1>1, <2>5 DEF ReadRow, FlagsTyped, stored, link, flags
  <2>3. CASE Close(j)
    BY <1>2, <2>3 DEF Close, End, Release, FlagsTyped, link
  <2> QED
    BY <1>4, <2>1, <2>2, <2>3, <2>4, <2>5 DEF JobStep
<1>5. ASSUME NEW p \in Pools, Connect(p)
      PROVE  FlagsTyped'
  BY <1>5 DEF Connect, FlagsTyped, stored, flags
<1>6. CASE ClearOther \/ ClaimCache \/ UNCHANGED vars
  BY <1>6 DEF ClearOther, ClaimCache, FlagsTyped, stored, link, flags, vars
<1>7. CASE Disconnect \/ Restart \/ FlipMode \/ ForceRefresh
  BY <1>1, <1>7 DEF Disconnect, Restart, FlipMode, ForceRefresh, FlagsTyped, stored, link, flags
<1> QED
  BY <1>3, <1>4, <1>5, <1>6, <1>7 DEF Next

LEMMA InitTries == Init => TriesInv
<1> SUFFICES ASSUME Init PROVE TriesInv
  OBVIOUS
<1>1. FlagsTyped
  <2>1. disturbed \in 0..MaxDisturb
    BY BoundsAssumption DEF Init
  <2> QED
    BY <2>1 DEF Init, FlagsTyped
<1>2. \A j \in Jobs : job[j].pc = "off"
  BY DEF Init, Off
<1>3. OneFiller
  BY <1>2 DEF OneFiller, Filling
<1>4. TriesBounded
  <2>1. attempts \in [Epochs -> Nat] /\ \A e \in Epochs : attempts[e] = 0
    BY DEF Init, NoAttempts
  <2>2. ASSUME NEW e \in Epochs
        PROVE  attempts[e] + Cardinality(Fillers(e)) <= TriesBound
    <3>1. Fillers(e) = {}
      BY <1>2 DEF Fillers
    <3>2. Cardinality(Fillers(e)) = 0
      BY <3>1, FS_EmptySet
    <3>3. TriesBound \in Nat
      BY FillersFinite DEF TriesBound, MaxAttempts
    <3> QED
      BY <2>1, <3>2, <3>3
  <2> QED
    BY <2>1, <2>2 DEF TriesBounded
<1> QED
  BY <1>1, <1>3, <1>4 DEF TriesInv

LEMMA TriesHold == Spec => []TriesInv
<1>1. ASSUME IInv, TriesInv, [Next]_vars
      PROVE  TriesInv'
  <2>1. FlagsTyped /\ OneFiller /\ TriesBounded
    BY <1>1 DEF TriesInv
  <2>2. OneFiller' /\ TriesBounded'
    BY <1>1, <2>1, NextTries
  <2>3. FlagsTyped'
    BY <1>1, <2>1, NextFlags
  <2> QED
    BY <2>2, <2>3 DEF TriesInv
<1> QED
  BY <1>1, InitTries, InvHolds, PTL DEF Spec

\* The types of the state; and IDEAL_MAX_ATTEMPTS holds (read-model.js, the filler):
\* an epoch Koios has nothing for is not tried more often, whatever fails, restarts
\* or is forced, unless a disconnect lets fillers run side by side, and then at most
\* once more for each of them.
THEOREM EpochCacheTyped == Spec => []TypeOK
<1>1. IInv /\ TriesInv => TypeOK
  <2> SUFFICES ASSUME IInv, TriesInv PROVE TypeOK
    OBVIOUS
  <2>1. attempts \in [Epochs -> 0..TriesBound]
    <3>1. TriesBound \in Int
      BY FillersFinite DEF TriesBound, MaxAttempts
    <3>2. ASSUME NEW e \in Epochs
          PROVE  attempts[e] \in 0..TriesBound
      <4>1. /\ attempts[e] \in Nat /\ Cardinality(Fillers(e)) \in Nat
            /\ attempts[e] + Cardinality(Fillers(e)) <= TriesBound
        BY FillersFinite DEF TriesInv, TriesBounded
      <4> QED
        BY <3>1, <4>1
    <3> QED
      BY <3>2 DEF TriesInv, TriesBounded
  <2> QED
    BY <2>1 DEF IInv, Sound, Typed, JobRecord, TriesInv, FlagsTyped, TypeOK
<1> QED
  BY <1>1, InvHolds, TriesHold, PTL
=============================================================================
