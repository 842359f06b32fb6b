---------------------------- MODULE MempoolPeaks ----------------------------
(* The mempool's high-water marks (src/src/ui/mempool.js): maxima per minute   *)
(* for an hour, per ten minutes for a day, and for all time; kept in memory,   *)
(* stored at most once a minute and when the window is hidden or closed, and   *)
(* taken over once from the format of an earlier release. Queues are counted   *)
(* in half hundredths of a block, so that rounding (r2) loses something.       *)
EXTENDS Integers, FiniteSets, FiniteSetsExt, Functions, TLC

CONSTANTS
    None,       \* no stored value
    Readings,   \* how long the queue may be when read; 0 is an empty mempool
    Clamp,      \* MAX_PEAK_BLK
    Percent,    \* an old reading of one percent of two blocks, in today's unit
    OldPeaks,   \* what an earlier release may have left under its own key
    Minute,     \* time units in a minute
    Bucket,     \* minutes in a bucket (10)
    Hour,       \* minutes kept one by one (60)
    Day,        \* minutes kept at all (1440)
    Windows,    \* minutes of the columns of the panel (5, 60, 1440)
    Start,      \* the time when the program is first started
    MaxTime,    \* bound: the clock
    Disturb,    \* bound: what may happen, out of "crash", "close", "hide",
                \* "full", "demo"
    MaxDisturb  \* bound: how often

VARIABLES
    now,      \* the clock
    mode,     \* "live" or "demo"
    loaded,   \* peaksLoaded
    peaks,    \* [all, at, m, b]: the maximum of all time and its date, the
              \* maxima by minute and by bucket
    dirty,    \* peaksDirty
    savedAt,  \* lastPeakSave
    stored,   \* the value under PEAKS_KEY
    older,    \* the value under PEAKS_V2_KEY
    full,     \* the storage refuses to write
    seen,     \* history: the readings [t, q] of the live node that are not lost
    kept,     \* history: those of them that the store was written with
    readAt,   \* history: when a live, non-empty queue was last read
    refused,  \* history: a write was refused since the last one that was not
    left      \* disturbances left

memory == <<loaded, peaks, dirty, savedAt>>
store  == <<stored, older, full>>
hist   == <<seen, kept, readAt, refused>>
vars   == <<now, mode, memory, store, hist, left>>

Largest(S) == IF S = {} THEN 0 ELSE Max(S)
At(f, k) == IF k \in DOMAIN f THEN f[k] ELSE 0
Raise(f, k, v) ==
    IF v > At(f, k) THEN [j \in DOMAIN f \cup {k} |-> IF j = k THEN v ELSE f[j]] ELSE f

R2(v) == 2 * ((v + 1) \div 2)
Clamped(q) == IF q > Clamp THEN Clamp ELSE q
MinuteOf(t) == t \div Minute
EmptyPeaks == [all |-> 0, at |-> 0, m |-> <<>>, b |-> <<>>]

\* The last minute a bucket may hold, and, wrongly, its first.
BucketStart(bk) == bk * Bucket
LastMinute(bk) == bk * Bucket + Bucket - 1

\* compactPeaks: minutes older than an hour are folded into their bucket.
CompactPeaks(p, t) ==
    LET hourCut == MinuteOf(t) - Hour
        dayCut == MinuteOf(t) - Day
        folded == {k \in DOMAIN p.m : k < hourCut /\ k >= dayCut}
        buckets == {bk \in DOMAIN p.b \cup {k \div Bucket : k \in folded} :
                      LastMinute(bk) >= dayCut}
    IN [all |-> p.all, at |-> p.at,
        m |-> Restrict(p.m, {k \in DOMAIN p.m : k >= hourCut}),
        b |-> [bk \in buckets |->
                 Max({At(p.b, bk)} \cup {R2(p.m[k]) : k \in {j \in folded : j \div Bucket = bk}})]]

\* Wrong: whatever is stored is taken for percentages.
ConvertsAgain(p) ==
    [p EXCEPT !.all = Clamped(@ * Percent), !.mins = [k \in DOMAIN @ |-> Clamped(@[k] * Percent)]]

\* peaksToBlocks: what was stored as a percentage of two blocks.
PeaksToBlocks(p) ==
    LET blocks(v) == IF p.unit = "blocks" THEN v ELSE Clamped(v * Percent)
    IN [all |-> blocks(p.all), at |-> p.at, mins |-> [k \in DOMAIN p.mins |-> blocks(p.mins[k])]]

MigratePeaksV2(p, t) ==
    LET v2 == PeaksToBlocks(p)
    IN CompactPeaks([all |-> v2.all, at |-> v2.at, b |-> <<>>,
                     m |-> [k \in DOMAIN v2.mins |-> R2(Clamped(v2.mins[k]))]], t)

\* recordPeak, once the peaks are there.
Recorded(p, q, t) ==
    CompactPeaks([all |-> IF q > p.all THEN q ELSE p.all, at |-> IF q > p.all THEN t ELSE p.at,
                  m |-> Raise(p.m, MinuteOf(t), R2(q)), b |-> p.b], t)
News(p, q, t) == q > p.all \/ R2(q) > At(p.m, MinuteOf(t))

\* maxOverPeaks
MaxOver(p, minutes, t) ==
    LET cutoff == MinuteOf(t - minutes * Minute)
    IN Largest({p.m[k] : k \in {j \in DOMAIN p.m : j >= cutoff}}
               \cup {p.b[bk] : bk \in {j \in DOMAIN p.b : LastMinute(j) >= cutoff}})

-----------------------------------------------------------------------------
\* The readings an earlier release has stored.
Was(o, v) == IF o.unit = "percent" THEN Clamped(v * Percent) ELSE v
OldReadings(o) ==
    IF o = None THEN {}
    ELSE {[t |-> k * Minute, q |-> Was(o, o.mins[k])] : k \in DOMAIN o.mins}
         \cup {[t |-> o.at, q |-> Was(o, o.all)]}

Init ==
    /\ now = Start /\ mode = "live"
    /\ loaded = FALSE /\ peaks = EmptyPeaks /\ dirty = FALSE /\ savedAt = -Minute
    /\ stored = None /\ older \in OldPeaks /\ full = FALSE
    /\ seen = OldReadings(older)
    /\ kept = seen /\ readAt = Start /\ refused = FALSE /\ left = MaxDisturb

Disturbed(kind) == kind \in Disturb /\ left > 0 /\ left' = left - 1

Migrates == ~loaded /\ stored = None /\ older # None

\* loadPeaks: what is stored, or what an earlier release stored.
LoadedPeaks(t) ==
    CASE loaded -> peaks
      [] ~loaded /\ stored # None -> CompactPeaks(stored, t)
      [] Migrates -> MigratePeaksV2(older, t)
      [] OTHER -> EmptyPeaks

\* savePeaksIfDue: at most once a minute; wrongly, once an hour.
SavesHourly(p, t) == t - savedAt >= Hour * Minute
SaveIfDue(p, t) == t - savedAt >= Minute

Write(p, t) ==
    /\ savedAt' = t /\ dirty' = full /\ refused' = full
    /\ stored' = IF full THEN stored ELSE p
    /\ kept' = IF full THEN kept ELSE seen'

\* The migrated value is written at once, and only then the old one is removed.
Migrated(t) ==
    /\ stored' = IF full THEN stored ELSE MigratePeaksV2(older, t)
    /\ older' = IF full THEN older ELSE None
    /\ kept' = IF full THEN kept ELSE seen

\* The panel is drawn (renderMempool, renderStats), a time unit after the last
\* time: it loads the peaks if need be and, unless in demo, records the queue.
Read(q) ==
    LET t == now + 1  p == LoadedPeaks(t) IN
    /\ t <= MaxTime /\ now' = t /\ loaded' = TRUE
    /\ LET counts == mode = "live" /\ q > 0
           p2 == IF counts THEN Recorded(p, Clamped(q), t) ELSE p
           news == counts /\ (dirty \/ News(p, Clamped(q), t))
       IN /\ peaks' = p2
          /\ seen' = IF counts THEN seen \cup {[t |-> t, q |-> Clamped(q)]} ELSE seen
          /\ readAt' = IF counts THEN t ELSE readAt
          /\ IF news /\ SaveIfDue(p2, t)
             THEN Write(p2, t) /\ older' = IF Migrates /\ ~full THEN None ELSE older
             ELSE /\ dirty' = (dirty \/ news) /\ UNCHANGED savedAt
                  /\ IF Migrates THEN Migrated(t) /\ refused' = full
                     ELSE UNCHANGED <<stored, older, kept, refused>>
    /\ UNCHANGED <<mode, full, left>>

\* The query failed, or another view is on the screen: nothing is recorded.
Away ==
    /\ now < MaxTime /\ now' = now + 1
    /\ UNCHANGED <<mode, memory, store, hist, left>>

Hide ==
    /\ Disturbed("hide") /\ loaded /\ dirty /\ UNCHANGED seen
    /\ Write(peaks, now)
    /\ UNCHANGED <<now, mode, loaded, peaks, older, full, readAt>>

\* The program ends, with or without a pagehide, and is started again.
Restart(p, saves) ==
    /\ loaded' = FALSE /\ peaks' = EmptyPeaks /\ dirty' = FALSE /\ savedAt' = -Minute
    /\ mode' = "live" /\ stored' = IF saves THEN p ELSE stored
    /\ seen' = (IF saves THEN seen ELSE kept) /\ kept' = seen'
    /\ refused' = FALSE /\ readAt' = now
    /\ UNCHANGED <<now, older, full>>

Close == Disturbed("close") /\ Restart(peaks, loaded /\ dirty /\ ~full)
Crash == Disturbed("crash") /\ Restart(peaks, FALSE)

Fill ==
    /\ IF full THEN UNCHANGED left ELSE Disturbed("full")
    /\ full' = ~full
    /\ UNCHANGED <<now, mode, memory, stored, older, hist>>

Flip ==
    /\ IF mode = "demo" THEN UNCHANGED left ELSE Disturbed("demo")
    /\ mode' = IF mode = "live" THEN "demo" ELSE "live"
    /\ UNCHANGED <<now, memory, store, hist>>

Next == (\E q \in Readings : Read(q)) \/ Away \/ Hide \/ Close \/ Crash \/ Fill \/ Flip

Spec == Init /\ [][Next]_vars

-----------------------------------------------------------------------------
IsPeaks(p) ==
    /\ {p.all, p.at} \subseteq Nat
    /\ DOMAIN p.m \subseteq 0..MaxTime /\ DOMAIN p.b \subseteq 0..MaxTime
    /\ Range(p.m) \cup Range(p.b) \subseteq 1..R2(Clamp)

TypeOK ==
    /\ now \in Start..MaxTime /\ mode \in {"live", "demo"}
    /\ {loaded, dirty, full, refused} \subseteq BOOLEAN
    /\ IsPeaks(peaks) /\ (stored = None \/ IsPeaks(stored))
    /\ older \in OldPeaks \cup {None} /\ savedAt \in -Minute..MaxTime
    /\ kept \subseteq seen \/ refused

\* What the columns MAX 5m, 1h and 24h show is never lower than a queue read in
\* that time, and never higher than the highest read in that time or in the
\* rest of the ten minutes it began in: through folding, storing, restarts
\* and the migration.
Within(minutes, slack) ==
    {s \in seen : MinuteOf(s.t) >= MinuteOf(now - minutes * Minute) - slack}
WindowsAreHonest ==
    loaded => \A w \in Windows :
        LET shown == MaxOver(peaks, w, now) IN
        /\ shown >= Largest({R2(s.q) : s \in {r \in Within(w, 0) : MinuteOf(r.t) >= MinuteOf(now) - Day}})
        /\ shown <= Largest({R2(s.q) : s \in Within(w, Bucket - 1)})

\* The all-time peak is the highest queue ever read and not lost, with the time
\* it was read at, exactly as read: converted from the old format once, however
\* often the migration failed, and never rounded.
AllTimeIsExact ==
    loaded => /\ peaks.all = Largest({s.q : s \in seen})
              /\ seen # {} => [t |-> peaks.at, q |-> peaks.all] \in seen

\* A crash costs a minute: unless a write was refused, what was read a minute
\* before the last reading is stored.
Covers(p, s) ==
    \/ MinuteOf(s.t) < MinuteOf(now) - Day
    \/ p # None /\ p.all >= s.q
       /\ (At(p.m, MinuteOf(s.t)) >= R2(s.q) \/ At(p.b, MinuteOf(s.t) \div Bucket) >= R2(s.q))
CrashCostsAMinute ==
    loaded /\ ~refused /\ older = None =>
        \A s \in seen : readAt - s.t >= Minute => Covers(stored, s)

=============================================================================
