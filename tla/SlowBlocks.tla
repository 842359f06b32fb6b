------------------------------ MODULE SlowBlocks ------------------------------
(* The log of slow blocks and the naming of their producers: the record the *)
(* capture tick appends, the one-time purge, and the enrichment the         *)
(* Propagation view starts after its first paint (captureBlockDelay,        *)
(* purgeMistimedSlowEnrichment and enrichSlowBlockPools in                  *)
(* src/src/data/read-model.js, getBlockProducers and                        *)
(* getBlockProducersByTimeConfident in src/src/data/dbsync-query.js).       *)
(*                                                                          *)
(* Slots are seconds. Every block is slow and every delay is zero: the      *)
(* record's time less its delay, from which the slot is estimated, is the   *)
(* slot of the block plus the lag of the scrape. No two blocks are of the    *)
(* same delay, so their slots stand for it. The local cache answers within   *)
(* the step that asks and does not fail; only db-sync takes its time.        *)
EXTENDS Integers, Sequences, FiniteSets

CONSTANTS
    None,          \* null
    Pools,         \* producers
    Viewers,       \* how many times the view is opened at once
    SlowMax,       \* PROP_SLOW_MAX
    Before, After, \* the window of the time match, in slots
    LastSlot,      \* bound: the last slot
    MaxBlocks,     \* bound: blocks forged
    Legacy,        \* logs an earlier version may have left behind
    Genesis,       \* the block both chains begin with
    Disturb,       \* bound: what else happens, out of "fork", "restart", "unnumbered"
    MaxDisturb     \* bound: how often forks and restarts happen

VARIABLES
    slot,       \* the wall clock
    chain,      \* the node's chain: a sequence of blocks [slot, pool]
    indexed,    \* db-sync's chain, a prefix of a chain the node had
    last,       \* _lastPropBlockNum, _lastPropDelay
    log,        \* prop_slow_blocks; history: the block each record was made of, and
                \* whether db-sync had it, in the window, when it was matched by time
    purged,     \* prop_slow_purged_v2
    attempted,  \* _slowPoolAttempted
    run,        \* each viewer's enrichment
    left,       \* disturbances left
    forked      \* history: heights whose block a fork replaced

vars == <<slot, chain, indexed, last, log, purged, attempted, run, left, forked>>

Idle == [step |-> "idle"]

Init ==
    /\ slot = Genesis.slot /\ chain = <<Genesis>> /\ indexed = <<Genesis>>
    /\ last = [height |-> 1, delay |-> Genesis.slot]
    /\ log \in Legacy /\ purged = FALSE
    /\ attempted = {} /\ run = [v \in Viewers |-> Idle]
    /\ left = MaxDisturb /\ forked = {}

------------------------------------------------------------------------------
(* The chain, the node's and db-sync's.                                      *)

Forge(p) ==
    /\ slot < LastSlot /\ Len(chain) < MaxBlocks
    /\ slot' = slot + 1
    /\ chain' = Append(chain, [slot |-> slot + 1, pool |-> p])
    /\ UNCHANGED <<indexed, last, log, purged, attempted, run, left, forked>>

Pass ==
    /\ slot < LastSlot /\ slot' = slot + 1
    /\ UNCHANGED <<chain, indexed, last, log, purged, attempted, run, left, forked>>

\* Another chain wins: the last block gives way to one of the same height.
Fork(p) ==
    /\ "fork" \in Disturb /\ left > 0 /\ left' = left - 1
    /\ slot < LastSlot /\ Len(chain) > 1 /\ chain[Len(chain)].pool # p
    /\ slot' = slot + 1
    /\ chain' = Append(SubSeq(chain, 1, Len(chain) - 1), [slot |-> slot + 1, pool |-> p])
    /\ forked' = forked \cup {Len(chain)}
    /\ UNCHANGED <<indexed, last, log, purged, attempted, run>>

Index ==
    /\ indexed # chain
    /\ \E n \in DOMAIN chain : indexed' = SubSeq(chain, 1, n) /\ n >= Len(indexed)
    /\ UNCHANGED <<slot, chain, last, log, purged, attempted, run, left, forked>>

------------------------------------------------------------------------------
(* The capture and the purge.                                                *)

\* Mutant: the log is never cut.
KeepAll(s) == s

Keep(s) == IF Len(s) > SlowMax THEN SubSeq(s, Len(s) - SlowMax + 1, Len(s)) ELSE s

Record(height, t, block) ==
    [blockNo |-> height, htLive |-> height # None, ts |-> t, pool |-> None,
     resolved |-> FALSE, block |-> block, had |-> FALSE]

Newest == chain[Len(chain)]

\* The scrape sees the node's last block, by its height a new one.
CaptureSlow ==
    /\ last.height # Len(chain)
    /\ last' = [height |-> Len(chain), delay |-> Newest.slot]
    /\ log' = Keep(Append(log, Record(Len(chain), slot, Newest)))
    /\ UNCHANGED <<slot, chain, indexed, purged, attempted, run, left, forked>>

\* The node reports no height: a new block by its delay.
CaptureUnnumbered ==
    /\ "unnumbered" \in Disturb
    /\ last.delay # Newest.slot
    /\ last' = [last EXCEPT !.delay = Newest.slot]
    /\ log' = Keep(Append(log, Record(None, slot, Newest)))
    /\ UNCHANGED <<slot, chain, indexed, purged, attempted, run, left, forked>>

\* Once ever, the view strips what an earlier version guessed: producers and heights
\* of records without a live height.
Stripped(r) ==
    IF r.htLive THEN r ELSE [r EXCEPT !.blockNo = None, !.pool = None, !.resolved = FALSE,
                                !.had = FALSE]

Purge == IF purged THEN log ELSE [i \in DOMAIN log |-> Stripped(log[i])]

------------------------------------------------------------------------------
(* The enrichment.                                                           *)

\* A record without a height is known by its time.
Key(r) == IF r.blockNo # None THEN <<"h", r.blockNo>> ELSE <<"t", r.ts>>

Pending(arr) == {i \in DOMAIN arr : ~arr[i].resolved /\ Key(arr[i]) \notin attempted}

\* The view paints, purging the log if it never was, and starts the enrichment with
\* the log as it stands. Nothing pending: nothing asked.
Enrich(v, arr) ==
    run' = IF Pending(arr) = {} THEN run
           ELSE [run EXCEPT ![v] = [step |-> "heights", arr |-> arr, pending |-> Pending(arr)]]

Open(v) ==
    /\ run[v].step = "idle"
    /\ log' = Purge /\ purged' = TRUE
    /\ Enrich(v, log')
    /\ UNCHANGED <<slot, chain, indexed, last, attempted, left, forked>>

Named(r, p) == [r EXCEPT !.pool = p, !.resolved = TRUE]

\* getBlockProducers: the heights db-sync has, each with its producer.
Producers(heights) == [n \in {h \in heights : h <= Len(indexed)} |-> indexed[n].pool]

\* The others are not asked for again this session.
HeightsOf(v) == {i \in run[v].pending : run[v].arr[i].blockNo # None}

AnswerHeights(v) ==
    LET old   == run[v].arr
        found == Producers({old[i].blockNo : i \in HeightsOf(v)})
        hits  == {i \in HeightsOf(v) : old[i].blockNo \in DOMAIN found}
        arr   == [i \in DOMAIN old |->
                    IF i \in hits THEN Named(old[i], found[old[i].blockNo]) ELSE old[i]]
    IN
    /\ run[v].step = "heights"
    /\ run' = [run EXCEPT ![v] = [@ EXCEPT !.step = "times", !.arr = arr]]
    /\ attempted' = attempted \cup {Key(old[i]) : i \in HeightsOf(v) \ hits}
    /\ UNCHANGED <<slot, chain, indexed, last, log, purged, left, forked>>

\* For a record without a height: the one block of db-sync's in a window about its
\* time, if there is exactly one.
InWindow(t) ==
    {n \in DOMAIN indexed : indexed[n].slot >= t - Before /\ indexed[n].slot <= t + After}

TimeHit(r) == r.blockNo = None /\ Cardinality(InWindow(r.ts)) = 1

ByTimeNamed(r) ==
    LET n == CHOOSE n \in InWindow(r.ts) : TRUE IN
    [Named(r, indexed[n].pool) EXCEPT
        !.blockNo = n, !.had = r.block \in {indexed[m] : m \in InWindow(r.ts)}]

\* What came back is written over the log as it was read, whole.
Written(v, arr) == arr

AnswerTimes(v) ==
    LET times == run[v].pending \ HeightsOf(v)
        old   == run[v].arr
        hits  == {i \in times : TimeHit(old[i])}
        arr   == [i \in DOMAIN old |-> IF i \in hits THEN ByTimeNamed(old[i]) ELSE old[i]]
    IN
    /\ run[v].step = "times"
    /\ attempted' = attempted \cup {Key(old[i]) : i \in {j \in times : ~arr[j].resolved}}
    /\ log' = IF \E i \in run[v].pending : arr[i].resolved THEN Written(v, arr) ELSE log
    /\ run' = [run EXCEPT ![v] = Idle]
    /\ UNCHANGED <<slot, chain, indexed, last, purged, left, forked>>

\* A restart loses what is in memory; the held metric is captured anew.
Restart ==
    /\ "restart" \in Disturb /\ left > 0 /\ left' = left - 1
    /\ last' = [height |-> None, delay |-> None]
    /\ attempted' = {} /\ run' = [v \in Viewers |-> Idle]
    /\ UNCHANGED <<slot, chain, indexed, log, purged, forked>>

Next ==
    \/ \E p \in Pools : Forge(p) \/ Fork(p)
    \/ Pass \/ Index \/ Restart
    \/ CaptureSlow \/ CaptureUnnumbered
    \/ \E v \in Viewers : Open(v) \/ AnswerHeights(v) \/ AnswerTimes(v)

Spec == Init /\ [][Next]_vars
------------------------------------------------------------------------------
(* Properties.                                                               *)

\* The log stays within its cap, a run's snapshot with it, and a record that has a
\* live height has one of the chain's.
TypeOK ==
    /\ Len(log) <= SlowMax /\ Len(indexed) <= MaxBlocks
    /\ \A i \in DOMAIN log :
         /\ log[i].ts <= slot /\ log[i].pool \in Pools \cup {None}
         /\ log[i].htLive => log[i].blockNo \in 1..MaxBlocks
    /\ \A v \in Viewers : run[v].step # "idle" =>
         /\ run[v].step \in {"heights", "times"}
         /\ run[v].pending \subseteq DOMAIN run[v].arr

\* Once the purge has taken back what was guessed before, a record that names a
\* producer names the one of the block at the height beside it. It is the block the
\* record was made of when the node told that height, and when db-sync had this block,
\* near enough to the record's time, as it was matched; but for a fork at that height.
NamesAreKnown ==
    purged => \A i \in DOMAIN log : log[i].resolved =>
        /\ log[i].blockNo \in DOMAIN chain
        /\ log[i].blockNo \notin forked => log[i].pool = chain[log[i].blockNo].pool
        /\ log[i].htLive /\ log[i].blockNo \notin forked => log[i].pool = log[i].block.pool
        /\ log[i].had => log[i].pool = log[i].block.pool

\* "Two paths, both authoritative -- neither ever guesses" (read-model.js): the producer
\* is always that of the block the record was made of.
NeverGuesses ==
    purged => \A i \in DOMAIN log :
        log[i].resolved => log[i].pool = log[i].block.pool
=============================================================================
