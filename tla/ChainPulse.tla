----------------------------- MODULE ChainPulse -----------------------------
(* The heartbeat of the dashboard: the fast poll that notices new blocks by    *)
(* the height of the tip (fastPollTick in src/src/main.js), the block log      *)
(* asked once per connection (bootstrap, getChainPulse of                      *)
(* src/src/data/live.js), and the strip that counts and draws the beats        *)
(* (src/src/ui/chain-pulse.js). A live poll and the bootstrap are answered     *)
(* some time after they were begun; a demo poll is answered at once.           *)
EXTENDS Integers, Sequences, SequencesExt, FiniteSets, Functions

CONSTANTS
    None,        \* null
    DemoAhead,   \* how much lower the demo tip is than the chain's
    Windows,     \* the tabs: seconds shown
    Ecg,         \* the longest window drawn as an ECG (300)
    Keep,        \* how long a beat is kept (3700)
    Tolerance,   \* TICK_DEDUP_TOLERANCE_S (10)
    Bucket,      \* beats as close as this may be merged (5)
    PollGap,     \* bound: seconds a live poll may take, and seconds between two
    MaxTime,     \* bound: the clock
    Disturb,     \* bound: what may happen, out of "demo", "fork", "reconnect",
                 \* "fail", "unmount", "window"
    MaxDisturb   \* bound: how often

VARIABLES
    now,        \* the clock, in seconds
    blocks,     \* the chain: when its blocks were made
    mode,       \* "live" or "demo"
    polling,    \* fastTimer
    asked,      \* when the live poll under way was begun, or None
    seen,       \* lastSeenBlock
    polledAt,   \* lastPollTime
    boot,       \* bootstrap: "no", "asked", "done"
    fresh,      \* optimisticTimes
    times,      \* lastData.recentBlockTimes
    window,     \* currentWindow
    mounted,    \* the strip is on the screen
    drawn,      \* when each beat on it happened, as drawn
    heard,      \* history: the height this connection began with
    mixed,      \* history: tips of two sources or connections, or of a fork, were
                \* compared, or the block log knew more than the polls
    left        \* disturbances left

clock == <<now, blocks, mode>>
poll  == <<polling, asked, seen, polledAt, boot>>
strip == <<fresh, times, window, mounted, drawn>>
vars  == <<clock, poll, strip, heard, mixed, left>>

Init ==
    /\ now = 0 /\ blocks \in {<<>>, <<0>>} /\ mode = "live"
    /\ polling = TRUE /\ asked = None /\ seen = None /\ polledAt = None /\ boot = "no"
    /\ fresh = <<>> /\ times = <<>>
    /\ window \in Windows /\ mounted = TRUE /\ drawn = <<>>
    /\ heard = None /\ mixed = FALSE /\ left = MaxDisturb

Disturbed(kind) == kind \in Disturb /\ left > 0 /\ left' = left - 1

\* Heights: the demo's are made up from the clock.
Height == DemoAhead + Len(blocks)
DemoTip == now

-----------------------------------------------------------------------------
(* The strip.                                                              *)

Sorted(s) == SortSeq(s, LAMBDA a, b : a < b)
Recent(s) == SelectSeq(s, LAMBDA t : t > now - Keep)

\* rebuildHeartbeat: everything is drawn anew, where it belongs.
Redraw(s, w) == SelectSeq(Sorted(s), LAMBDA t : now - t <= w)

\* How new beats are drawn: on an ECG they start at the right edge, whenever they happened.
Planted(beats) == IF window <= Ecg THEN [i \in DOMAIN beats |-> now] ELSE beats

\* Beats leave the strip on the left.
Moved(t) == SelectSeq(drawn, LAMBDA d : t - d <= window)

\* appendTick for one beat after the other.
AppendTicks(beats) ==
    /\ fresh' = Recent(fresh) \o beats
    /\ times' = Recent(Sorted(times \o beats))
    /\ drawn' = IF mounted THEN drawn \o Planted(beats) ELSE drawn

\* Mutant: the beats noticed since are forgotten once the block log is there.
Forget(s, confirmed) == <<>>

\* Mutant: a beat is dropped for a confirmed block of the same second only.
SameSecond(s, confirmed) == SelectSeq(Recent(s), LAMBDA t : t \notin Range(confirmed))

\* The beats noticed that the block log does not account for.
Unconfirmed(s, confirmed) ==
    SelectSeq(Recent(s), LAMBDA t :
        \A i \in DOMAIN confirmed :
            confirmed[i] - t >= Tolerance \/ t - confirmed[i] >= Tolerance)

\* Of the beats in one bucket the first is kept.
OnePerBucket(s) ==
    LET first(i) == \A j \in 1..(i - 1) : s[j] \div Bucket # s[i] \div Bucket
        kept == SetToSortSeq({i \in DOMAIN s : first(i)}, LAMBDA a, b : a < b)
    IN  [i \in DOMAIN kept |-> s[kept[i]]]

\* renderChainPulse.
TakeLog(confirmed) ==
    LET rest == Unconfirmed(fresh, confirmed)
        all  == Sorted(OnePerBucket(confirmed \o rest))
    IN  /\ fresh' = rest
        /\ times' = Recent(all)
        /\ drawn' = IF mounted THEN Redraw(all, window) ELSE drawn

-----------------------------------------------------------------------------
(* The fast poll.                                                          *)

\* Beats spread over the time since the poll before.
Spread(from, to, n) ==
    [i \in 1..n |-> IF to > from THEN from + (2 * (to - from) * i + n) \div (2 * n) ELSE to]

\* A snapshot has come, of a poll begun at the given time. The first one starts the
\* bootstrap.
TakeTip(tip, at) ==
    /\ IF seen # None /\ tip > seen
       THEN AppendTicks(Spread(IF polledAt = None THEN at ELSE polledAt, at, tip - seen))
       ELSE UNCHANGED <<fresh, times, drawn>>
    /\ seen' = tip /\ polledAt' = at
    /\ heard' = IF seen = None THEN tip ELSE heard

PollLive ==
    /\ polling /\ asked = None /\ mode = "live"
    /\ asked' = now
    /\ UNCHANGED <<clock, polling, seen, polledAt, boot, strip, heard, mixed, left>>

LiveAnswers ==
    /\ asked # None
    /\ TakeTip(Height, asked)
    /\ asked' = None
    /\ boot' = IF boot = "no" THEN "asked" ELSE boot
    /\ UNCHANGED <<clock, polling, window, mounted, mixed, left>>

LiveFails ==
    /\ asked # None /\ Disturbed("fail")
    /\ asked' = None
    /\ UNCHANGED <<clock, polling, seen, polledAt, boot, strip, heard, mixed>>

\* The demo's own block log is part of what is mixed from then on.
PollDemo ==
    /\ polling /\ asked = None /\ mode = "demo" /\ polledAt # now
    /\ TakeTip(DemoTip, now)
    /\ UNCHANGED <<clock, polling, asked, boot, window, mounted, mixed, left>>

\* The block log answers: the blocks it has by then, the newest may be missing. It fails:
\* an empty log is drawn.
BootAnswers ==
    /\ boot = "asked" /\ boot' = "done"
    /\ \E n \in {Len(blocks), Len(blocks) - 1} \cap Nat :
          /\ TakeLog(Recent(SubSeq(blocks, 1, n)))
          /\ mixed' = (mixed \/ seen = None \/ DemoAhead + n > seen)
    /\ UNCHANGED <<clock, polling, asked, seen, polledAt, window, mounted, heard, left>>

BootFails ==
    /\ boot = "asked" /\ boot' = "done" /\ Disturbed("fail")
    /\ TakeLog(<<>>)
    /\ UNCHANGED <<clock, polling, asked, seen, polledAt, window, mounted, heard, mixed>>

-----------------------------------------------------------------------------
(* The operator and the chain.                                             *)

\* A click on a tab of the strip.
ChooseWindow ==
    /\ mounted /\ Disturbed("window")
    /\ window' \in Windows \ {window}
    /\ drawn' = Redraw(times, window')
    /\ UNCHANGED <<clock, poll, fresh, times, mounted, heard, mixed>>

\* stopChainPulse, initChainPulse.
Unmount ==
    /\ mounted /\ Disturbed("unmount")
    /\ mounted' = FALSE /\ drawn' = <<>>
    /\ UNCHANGED <<clock, poll, fresh, times, window, heard, mixed>>

Mount ==
    /\ ~mounted /\ mounted' = TRUE
    /\ drawn' = Redraw(times, window)
    /\ UNCHANGED <<clock, poll, fresh, times, window, heard, mixed, left>>

\* "Explore demo", and the badge that leads back. Neither resets what the poll saw.
Flip ==
    /\ IF mode = "live" THEN Disturbed("demo") ELSE UNCHANGED left
    /\ mode' = IF mode = "live" THEN "demo" ELSE "live"
    /\ mixed' = TRUE
    /\ drawn' = IF mounted THEN Redraw(times, window) ELSE drawn
    /\ UNCHANGED <<now, blocks, poll, fresh, times, window, mounted, heard>>

\* Disconnect, and the way back to the same node. A poll under way goes on.
Disconnect ==
    /\ polling /\ Disturbed("reconnect")
    /\ polling' = FALSE /\ seen' = None /\ polledAt' = None /\ boot' = "no"
    /\ mixed' = (mixed \/ asked # None)
    /\ UNCHANGED <<clock, asked, strip, heard>>

Reconnect ==
    /\ ~polling /\ polling' = TRUE /\ mode' = "live" /\ mounted' = TRUE
    /\ drawn' = Redraw(times, window)
    /\ UNCHANGED <<now, blocks, asked, seen, polledAt, boot, fresh, times, window, heard,
                   mixed, left>>

Block ==
    /\ \A i \in DOMAIN blocks : blocks[i] < now
    /\ blocks' = Append(blocks, now)
    /\ UNCHANGED <<now, mode, poll, strip, heard, mixed, left>>

Fork ==
    /\ blocks # <<>> /\ Disturbed("fork")
    /\ blocks' = Front(blocks) /\ mixed' = TRUE
    /\ UNCHANGED <<now, mode, poll, strip, heard>>

Within(t, d) == IF t = None THEN TRUE ELSE now - t < d

\* A second passes, and the ticker moves the strip: beats past the window leave it, beats
\* past Keep are forgotten.
Second ==
    /\ now < MaxTime /\ now' = now + 1
    /\ Within(asked, PollGap) /\ (polling => Within(polledAt, 2 * PollGap))
    /\ IF mounted
       THEN /\ times' = SelectSeq(times, LAMBDA t : t > now' - Keep)
            /\ drawn' = Moved(now')
       ELSE UNCHANGED <<times, drawn>>
    /\ UNCHANGED <<blocks, mode, poll, fresh, window, mounted, heard, mixed, left>>

Next ==
    \/ PollLive \/ LiveAnswers \/ LiveFails \/ PollDemo \/ BootAnswers \/ BootFails
    \/ ChooseWindow \/ Unmount \/ Mount \/ Flip \/ Disconnect \/ Reconnect
    \/ Block \/ Fork \/ Second

Spec == Init /\ [][Next]_vars

-----------------------------------------------------------------------------
(* Properties.                                                             *)

TypeOK ==
    /\ now \in 0..MaxTime /\ \A i \in DOMAIN blocks : blocks[i] \in 0..now
    /\ mode \in {"live", "demo"} /\ polling \in BOOLEAN
    /\ {asked, polledAt} \subseteq (0..now) \cup {None}
    /\ {seen, heard} \subseteq Nat \cup {None}
    /\ boot \in {"no", "asked", "done"}
    /\ \A s \in {fresh, times, drawn} : Range(s) \subseteq 0..now
    /\ window \in Windows /\ mounted \in BOOLEAN /\ mixed \in BOOLEAN /\ left \in 0..MaxDisturb

\* "Number of blocks in last ..." (recomputeStats): polls that fail, come late or notice
\* several blocks at once and a block log that overlaps them never count a block twice.
NoBeatTooMany == ~mixed => Len(times) <= Len(blocks)

\* "Detect new blocks via tip.block increment" (fastPollTick): whatever the operator looked
\* at in between, a poll does not notice more blocks than seconds have passed, one slot each.
BeatsTakeTime == [][Len(fresh') <= Len(fresh) + now + 1]_fresh

\* A block whose arrival the polls noticed has its beat, close to when it came, also after
\* the block log, which may not have it yet, has replaced the strip.
NewestBeats ==
    LET slack == Tolerance + 2 * PollGap
    IN  ~mixed /\ seen = Height /\ seen > heard /\ now - Last(blocks) < Keep - slack =>
            \E t \in Range(times) : t - Last(blocks) \in -slack..slack

\* "so they render at distinct x positions instead of stacking at the right edge"
\* (fastPollTick): beats noticed by one poll are drawn apart when time has passed between.
DistinctX == [][\A i, j \in DOMAIN drawn' : i < j /\ i > Len(drawn) => drawn'[i] # drawn'[j]]_drawn
=============================================================================
