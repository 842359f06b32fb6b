----------------------------- MODULE KesReading -----------------------------
(* What the dashboard says of a block producer's KES key (src/src/data/live.js *)
(* and src/src/ui/now-hero.js): the node is asked beside the poll, nothing     *)
(* keeps a second question from being asked while the first is answered late,  *)
(* and each snapshot is painted with whatever the last answer left behind.     *)
(* Slots and seconds run alike, as the code assumes.                           *)
EXTENDS Integers, FiniteSets, FiniteSetsExt

CONSTANTS
    None,       \* null
    Exact,      \* the cli states the key's expiry (older ones do not)
    Refresh,    \* KES_REFRESH_S
    Timeout,    \* CLI_TIMEOUT_KES_S
    Gap,        \* the longest time between two blocks
    Day,        \* time units in a day
    Grades,     \* the days above which the key scores 10, 20 and 30
    Life,       \* how long a new key lasts
    MaxTime,    \* bound: the clock
    Disturb,    \* bound: what may happen, out of "rotate", "break", "miss",
                \* "reconnect"
    MaxDisturb  \* bound: how often

VARIABLES
    now,     \* the clock
    past,    \* for each moment: [up, disk, chain, expiry], what the node would
             \* have answered then
    due,     \* the poll of this moment is still to come
    probe,   \* the node as found on connecting: "BP" or "UNKNOWN"
    kes,     \* [days, expiry, disk, chain, error, at]: the source's fields
    asks,    \* when the questions under way were asked
    tip,     \* _lastTip: the slot of the newest block
    shown,   \* what the dashboard shows: the fields and the score, None at first
    since,   \* history: when the source was made
    missed,  \* history: when a poll last failed
    left     \* disturbances left

vars == <<now, past, due, probe, kes, asks, tip, shown, since, missed, left>>

node == past[now]
Unknown == [days |-> None, expiry |-> None, disk |-> None, chain |-> None]
Fresh == [fields |-> Unknown, error |-> FALSE, at |-> -Refresh]

\* probeNode: the certificate's path is an argument of the running node.
ProbeNode == IF node.up THEN "BP" ELSE "UNKNOWN"
OpCertPath == probe = "BP"

\* The throttle of _maybeRefreshKes.
Due == now - kes.at >= Refresh

Expiry(answer) ==
    IF Exact THEN answer.expiry ELSE now + Max({0, answer.expiry - tip})
Reading(answer) ==
    [days |-> Max({0, (Expiry(answer) - now) \div Day}), expiry |-> Expiry(answer),
     disk |-> answer.disk, chain |-> answer.chain]

\* Wrong: a failed check leaves what an earlier one read.
StillTheLast == kes.fields
\* The fields after a failed check.
AfterFailure == Unknown

\* Wrong: without a reading the key scores what a relay's does.
Neutral(k) == IF k.fields.days = None THEN 25
              ELSE 10 * Cardinality({g \in Grades : k.fields.days > g})
\* computePulse, the part of the key.
KesScore(k) ==
    IF k.fields.days = None /\ k.error /\ probe = "BP" THEN 0
    ELSE IF k.fields.days = None THEN 25
    ELSE 10 * Cardinality({g \in Grades : k.fields.days > g})

Init ==
    /\ now = 0 /\ due = TRUE /\ probe = "BP" /\ tip = 0
    /\ \E end \in 0..Life :
          past = [t \in {0} |-> [up |-> TRUE, disk |-> 0, chain |-> 0, expiry |-> end]]
    /\ kes = Fresh /\ asks = {} /\ shown = None
    /\ since = 0 /\ missed = -Refresh - Timeout - 1 /\ left = MaxDisturb

\* Time passes; a certificate put in place counts on the chain once the node
\* has forged with it, and the node may stop answering or answer again.
Tick(next) ==
    /\ now < MaxTime /\ ~due
    /\ \A asked \in asks : now < asked + Timeout
    /\ past' = [t \in 0..now + 1 |-> IF t > now THEN next ELSE past[t]]
    /\ now' = now + 1 /\ due' = TRUE
    /\ UNCHANGED <<probe, kes, asks, tip, shown, since, missed>>

Pass == Tick(node) /\ UNCHANGED left
Forged == node.disk # node.chain /\ Tick([node EXCEPT !.chain = node.disk]) /\ UNCHANGED left
Rotate ==
    /\ "rotate" \in Disturb /\ left > 0 /\ left' = left - 1
    /\ Tick([node EXCEPT !.disk = @ + 1, !.expiry = now + 1 + Life])
Break ==
    /\ "break" \in Disturb /\ left > 0 /\ left' = left - 1
    /\ Tick([node EXCEPT !.up = ~@])

\* renderHero paints the snapshot's reading and takes an earlier one off the screen.
Painted(k) == [fields |-> k.fields, error |-> k.error, score |-> KesScore(k)]

\* getNowSnapshot: the question goes out before the snapshot is put together
\* and is answered after it. Without a certificate there is nothing to ask.
Poll ==
    /\ due /\ due' = FALSE
    /\ \E slot \in Max({tip, now - Gap})..now : tip' = slot
    /\ IF ~Due THEN UNCHANGED <<kes, asks>>
       ELSE IF OpCertPath THEN asks' = asks \cup {now} /\ UNCHANGED kes
       ELSE kes' = [fields |-> Unknown, error |-> FALSE, at |-> now] /\ UNCHANGED asks
    /\ shown' = Painted(kes')
    /\ UNCHANGED <<now, past, probe, since, missed, left>>

\* The tip query fails: nothing is asked and nothing is painted.
MissPoll ==
    /\ "miss" \in Disturb /\ left > 0 /\ left' = left - 1
    /\ due /\ due' = FALSE /\ missed' = now
    /\ UNCHANGED <<now, past, probe, kes, asks, tip, shown, since>>

\* _maybeRefreshKes, after its await. The answer tells the node as it was at
\* some moment of the question; the throttle counts from when it was asked.
Answer(asked) ==
    /\ asked \in asks /\ asks' = asks \ {asked}
    /\ \E t \in asked..now :
         kes' = IF past[t].up
                THEN [fields |-> Reading(past[t]), error |-> FALSE, at |-> asked]
                ELSE [fields |-> AfterFailure, error |-> TRUE, at |-> asked]
    /\ UNCHANGED <<now, past, due, probe, tip, shown, since, missed, left>>

\* The operator connects anew: another source, which the questions of the one
\* before no longer reach.
Reconnect ==
    /\ "reconnect" \in Disturb /\ left > 0 /\ left' = left - 1
    /\ due /\ probe' = ProbeNode /\ kes' = Fresh /\ asks' = {} /\ tip' = 0
    /\ since' = now
    /\ UNCHANGED <<now, past, due, shown, missed>>

Next ==
    \/ Pass \/ Forged \/ Rotate \/ Break \/ Poll \/ MissPoll \/ Reconnect
    \/ \E asked \in asks : Answer(asked)

Spec == Init /\ [][Next]_vars

-----------------------------------------------------------------------------

TypeOK ==
    LET fields == [days : Nat \cup {None}, expiry : Nat \cup {None},
                   disk : Nat \cup {None}, chain : Nat \cup {None}]
    IN /\ now \in 0..MaxTime /\ tip \in 0..now /\ since \in 0..now /\ left \in 0..MaxDisturb
       /\ past \in [0..now -> [up : BOOLEAN, disk : Nat, chain : Nat, expiry : Nat]]
       /\ due \in BOOLEAN /\ probe \in {"BP", "UNKNOWN"} /\ missed \in Int
       /\ kes \in [fields : fields, error : BOOLEAN, at : Int]
       /\ asks \subseteq 0..now
       /\ shown \in {None} \cup [fields : fields, error : BOOLEAN, score : {0, 10, 20, 25, 30}]

\* How long the dashboard may lag behind the node, its polls succeeding.
Lag == Refresh + Timeout
Lately == Max({0, now - Lag})..now
Steady == probe = "BP" /\ ~due /\ now - since > Lag /\ now - missed > Lag

\* However the answers overlap, the counters and the expiry on the screen are
\* those the node had at one and the same moment not long ago, an expiry worked
\* out from the tip being late by no more than the tip was, and that of a key that
\* has ended being past (live.js: "never hold a previous reading").
Late == IF Exact THEN 0 ELSE Gap + Timeout
Tells(f, answer) ==
    /\ f.disk = answer.disk /\ f.chain = answer.chain /\ answer.expiry <= f.expiry
    /\ f.expiry <= answer.expiry + Late \/ (~Exact /\ f.expiry <= now)
ReadingIsRecent ==
    Steady /\ shown.fields # Unknown =>
        \E t \in Lately : past[t].up /\ Tells(shown.fields, past[t])

\* A block producer whose check has kept failing shows no reading and scores
\* nothing for its key (live.js: "A BP whose KES check is FAILING must not score
\* like a healthy relay").
FailingScoresNothing ==
    Steady /\ (\A t \in Lately : ~past[t].up) => shown.score = 0 /\ shown.fields = Unknown

\* What makes them so. The last answer was of a moment since it was asked; a question
\* is answered or given up within Timeout, and the tip was read with it; and every poll
\* that was due since the last answer has its question still open.
AnswerOf(k, t) ==
    IF past[t].up THEN ~k.error /\ k.fields.expiry \in Int /\ Tells(k.fields, past[t])
    ELSE k.error /\ k.fields = Unknown
IsAnswer == kes.at >= 0 /\ \E t \in kes.at..now : AnswerOf(kes, t)
Asked ==
    \A asked \in asks : asked \in since..now /\ now <= asked + Timeout /\ asked - Gap <= tip
OpenSince ==
    \A p \in since + 1..now :
        missed < p /\ kes.at + Refresh <= p /\ (due => p < now) => p \in asks
Watched == probe = "BP" => (kes = Fresh \/ IsAnswer) /\ OpenSince

\* Between two rotations the expiry on the screen does not move later, "so the
\* countdown only ever decreases" (live.js). Where the cli does not state the
\* expiry it is worked out from the slot of the newest block, which stands
\* still between blocks: the countdown jumps back up.
CountdownOnlyDecreases ==
    [][shown # None /\ shown.fields.expiry # None /\ shown'.fields.expiry # None
         /\ shown'.fields.disk = shown.fields.disk
       => shown'.fields.expiry <= shown.fields.expiry]_vars
=============================================================================
