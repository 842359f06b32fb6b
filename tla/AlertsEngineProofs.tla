-------------------------- MODULE AlertsEngineProofs --------------------------
(***************************************************************************)
(* The alerts' types and two of their promises, for any limits, any        *)
(* warn-days and any disturbances.                                         *)
(*                                                                         *)
(* A stall is never announced of a chain that moved.  The engine counts    *)
(* from the time it noticed the last move, which is not before the move.   *)
(* So its count cannot exceed the tip's real age, unless a move is still   *)
(* to be noticed, and then the check that notices it starts the count      *)
(* again before it compares.                                               *)
(*                                                                         *)
(* A condition that lasts is announced once.  What was told, what is       *)
(* shown, what is asked and the truth follow each other in time as long    *)
(* as queries do not overlap, so an alert that is armed again shows a      *)
(* reading of a later episode than any it told of.                         *)
(***************************************************************************)
EXTENDS AlertsEngine, TLAPS

\* The counters are counters, and the engine's does not run ahead of the chain's
\* (alerts-engine.js:94-98).
IInv ==
    /\ still \in Nat /\ tipAge \in Nat
    /\ still <= StallAfter /\ tipAge <= StallAfter
    /\ tipSeen /\ ~moved => still <= tipAge

clocks == <<tipAge, moved, tipSeen, still>>

LEMMA InitInv == Init => IInv
BY StallAfterAssumption DEF Init, IInv

\* What a check concludes of the tip: its count starts again or was right.
LEMMA StillNowSound ==
    ASSUME IInv
    PROVE  StillNow \in Nat /\ StillNow <= tipAge /\ StillNow <= StallAfter
BY StallAfterAssumption DEF IInv, StillNow

\* Only a tip that stood still long enough puts a stall among the announcements.
LEMMA StallAnnounced ==
    ASSUME NEW days, NEW tip \in BOOLEAN, NEW over,
           Key("node_stall") \in Announced(days, tip, over)
    PROVE  StillNow >= StallAfter
<1>1. Key("node_stall") # Key("slow_block")
    BY DEF Key
<1>2. Key("node_stall") \in Holding(tip) \cup KesHit(days)
    BY <1>1 DEF Announced
<1>3. Key("node_stall") \notin KesHit(days)
    BY DEF KesHit, Kes, Key
<1>4. PICK id \in {e \in on \cap Edges : IF e = "node_stall"
                                         THEN tip /\ StillNow >= StallAfter
                                         ELSE seen[e].level = "bad"} :
          Key(id) = Key("node_stall")
    BY <1>2, <1>3 DEF Holding
<1>5. id = "node_stall"
    BY <1>4 DEF Key
<1> QED BY <1>4, <1>5

\* The checks preserve the invariant and announce a stall only when it is one.
LEMMA ChecksStep ==
    ASSUME IInv, NEW days, NEW tip \in BOOLEAN, NEW over,
           Checks(days, tip, over), UNCHANGED tipAge
    PROVE  /\ IInv'
           /\ Key("node_stall") \in sending' \ sending => tipAge >= StallAfter
<1>1. StillNow \in Nat /\ StillNow <= tipAge /\ StillNow <= StallAfter
    BY StillNowSound
<1>2. /\ still' = (IF tip THEN StillNow ELSE still)
      /\ tipSeen' = (tipSeen \/ tip)
      /\ moved' = (moved /\ ~tip)
      /\ sending' = sending \cup Announced(days, tip, over)
    BY Zenon DEF Checks
<1>3. IInv'
    <2>1. CASE tip
        BY <1>1, <1>2, <2>1 DEF IInv
    <2>2. CASE ~tip
        BY <1>2, <2>2 DEF IInv
    <2> QED BY <2>1, <2>2
<1>4. ASSUME Key("node_stall") \in sending' \ sending
      PROVE  tipAge >= StallAfter
    <2>1. Key("node_stall") \in Announced(days, tip, over)
        BY <1>2, <1>4
    <2>2. StillNow >= StallAfter
        BY <2>1, StallAnnounced
    <2> QED BY <1>1, <2>2, StallAfterAssumption DEF IInv
<1> QED BY <1>3, <1>4

\* A snapshot's tick checks, or leaves clocks and messages alone.
LEMMA EndTickStep ==
    ASSUME IInv, EndTick
    PROVE  /\ IInv'
           /\ Key("node_stall") \in sending' \ sending => tipAge >= StallAfter
<1>1. UNCHANGED tipAge
    BY DEF EndTick
<1>2. \/ \E over \in BOOLEAN : Checks(kes, TRUE, over) \/ Checks(MaxDays, FALSE, over)
      \/ UNCHANGED <<moved, engine, history>>
    BY Zenon DEF EndTick
<1>3. CASE \E over \in BOOLEAN : Checks(kes, TRUE, over) \/ Checks(MaxDays, FALSE, over)
    BY <1>1, <1>3, ChecksStep
<1>4. CASE UNCHANGED <<moved, engine, history>>
    BY <1>1, <1>4 DEF IInv, engine, history
<1> QED BY <1>2, <1>3, <1>4

\* A unit of time ages the tip and the engine's count alike.
LEMMA PassStep ==
    ASSUME IInv, Pass
    PROVE  IInv'
BY StallAfterAssumption DEF IInv, Pass, UpTo

\* Every other step leaves the clocks alone, moves the tip, or starts afresh.
LEMMA OtherSteps ==
    ASSUME IInv, Next, ~EndTick, ~Pass
    PROVE  (UNCHANGED clocks \/ TipMoves \/ Restart) /\ sending' \subseteq sending
<1>1. CASE BeginTick \/ DemoTick \/ FailTick
    BY <1>1 DEF BeginTick, DemoTick, FailTick, node, engine, history, clocks, Refresh
<1>2. ASSUME NEW g \in Gauges, AnswerGauge(g) \/ FailGauge(g) \/ GaugeMoves(g)
      PROVE  UNCHANGED clocks /\ sending' = sending
    BY <1>2 DEF AnswerGauge, FailGauge, GaugeMoves, node, engine, history, clocks
<1>3. ASSUME NEW k \in sending, SendEnds(k)
      PROVE  UNCHANGED clocks /\ sending' \subseteq sending
    BY <1>3 DEF SendEnds, node, engine, clocks
<1>4. CASE Link \/ ChangeView \/ EnterDemo \/ LeaveDemo \/ Disconnect \/ Reconnect
    BY <1>4 DEF Link, ChangeView, EnterDemo, LeaveDemo, Disconnect, Reconnect,
                node, engine, history, clocks
<1>5. CASE Restart
    BY <1>5 DEF Restart
<1>6. ASSUME NEW id \in Alerts, Toggle(id)
      PROVE  UNCHANGED clocks /\ sending' = sending
    BY <1>6 DEF Toggle, node, engine, history, clocks
<1>7. CASE TipMoves
    BY <1>7 DEF TipMoves
<1>8. CASE NodeFlips \/ DayPasses \/ Rotate \/ SlowBlock \/ QuietFlips
    BY <1>8 DEF NodeFlips, DayPasses, Rotate, SlowBlock, QuietFlips,
                engine, history, clocks
<1> QED BY <1>1, <1>2, <1>3, <1>4, <1>5, <1>6, <1>7, <1>8 DEF Next

LEMMA NextStep ==
    ASSUME IInv, [Next]_vars
    PROVE  /\ IInv'
           /\ Key("node_stall") \in sending' \ sending => tipAge >= StallAfter
<1>1. CASE EndTick
    BY <1>1, EndTickStep
<1>2. CASE Pass
    <2>1. sending' = sending
        BY <1>2 DEF Pass, history
    <2> QED BY <1>2, <2>1, PassStep
<1>3. CASE UNCHANGED vars
    BY <1>3 DEF vars, node, engine, history, IInv
<1>4. ASSUME Next, ~EndTick, ~Pass
      PROVE  IInv' /\ sending' \subseteq sending
    <2>1. (UNCHANGED clocks \/ TipMoves \/ Restart) /\ sending' \subseteq sending
        BY <1>4, OtherSteps
    <2>2. CASE UNCHANGED clocks
        BY <2>1, <2>2 DEF clocks, IInv
    <2>3. CASE TipMoves
        BY <2>1, <2>3, StallAfterAssumption DEF TipMoves, engine, IInv
    <2>4. CASE Restart
        BY <2>1, <2>4, StallAfterAssumption DEF Restart, IInv
    <2> QED BY <2>1, <2>2, <2>3, <2>4
<1> QED BY <1>1, <1>2, <1>3, <1>4

\* A stall is announced only when the chain's tip really has not moved for the time
\* set, whatever the application missed meanwhile (alerts-engine.js:94-98, 137-150).
THEOREM StallIsReal == Spec => StallIsTrue
<1>1. Init => IInv
    BY InitInv
<1>2. IInv /\ [Next]_vars => IInv'
    BY NextStep
<1>3. IInv /\ [Next]_vars
      => [Key("node_stall") \in sending' \ sending => tipAge >= StallAfter]_vars
    BY NextStep
<1> QED BY <1>1, <1>2, <1>3, PTL DEF Spec, StallIsTrue

-----------------------------------------------------------------------------
(* Once per episode.  A reading is later than another when it was of a     *)
(* later episode or, in the same one, the gauge had left "good".  While    *)
(* queries do not overlap, what was told, what is shown, what is asked and *)
(* the truth follow each other in this order; and an alert that is no      *)
(* longer armed was about an episode that is over in all of them.          *)

Readings == [level : {"bad", "mid", "good"}, of : {"live"}, episode : Nat]
Bad(e) == Reading("bad", "live", e)

Later(r, q) ==
    \/ r.episode < q.episode
    \/ r.episode = q.episode /\ (r.level # "good" => q.level # "good")

\* The readings that come after what was told: shown, asked and the truth.
Since(shown, waiting, now) ==
    waiting \cup {now} \cup (IF shown = None THEN {} ELSE {shown})

Follow(shown, waiting, now) ==
    /\ \A r, q \in waiting : r = q
    /\ \A r \in waiting : Later(r, now)
    /\ shown # None => Later(shown, now) /\ \A r \in waiting : Later(shown, r)

Reported(shown, waiting, now, episodes, isArmed) ==
    \A e \in episodes, r \in Since(shown, waiting, now) :
        Later(Bad(e), r) /\ (~isArmed => e < r.episode)

InOrder(shown, waiting, now, episodes, isArmed) ==
    Follow(shown, waiting, now) /\ Reported(shown, waiting, now, episodes, isArmed)

LEMMA ReadingFacts ==
    /\ None \notin Readings
    /\ \A e \in Nat : Bad(e) \in Readings /\ Bad(e).episode = e /\ Bad(e).level = "bad"
    /\ \A l \in {"bad", "mid", "good"}, e \in Nat : Reading(l, "live", e) \in Readings
BY DEF None, Reading, Readings, Bad

LEMMA LaterIsOrder ==
    ASSUME NEW r \in Readings, NEW q \in Readings, NEW x \in Readings
    PROVE  Later(r, r) /\ (Later(r, q) /\ Later(q, x) => Later(r, x))
BY DEF Later, Readings

\* A query is sent when none is on its way.
LEMMA AskKeepsOrder ==
    ASSUME NEW shown \in Readings \cup {None}, NEW now \in Readings,
           NEW episodes \in SUBSET Nat, NEW isArmed,
           InOrder(shown, {}, now, episodes, isArmed)
    PROVE  InOrder(shown, {now}, now, episodes, isArmed)
BY LaterIsOrder DEF InOrder, Follow, Reported, Since

\* It is answered, or comes to nothing.
LEMMA AnswerKeepsOrder ==
    ASSUME NEW shown \in Readings \cup {None}, NEW waiting \in SUBSET Readings,
           NEW now \in Readings, NEW episodes \in SUBSET Nat, NEW isArmed,
           NEW r \in waiting, NEW next, next = shown \/ next = r \/ next = None,
           InOrder(shown, waiting, now, episodes, isArmed)
    PROVE  InOrder(next, waiting \ {r}, now, episodes, isArmed)
BY DEF InOrder, Follow, Reported, Since

LEMMA ForgetKeepsOrder ==
    ASSUME NEW shown \in Readings \cup {None}, NEW waiting \in SUBSET Readings,
           NEW now \in Readings, NEW episodes \in SUBSET Nat, NEW isArmed,
           InOrder(shown, waiting, now, episodes, isArmed)
    PROVE  InOrder(None, waiting, now, episodes, isArmed)
BY DEF InOrder, Follow, Reported, Since

\* The gauge moves.
LEMMA MoveKeepsOrder ==
    ASSUME NEW shown \in Readings \cup {None}, NEW waiting \in SUBSET Readings,
           NEW now \in Readings, NEW next \in Readings, Later(now, next),
           NEW episodes \in SUBSET Nat, NEW isArmed,
           InOrder(shown, waiting, now, episodes, isArmed)
    PROVE  InOrder(shown, waiting, next, episodes, isArmed)
<1>1. Follow(shown, waiting, next)
  BY LaterIsOrder DEF InOrder, Follow
<1>2. ASSUME NEW e \in episodes, NEW r \in Since(shown, waiting, next)
      PROVE  Later(Bad(e), r) /\ (~isArmed => e < r.episode)
  <2>1. CASE r # next
    BY <2>1 DEF InOrder, Reported, Since
  <2>2. CASE r = next
    <3>1. Later(Bad(e), now) /\ (~isArmed => e < now.episode)
      BY DEF InOrder, Reported, Since
    <3>2. Later(Bad(e), next)
      BY <3>1, LaterIsOrder, ReadingFacts
    <3>3. now.episode <= next.episode
      BY DEF Later, Readings
    <3> QED
      BY <2>2, <3>1, <3>2, <3>3 DEF Readings
  <2> QED
    BY <2>1, <2>2
<1> QED
  BY <1>1, <1>2 DEF InOrder, Reported

\* An episode is told: that of the reading shown, which is bad.
LEMMA TellKeepsOrder ==
    ASSUME NEW shown \in Readings, shown.level = "bad",
           NEW waiting \in SUBSET Readings, NEW now \in Readings,
           NEW episodes \in SUBSET Nat, NEW isArmed,
           InOrder(shown, waiting, now, episodes, isArmed)
    PROVE  InOrder(shown, waiting, now, episodes \cup {shown.episode}, TRUE)
<1>1. ASSUME NEW r \in Since(shown, waiting, now)
      PROVE  Later(Bad(shown.episode), r)
  <2>1. Later(shown, r)
    BY LaterIsOrder, ReadingFacts DEF InOrder, Follow, Since
  <2> QED
    BY <2>1, ReadingFacts DEF Later, Readings
<1> QED
  BY <1>1 DEF InOrder, Reported

\* The alert is armed again once a good reading is shown.
LEMMA DisarmKeepsOrder ==
    ASSUME NEW shown \in Readings, shown.level = "good",
           NEW waiting \in SUBSET Readings, NEW now \in Readings,
           NEW episodes \in SUBSET Nat, NEW isArmed, NEW armedNow,
           InOrder(shown, waiting, now, episodes, isArmed)
    PROVE  InOrder(shown, waiting, now, episodes, armedNow)
<1>1. ASSUME NEW e \in episodes, NEW r \in Since(shown, waiting, now)
      PROVE  e < r.episode
  <2>1. e < shown.episode
    <3>1. Later(Bad(e), shown)
      BY ReadingFacts DEF InOrder, Reported, Since
    <3> QED
      BY <3>1, ReadingFacts DEF Later
  <2>2. Later(shown, r) /\ r \in Readings
    BY LaterIsOrder, ReadingFacts DEF InOrder, Follow, Since
  <2> QED
    BY <2>1, <2>2 DEF Later, Readings
<1> QED
  BY <1>1 DEF InOrder, Reported

-----------------------------------------------------------------------------
(* The same of the state.                                                  *)

Calm == ~Met("overlap") /\ ~Met("demo")

Now(g) == Reading(level[g], "live", episode[g])
ToldOf(g) == {e \in Nat : <<Key(g), e>> \in told}

GaugeTyped(g) ==
    /\ level[g] \in {"bad", "mid", "good"} /\ episode[g] \in Nat
    /\ seen[g] \in Readings \cup {None} /\ asked[g] \in SUBSET Readings

GaugeInv(g) ==
    GaugeTyped(g) /\ InOrder(seen[g], asked[g], Now(g), ToldOf(g), Key(g) \in armed)

\* What is not of a gauge is told while it is armed, and a stall while it lasts.
ToldInv ==
    /\ told \subseteq Keys \X Nat
    /\ \A d \in WarnDays : <<Kes(d), 0>> \in told => Kes(d) \in armed
    /\ <<Key("node_stall"), 0>> \in told =>
           /\ Key("node_stall") \in armed
           /\ tipSeen /\ ~moved /\ still >= StallAfter

Domains ==
    /\ level \in [Gauges -> {"bad", "mid", "good"}]
    /\ DOMAIN seen = Gauges /\ DOMAIN asked = Gauges /\ DOMAIN episode = Gauges

OnceInv ==
    /\ IInv
    /\ Calm => mode = "live" /\ Domains /\ ToldInv /\ \A g \in Gauges : GaugeInv(g)

\* OncePerEpisode without its box.
NothingAgain == \A k \in sending' \ sending : <<k, EpisodeOf(k)>> \notin told

LEMMA KeyFacts ==
    /\ \A id, other : Key(id) = Key(other) => id = other
    /\ \A id : Key(id)[1] = id
    /\ \A d : Kes(d)[1] = "kes_expiry"
    /\ \A id \in Edges : \A d : Key(id) # Kes(d)
    /\ Key("slow_block") \notin Keys
    /\ \A id \in Edges : Key(id) \in Keys
BY DEF Key, Kes, Keys, Edges, Gauges

\* What is announced, by kind.
LEMMA AnnouncedKinds ==
    ASSUME NEW days, NEW tip \in BOOLEAN, NEW over, NEW k \in Announced(days, tip, over)
    PROVE  \/ /\ k \notin armed /\ k \in Holding(tip)
              /\ \/ \E g \in Gauges : k = Key(g) /\ seen[g].level = "bad"
                 \/ k = Key("node_stall") /\ tip /\ StillNow >= StallAfter
           \/ k \notin armed /\ k \in KesHit(days) /\ \E d \in WarnDays : k = Kes(d)
           \/ k = Key("slow_block")
<1>1. CASE k \in Holding(tip) /\ k \notin armed
  <2>1. PICK id \in on \cap Edges :
          /\ k = Key(id)
          /\ IF id = "node_stall" THEN tip /\ StillNow >= StallAfter ELSE seen[id].level = "bad"
    BY <1>1 DEF Holding
  <2> QED
    BY <1>1, <2>1 DEF Edges
<1>2. CASE k \in KesHit(days) /\ k \notin armed
  BY <1>2 DEF KesHit, Hit
<1>3. k \in (Holding(tip) \cup KesHit(days)) \ armed \/ k = Key("slow_block")
  BY DEF Announced
<1> QED
  BY <1>1, <1>2, <1>3

\* What a check announces was not told before.
LEMMA ChecksTellNews ==
    ASSUME OnceInv, Calm, NEW days, NEW tip \in BOOLEAN, NEW over,
           NEW k \in Announced(days, tip, over)
    PROVE  <<k, EpisodeOf(k)>> \notin told
<1>1. ToldInv
  BY DEF OnceInv
<1>2. ASSUME NEW g \in Gauges, k = Key(g), seen[g].level = "bad", k \notin armed
      PROVE  <<k, EpisodeOf(k)>> \notin told
  <2>1. GaugeInv(g)
    BY DEF OnceInv
  <2>2. seen[g] \in Readings
    BY <1>2, <2>1 DEF GaugeInv, GaugeTyped, None, Reading
  <2>3. \A e \in ToldOf(g) : e < seen[g].episode
    BY <1>2, <2>1, <2>2, ReadingFacts DEF GaugeInv, InOrder, Reported, Since
  <2>4. EpisodeOf(k) = seen[g].episode
    BY <1>2, KeyFacts DEF EpisodeOf
  <2> QED
    BY <1>2, <2>2, <2>3, <2>4 DEF ToldOf, Readings
<1>3. CASE k = Key("node_stall") /\ k \notin armed
  <2>1. EpisodeOf(k) = 0
    BY <1>3, KeyFacts DEF EpisodeOf, Gauges
  <2> QED
    BY <1>1, <1>3, <2>1 DEF ToldInv
<1>4. ASSUME NEW d \in WarnDays, k = Kes(d), k \notin armed
      PROVE  <<k, EpisodeOf(k)>> \notin told
  <2>1. EpisodeOf(k) = 0
    BY <1>4, KeyFacts DEF EpisodeOf, Gauges
  <2> QED
    BY <1>1, <1>4, <2>1 DEF ToldInv
<1>5. CASE k = Key("slow_block")
  BY <1>1, <1>5, KeyFacts DEF ToldInv
<1> QED
  BY <1>2, <1>3, <1>4, <1>5, AnnouncedKinds

\* The checks, gauge by gauge; a query may be sent in the same step.
LEMMA ChecksKeepGauge ==
    ASSUME OnceInv, Calm, NEW days, NEW tip \in BOOLEAN, NEW over,
           Checks(days, tip, over), NEW g \in Gauges
    PROVE  InOrder(seen[g], asked[g], Now(g), ToldOf(g)', Key(g) \in armed')
<1> DEFINE out == Announced(days, tip, over)
<1>1. /\ armed' = (armed \ Clearing(tip)) \cup KesHit(days) \cup (out \cap Holding(tip))
      /\ told' = told \cup {<<k, EpisodeOf(k)>> : k \in out \cap Keys}
  BY Zenon DEF Checks
<1>2. GaugeTyped(g) /\ InOrder(seen[g], asked[g], Now(g), ToldOf(g), Key(g) \in armed)
  BY DEF OnceInv, GaugeInv
<1>3. Now(g) \in Readings /\ ToldOf(g) \in SUBSET Nat
  BY <1>2, ReadingFacts DEF GaugeTyped, Now, ToldOf
<1>4. Key(g) \notin KesHit(days)
  BY KeyFacts DEF KesHit, Edges
<1>5. CASE Key(g) \in out
  <2>1. Key(g) \in Holding(tip) /\ seen[g].level = "bad"
    BY <1>5, AnnouncedKinds, KeyFacts DEF Edges, Gauges
  <2>2. seen[g] \in Readings
    BY <1>2, <2>1 DEF GaugeTyped, None, Reading
  <2>3. Key(g) \in armed'
    BY <1>1, <1>5, <2>1
  <2>4. EpisodeOf(Key(g)) = seen[g].episode
    BY KeyFacts DEF EpisodeOf
  <2>5. ToldOf(g)' = ToldOf(g) \cup {seen[g].episode}
    <3>1. \A e : <<Key(g), e>> \in told' <=> <<Key(g), e>> \in told \/ e = seen[g].episode
      BY <1>1, <1>5, <2>4, KeyFacts DEF Edges
    <3> QED
      BY <2>2, <3>1 DEF ToldOf, Readings
  <2> QED
    BY <1>2, <1>3, <2>1, <2>2, <2>3, <2>5, TellKeepsOrder DEF GaugeTyped
<1>6. CASE Key(g) \notin out
  <2>1. ToldOf(g)' = ToldOf(g)
    BY <1>1, <1>6 DEF ToldOf
  <2>2. CASE Key(g) \in Clearing(tip)
    <3>1. seen[g].level = "good"
      <4>1. PICK id \in on \cap Edges :
              /\ Key(g) = Key(id)
              /\ IF id = "node_stall" THEN tip /\ StillNow < StallAfter
                 ELSE seen[id].level = "good"
        BY <2>2 DEF Clearing
      <4> QED
        BY <4>1, KeyFacts DEF Gauges
    <3>2. seen[g] \in Readings
      BY <1>2, <3>1 DEF GaugeTyped, None, Reading
    <3> QED
      BY <1>2, <1>3, <2>1, <3>1, <3>2, DisarmKeepsOrder DEF GaugeTyped
  <2>3. CASE Key(g) \notin Clearing(tip)
    <3>1. (Key(g) \in armed') <=> (Key(g) \in armed)
      BY <1>1, <1>4, <1>6, <2>3
    <3> QED
      BY <1>2, <2>1, <3>1 DEF InOrder, Reported
  <2> QED
    BY <2>2, <2>3
<1> QED
  BY <1>5, <1>6

\* The checks, and what is not of a gauge.
LEMMA ChecksKeepTold ==
    ASSUME OnceInv, Calm, NEW days, NEW tip \in BOOLEAN, NEW over, Checks(days, tip, over)
    PROVE  ToldInv'
<1> DEFINE out == Announced(days, tip, over)
<1>1. /\ armed' = (armed \ Clearing(tip)) \cup KesHit(days) \cup (out \cap Holding(tip))
      /\ told' = told \cup {<<k, EpisodeOf(k)>> : k \in out \cap Keys}
      /\ still' = (IF tip THEN StillNow ELSE still)
      /\ tipSeen' = (tipSeen \/ tip)
      /\ moved' = (moved /\ ~tip)
  BY Zenon DEF Checks
<1>2. ToldInv /\ \A g \in Gauges : GaugeTyped(g)
  BY DEF OnceInv, GaugeInv
<1>3. told' \subseteq Keys \X Nat
  <2>1. ASSUME NEW k \in out
        PROVE  EpisodeOf(k) \in Nat
    BY <1>2 DEF EpisodeOf, GaugeTyped, Readings, None, Reading
  <2> QED
    BY <1>1, <1>2, <2>1 DEF ToldInv
<1>4. ASSUME NEW d \in WarnDays, <<Kes(d), 0>> \in told'
      PROVE  Kes(d) \in armed'
  <2>1. Kes(d) \notin Clearing(tip) /\ Kes(d) \notin Holding(tip) /\ Kes(d) # Key("slow_block")
    BY KeyFacts DEF Clearing, Holding, Kes, Key
  <2>2. CASE <<Kes(d), 0>> \in told
    BY <1>1, <1>2, <2>1, <2>2 DEF ToldInv
  <2>3. CASE Kes(d) \in out
    BY <1>1, <2>1, <2>3, AnnouncedKinds
  <2> QED
    BY <1>1, <1>4, <2>2, <2>3
<1>5. ASSUME <<Key("node_stall"), 0>> \in told'
      PROVE  Key("node_stall") \in armed' /\ tipSeen' /\ ~moved' /\ still' >= StallAfter
  <2>1. CASE <<Key("node_stall"), 0>> \in told
    <3>1. StillNow = still /\ still >= StallAfter
      BY <1>2, <2>1 DEF ToldInv, StillNow
    <3>2. Key("node_stall") \notin Clearing(tip)
      <4>1. SUFFICES ASSUME NEW id \in on \cap Edges, Key("node_stall") = Key(id),
                            IF id = "node_stall" THEN tip /\ StillNow < StallAfter
                            ELSE seen[id].level = "good"
                     PROVE  FALSE
        BY DEF Clearing
      <4> QED
        BY <3>1, <4>1, KeyFacts, StallAfterAssumption DEF OnceInv, IInv
    <3> QED
      BY <1>1, <1>2, <2>1, <3>1, <3>2 DEF ToldInv
  <2>2. CASE Key("node_stall") \in out
    <3>1. Key("node_stall") \in Holding(tip) /\ tip /\ StillNow >= StallAfter
      BY <2>2, AnnouncedKinds, KeyFacts DEF Gauges, Edges
    <3>2. tipSeen /\ ~moved
      BY <3>1, StallAfterAssumption DEF StillNow
    <3> QED
      BY <1>1, <2>2, <3>1, <3>2
  <2> QED
    BY <1>1, <1>5, <2>1, <2>2
<1> QED
  BY <1>3, <1>4, <1>5 DEF ToldInv

-----------------------------------------------------------------------------
(* Every step keeps the order.                                             *)

Order ==
    mode = "live" /\ Domains /\ ToldInv /\ \A g \in Gauges : GaugeInv(g)

LEMMA OnceIsOrder == OnceInv /\ Calm => Order
BY DEF OnceInv, Order

\* A gauge of which a step touches nothing.
LEMMA GaugeKept ==
    ASSUME NEW g \in Gauges, GaugeInv(g),
           level'[g] = level[g], episode'[g] = episode[g],
           seen'[g] = seen[g], asked'[g] = asked[g],
           ToldOf(g)' = ToldOf(g), (Key(g) \in armed') <=> (Key(g) \in armed)
    PROVE  GaugeInv(g)'
BY DEF GaugeInv, GaugeTyped, InOrder, Reported, Now

\* What was told of the gauges stays when only other announcements are dropped.
LEMMA ToldOfKept ==
    ASSUME NEW g \in Gauges, told' \subseteq told,
           \A e : <<Key(g), e>> \in told => <<Key(g), e>> \in told'
    PROVE  ToldOf(g)' = ToldOf(g)
BY DEF ToldOf

\* The snapshot's tick: the checks, and the next query where none is on its way.
LEMMA EndTickKeepsOrder ==
    ASSUME OnceInv, Calm, EndTick
    PROVE  Order' /\ NothingAgain
<1>1. Order
  BY OnceIsOrder
<1>2. /\ UNCHANGED <<mode, level, episode, seen>>
      /\ asked' = [g \in Gauges |->
             IF Due(g) /\ (asked[g] = {} \/ Met("overlap"))
             THEN asked[g] \cup {Reading(level[g], "live", episode[g])} ELSE asked[g]]
  BY <1>1 DEF EndTick, Refresh, Order, truth
<1>3. \/ \E over \in BOOLEAN : Checks(kes, TRUE, over) \/ Checks(MaxDays, FALSE, over)
      \/ UNCHANGED <<moved, engine, history>>
  BY Zenon DEF EndTick
<1>4. /\ ToldInv' /\ NothingAgain
      /\ \A g \in Gauges :
             InOrder(seen[g], asked[g], Now(g), ToldOf(g)', Key(g) \in armed')
  <2>1. ASSUME NEW days, NEW tip \in BOOLEAN, NEW over, Checks(days, tip, over)
        PROVE  /\ ToldInv' /\ NothingAgain
               /\ \A g \in Gauges :
                      InOrder(seen[g], asked[g], Now(g), ToldOf(g)', Key(g) \in armed')
    <3>1. sending' = sending \cup Announced(days, tip, over)
      BY <2>1, Zenon DEF Checks
    <3>2. NothingAgain
      BY <3>1, ChecksTellNews DEF NothingAgain
    <3> QED
      BY <2>1, <3>2, ChecksKeepGauge, ChecksKeepTold
  <2>2. CASE UNCHANGED <<moved, engine, history>>
    BY <1>1, <2>2 DEF Order, ToldInv, GaugeInv, ToldOf, NothingAgain, engine, history
  <2> QED
    BY <1>3, <2>1, <2>2
<1>5. ASSUME NEW g \in Gauges
      PROVE  GaugeInv(g)'
  <2>1. GaugeTyped(g) /\ Now(g) \in Readings
    BY <1>1, ReadingFacts DEF Order, GaugeInv, GaugeTyped, Now
  <2>2. asked'[g] = asked[g] \/ (asked[g] = {} /\ asked'[g] = {Now(g)})
    BY <1>2 DEF Calm, Now
  <2>3. ToldOf(g)' \in SUBSET Nat
    BY DEF ToldOf
  <2>4. InOrder(seen[g], asked'[g], Now(g), ToldOf(g)', Key(g) \in armed')
    <3>1. InOrder(seen[g], asked[g], Now(g), ToldOf(g)', Key(g) \in armed')
      BY <1>4
    <3>2. CASE asked'[g] = asked[g]
      BY <3>1, <3>2
    <3>3. CASE asked[g] = {} /\ asked'[g] = {Now(g)}
      <4>1. seen[g] \in Readings \cup {None}
        BY <2>1 DEF GaugeTyped
      <4>2. InOrder(seen[g], {}, Now(g), ToldOf(g)', Key(g) \in armed')
        BY <3>1, <3>3
      <4>3. InOrder(seen[g], {Now(g)}, Now(g), ToldOf(g)', Key(g) \in armed')
        BY <2>1, <2>3, <4>1, <4>2, AskKeepsOrder
      <4> QED
        BY <3>3, <4>3
    <3> QED
      BY <2>2, <3>2, <3>3
  <2>5. Now(g)' = Now(g) /\ GaugeTyped(g)'
    BY <1>2, <2>1, <2>2 DEF Now, GaugeTyped
  <2> QED
    BY <1>2, <2>4, <2>5 DEF GaugeInv
<1>6. mode' = "live" /\ Domains'
  BY <1>1, <1>2 DEF Order, Domains
<1> QED
  BY <1>4, <1>5, <1>6 DEF Order

\* An answer arrives, or the query fails.
LEMMA AnswersKeepOrder ==
    ASSUME OnceInv, Calm, NEW h \in Gauges, AnswerGauge(h) \/ FailGauge(h)
    PROVE  Order' /\ sending' = sending
<1>1. Order
  BY OnceIsOrder
<1>2. UNCHANGED <<mode, level, episode, told, armed, tipSeen, moved, still, sending>>
  BY DEF AnswerGauge, FailGauge, node, truth, app, engine, history
<1>3. PICK r \in asked[h] :
          /\ asked' = [asked EXCEPT ![h] = @ \ {r}]
          /\ \/ seen' = seen
             \/ \E next \in {r, None} : seen' = [seen EXCEPT ![h] = next]
  BY DEF AnswerGauge, FailGauge
<1>4. \/ seen' = seen
      \/ \E next \in {r, None} : seen' = [seen EXCEPT ![h] = next]
  BY <1>3
<1>5. /\ Domains' /\ asked'[h] = asked[h] \ {r} /\ seen'[h] \in {seen[h], r, None}
      /\ \A g \in Gauges : g # h => seen'[g] = seen[g] /\ asked'[g] = asked[g]
  BY <1>1, <1>2, <1>3, <1>4 DEF Order, Domains
<1>6. ASSUME NEW g \in Gauges
      PROVE  GaugeInv(g)'
  <2>1. GaugeInv(g) /\ ToldOf(g)' = ToldOf(g) /\ Now(g)' = Now(g)
    BY <1>1, <1>2 DEF Order, ToldOf, Now
  <2>2. CASE g # h
    BY <1>2, <1>5, <2>1, <2>2, GaugeKept
  <2>3. CASE g = h
    <3>1. GaugeTyped(g) /\ Now(g) \in Readings /\ ToldOf(g) \in SUBSET Nat
      BY <2>1, ReadingFacts DEF GaugeInv, GaugeTyped, Now, ToldOf
    <3>2. r \in asked[g] /\ seen'[g] \in {seen[g], r, None}
      BY <1>5, <2>3
    <3>3. /\ seen[g] \in Readings \cup {None} /\ asked[g] \in SUBSET Readings
          /\ InOrder(seen[g], asked[g], Now(g), ToldOf(g), Key(g) \in armed)
      BY <2>1, <3>1 DEF GaugeInv, GaugeTyped
    <3>4. InOrder(seen'[g], asked[g] \ {r}, Now(g), ToldOf(g), Key(g) \in armed)
      <4>1. seen'[g] = seen[g] \/ seen'[g] = r \/ seen'[g] = None
        BY <3>2
      <4> QED
        BY <3>1, <3>2, <3>3, <4>1, AnswerKeepsOrder, Zenon
    <3>5. GaugeTyped(g)'
      BY <1>2, <1>5, <2>3, <3>1, <3>2, <3>3 DEF GaugeTyped
    <3> QED
      BY <1>2, <1>5, <2>1, <2>3, <3>4, <3>5 DEF GaugeInv
  <2> QED
    BY <2>2, <2>3
<1> QED
  BY <1>1, <1>2, <1>5, <1>6 DEF Order, ToldInv

\* A gauge moves.
LEMMA MovesKeepOrder ==
    ASSUME OnceInv, Calm, NEW h \in Gauges, GaugeMoves(h)
    PROVE  Order' /\ sending' = sending
<1>1. Order
  BY OnceIsOrder
<1>2. UNCHANGED <<mode, seen, asked, told, armed, tipSeen, moved, still, sending>>
  BY DEF GaugeMoves, app, readings, engine, history
<1>3. /\ level'[h] \in {"bad", "mid", "good"} /\ episode'[h] \in Nat
      /\ \/ level'[h] # "good" /\ episode'[h] = episode[h]
         \/ episode'[h] = episode[h] + 1
      /\ Domains'
      /\ \A g \in Gauges : g # h => level'[g] = level[g] /\ episode'[g] = episode[g]
  <2>1. episode[h] \in Nat
    BY <1>1 DEF Order, GaugeInv, GaugeTyped
  <2> QED
    BY <1>1, <1>2, <2>1 DEF GaugeMoves, Order, Domains
<1>4. ASSUME NEW g \in Gauges
      PROVE  GaugeInv(g)'
  <2>1. GaugeInv(g) /\ ToldOf(g)' = ToldOf(g)
    BY <1>1, <1>2 DEF Order, ToldOf
  <2>2. CASE g # h
    BY <1>2, <1>3, <2>1, <2>2, GaugeKept
  <2>3. CASE g = h
    <3>1. /\ GaugeTyped(g) /\ Now(g) \in Readings /\ ToldOf(g) \in SUBSET Nat
          /\ Now(g)' \in Readings
      BY <1>3, <2>1, <2>3, ReadingFacts DEF GaugeInv, GaugeTyped, Now, ToldOf
    <3>2. Later(Now(g), Now(g)')
      BY <1>3, <2>3, <3>1 DEF Later, Now, Reading, GaugeTyped
    <3>3. InOrder(seen[g], asked[g], Now(g)', ToldOf(g), Key(g) \in armed)
      BY <2>1, <3>1, <3>2, MoveKeepsOrder DEF GaugeInv, GaugeTyped
    <3> QED
      BY <1>2, <1>3, <2>1, <2>3, <3>1, <3>3 DEF GaugeInv, GaugeTyped
  <2> QED
    BY <2>2, <2>3
<1> QED
  BY <1>1, <1>2, <1>3, <1>4 DEF Order, ToldInv

\* Disconnect forgets the peers' reading.
LEMMA DisconnectKeepsOrder ==
    ASSUME OnceInv, Calm, Disconnect
    PROVE  Order' /\ sending' = sending
<1>1. Order
  BY OnceIsOrder
<1>2. /\ UNCHANGED <<mode, level, episode, asked, told, armed, tipSeen, moved, still, sending>>
      /\ seen' = [seen EXCEPT !["peers_low"] = None]
  BY DEF Disconnect, truth, engine, history
<1>3. Domains' /\ seen'["peers_low"] = None
  BY <1>1, <1>2 DEF Order, Domains, Gauges
<1>4. ASSUME NEW g \in Gauges
      PROVE  GaugeInv(g)'
  <2>1. GaugeInv(g) /\ ToldOf(g)' = ToldOf(g) /\ Now(g)' = Now(g)
    BY <1>1, <1>2 DEF Order, ToldOf, Now
  <2>2. CASE g # "peers_low"
    <3>1. seen'[g] = seen[g]
      BY <1>1, <1>2, <2>2 DEF Order, Domains
    <3> QED
      BY <1>2, <2>1, <3>1, GaugeKept
  <2>3. CASE g = "peers_low"
    <3>1. GaugeTyped(g) /\ Now(g) \in Readings /\ ToldOf(g) \in SUBSET Nat
      BY <2>1, ReadingFacts DEF GaugeInv, GaugeTyped, Now, ToldOf
    <3>2. InOrder(None, asked[g], Now(g), ToldOf(g), Key(g) \in armed)
      BY <2>1, <3>1, ForgetKeepsOrder DEF GaugeInv, GaugeTyped
    <3> QED
      BY <1>2, <1>3, <2>1, <2>3, <3>1, <3>2 DEF GaugeInv, GaugeTyped
  <2> QED
    BY <2>2, <2>3
<1> QED
  BY <1>1, <1>2, <1>3, <1>4 DEF Order, ToldInv

\* After a restart nothing is told, shown or asked.
LEMMA RestartKeepsOrder ==
    ASSUME OnceInv, Calm, Restart
    PROVE  Order' /\ sending' = {}
<1>1. Order
  BY OnceIsOrder
<1>2. /\ mode' = "live" /\ UNCHANGED <<level, episode>>
      /\ seen' = [g \in Gauges |-> None] /\ asked' = [g \in Gauges |-> {}]
      /\ told' = {} /\ sending' = {}
  BY DEF Restart, truth
<1>3. ASSUME NEW g \in Gauges
      PROVE  GaugeInv(g)'
  <2>1. GaugeTyped(g)'
    BY <1>1, <1>2 DEF Order, GaugeInv, GaugeTyped
  <2>2. ToldOf(g)' = {} /\ seen'[g] = None /\ asked'[g] = {}
    BY <1>2 DEF ToldOf
  <2> QED
    BY <2>1, <2>2 DEF GaugeInv, InOrder, Follow, Reported
<1> QED
  BY <1>1, <1>2, <1>3 DEF Order, Domains, ToldInv

\* Steps that touch nothing of it, but that messages arrive.
LEMMA IdleKeepsOrder ==
    ASSUME OnceInv, Calm,
           UNCHANGED <<mode, level, episode, seen, asked, told, armed, tipSeen, moved, still>>
    PROVE  Order'
BY OnceIsOrder
   DEF Order, Domains, ToldInv, GaugeInv, GaugeTyped, InOrder, Follow, Reported, ToldOf, Now

\* Time passes, the tip moves or the key is rotated: the gauges are as they were.
LEMMA NewsKeepsOrder ==
    ASSUME OnceInv, Calm, Pass \/ TipMoves \/ Rotate
    PROVE  Order' /\ sending' = sending
<1>1. Order /\ IInv
  BY OnceIsOrder DEF OnceInv
<1>2. /\ UNCHANGED <<mode, level, episode, seen, asked, armed, tipSeen, sending>>
      /\ told' \subseteq told
      /\ \A g \in Gauges : \A e : <<Key(g), e>> \in told => <<Key(g), e>> \in told'
  <2>1. CASE Pass
    BY <2>1 DEF Pass, truth, app, readings, history
  <2>2. CASE TipMoves
    <3>1. \A g \in Gauges : \A e : <<Key(g), e>> # <<Key("node_stall"), 0>>
      BY KeyFacts DEF Gauges
    <3> QED
      BY <2>2, <3>1 DEF TipMoves, truth, app, readings, engine
  <2>3. CASE Rotate
    <3>1. \A g \in Gauges : \A e : <<Key(g), e>> \notin {<<Kes(d), 0>> : d \in WarnDays}
      BY KeyFacts DEF Edges
    <3> QED
      BY <2>3, <3>1 DEF Rotate, truth, app, readings, engine
  <2> QED
    BY <2>1, <2>2, <2>3
<1>3. ToldInv'
  <2>1. CASE Pass
    <3>1. still >= StallAfter => still' >= StallAfter
      BY <1>1, <2>1, StallAfterAssumption DEF IInv, Pass, UpTo
    <3> QED
      BY <1>1, <2>1, <3>1 DEF Order, ToldInv, Pass, history
  <2>2. CASE TipMoves
    BY <1>1, <2>2 DEF Order, ToldInv, TipMoves, engine
  <2>3. CASE Rotate
    BY <1>1, <2>3 DEF Order, ToldInv, Rotate, engine
  <2> QED
    BY <2>1, <2>2, <2>3
<1>4. ASSUME NEW g \in Gauges
      PROVE  GaugeInv(g)'
  <2>1. GaugeInv(g) /\ ToldOf(g)' = ToldOf(g)
    BY <1>1, <1>2, ToldOfKept DEF Order
  <2> QED
    BY <1>2, <2>1, GaugeKept
<1> QED
  BY <1>1, <1>2, <1>3, <1>4 DEF Order, Domains

\* No demo is entered, and none is left.
LEMMA NoDemo ==
    ASSUME OnceInv, Calm
    PROVE  ~DemoTick /\ ~EnterDemo /\ ~LeaveDemo
BY OnceIsOrder DEF Order, Calm, DemoTick, EnterDemo, LeaveDemo, Disturbed

LEMMA InitOnce == Init => OnceInv
<1> SUFFICES ASSUME Init
             PROVE  OnceInv
  OBVIOUS
<1>1. /\ mode = "live" /\ told = {}
      /\ level = [g \in Gauges |-> "good"] /\ episode = [g \in Gauges |-> 0]
      /\ seen = [g \in Gauges |-> None] /\ asked = [g \in Gauges |-> {}]
  BY DEF Init
<1>2. ASSUME NEW g \in Gauges
      PROVE  GaugeInv(g)
  <2>1. GaugeTyped(g) /\ ToldOf(g) = {} /\ seen[g] = None /\ asked[g] = {}
    BY <1>1 DEF GaugeTyped, ToldOf
  <2> QED
    BY <2>1 DEF GaugeInv, InOrder, Follow, Reported
<1> QED
  BY <1>1, <1>2, InitInv DEF OnceInv, Domains, ToldInv

\* A step of a calm execution announces only what is news.
LEMMA CalmStep ==
    ASSUME OnceInv, Calm, Next
    PROVE  Order' /\ NothingAgain
<1> USE DEF NothingAgain
<1>1. CASE EndTick
  BY <1>1, EndTickKeepsOrder
<1>2. ASSUME NEW g \in Gauges, AnswerGauge(g) \/ FailGauge(g) \/ GaugeMoves(g)
      PROVE  Order' /\ sending' = sending
  BY <1>2, AnswersKeepOrder, MovesKeepOrder
<1>3. ASSUME NEW k \in sending, SendEnds(k)
      PROVE  Order' /\ sending' \subseteq sending
  <2>1. UNCHANGED <<mode, level, episode, seen, asked, told, armed, tipSeen, moved, still>>
    BY <1>3 DEF SendEnds, node, truth, app, readings, engine
  <2> QED
    BY <1>3, <2>1, IdleKeepsOrder DEF SendEnds
<1>4. CASE Disconnect \/ Restart
  BY <1>4, DisconnectKeepsOrder, RestartKeepsOrder
<1>5. CASE Pass \/ TipMoves \/ Rotate
  BY <1>5, NewsKeepsOrder
<1>6. ASSUME BeginTick \/ FailTick \/ Link \/ ChangeView \/ Reconnect \/ NodeFlips
               \/ DayPasses \/ SlowBlock \/ QuietFlips \/ (\E id \in Alerts : Toggle(id))
      PROVE  Order' /\ sending' = sending
  <2>1. UNCHANGED <<mode, level, episode, seen, asked, told, armed, tipSeen, moved, still,
                    sending>>
    BY <1>6 DEF BeginTick, FailTick, Link, ChangeView, Reconnect, NodeFlips, DayPasses,
                SlowBlock, QuietFlips, Toggle, node, truth, app, readings, engine, history
  <2> QED
    BY <2>1, IdleKeepsOrder
<1> QED
  BY <1>1, <1>2, <1>3, <1>4, <1>5, <1>6, NoDemo DEF Next

\* An execution's disturbances are chosen once.
LEMMA CalmStays ==
    ASSUME [Next]_vars
    PROVE  Calm' <=> Calm
<1>1. world' = world
  BY DEF Next, vars, BeginTick, DemoTick, EndTick, FailTick, AnswerGauge, FailGauge,
         GaugeMoves, SendEnds, Link, ChangeView, EnterDemo, LeaveDemo, Disconnect,
         Reconnect, Restart, Toggle, Pass, TipMoves, NodeFlips, DayPasses, Rotate,
         SlowBlock, QuietFlips
<1> QED
  BY <1>1 DEF Calm, Met

LEMMA OnceStep ==
    ASSUME OnceInv, [Next]_vars
    PROVE  OnceInv' /\ (Calm => NothingAgain)
<1>1. IInv'
  BY NextStep DEF OnceInv
<1>2. ASSUME Calm
      PROVE  Order' /\ NothingAgain
  <2>1. CASE Next
    BY <1>2, <2>1, CalmStep
  <2>2. CASE UNCHANGED vars
    BY <1>2, <2>2, IdleKeepsOrder
       DEF vars, node, truth, app, readings, engine, history, NothingAgain
  <2> QED
    BY <2>1, <2>2
<1> QED
  BY <1>1, <1>2, CalmStays DEF OnceInv, Order

\* A condition that lasts is announced once: not again before it has really cleared,
\* however the cooldown runs, quiet hours come and go, queries fail, nodes go and the
\* operator reconnects or starts anew (alerts-engine.js:119-182).
THEOREM OnceHolds == Spec => OncePerEpisode
<1>1. Init => OnceInv
  BY InitOnce
<1>2. OnceInv /\ [Next]_vars => OnceInv'
  BY OnceStep
<1>3. OnceInv /\ [Next]_vars => [Calm => NothingAgain]_vars
  BY OnceStep
<1>4. OncePerEpisode <=> [][Calm => NothingAgain]_vars
  BY DEF OncePerEpisode, Calm, NothingAgain
<1> QED
  BY <1>1, <1>2, <1>3, <1>4, PTL DEF Spec
-----------------------------------------------------------------------------
(* The types, in the parts that change together.                           *)

NodeTyped ==
    /\ world \in Worlds
    /\ up \in BOOLEAN /\ moved \in BOOLEAN /\ slow \in BOOLEAN /\ quiet \in BOOLEAN
    /\ level \in [Gauges -> {"bad", "mid", "good"}] /\ episode \in [Gauges -> 0..MaxEpisode]
    /\ kes \in 0..MaxDays /\ tipAge \in 0..StallAfter
    /\ disturbed \in 0..MaxDisturb

AppTyped ==
    /\ mode \in {"live", "demo"}
    /\ loop \in BOOLEAN /\ dash \in BOOLEAN /\ tick \in BOOLEAN
    /\ linked \in BOOLEAN /\ on \subseteq world \cap Alerts

ReadingsTyped ==
    /\ seen \in [Gauges -> {None} \cup DemoReadings \cup LiveReadings]
    /\ asked \in [Gauges -> SUBSET LiveReadings]

EngineTyped ==
    /\ tipSeen \in BOOLEAN /\ still \in 0..StallAfter
    /\ armed \subseteq Keys /\ cool \in [Alerts -> 0..Cooldown]

HistoryTyped ==
    /\ sending \subseteq Keys \cup {Key("slow_block")}
    /\ told \subseteq Keys \X (0..MaxEpisode) /\ got \subseteq Keys

Typed == NodeTyped /\ AppTyped /\ ReadingsTyped /\ EngineTyped /\ HistoryTyped

LEMMA TypedIsTypeOK == Typed <=> TypeOK
<1>1. {up, moved, slow, quiet, loop, dash, tick, linked, tipSeen} \subseteq BOOLEAN <=>
        /\ up \in BOOLEAN /\ moved \in BOOLEAN /\ slow \in BOOLEAN /\ quiet \in BOOLEAN
        /\ loop \in BOOLEAN /\ dash \in BOOLEAN /\ tick \in BOOLEAN
        /\ linked \in BOOLEAN /\ tipSeen \in BOOLEAN
  OBVIOUS
<1> QED
  BY <1>1 DEF Typed, TypeOK, NodeTyped, AppTyped, ReadingsTyped, EngineTyped, HistoryTyped

LEMMA DisturbedTyped ==
    ASSUME disturbed \in 0..MaxDisturb, NEW kind, Disturbed(kind)
    PROVE  disturbed' \in 0..MaxDisturb
BY BoundsAssumption DEF Disturbed

LEMMA GaugesAre == "peers_low" \in Gauges /\ "mempool_full" \in Gauges
BY DEF Gauges

\* A reading of the truth is a live one, and an episode was reached.
LEMMA ReadingsAre ==
    ASSUME NodeTyped, ReadingsTyped, NEW g \in Gauges
    PROVE  /\ Reading(level[g], "live", episode[g]) \in LiveReadings
           /\ seen[g].episode \in 0..MaxEpisode
<1>1. Reading(level[g], "live", episode[g]) \in LiveReadings
  BY DEF NodeTyped, LiveReadings
<1>2. seen[g] = None \/ seen[g] \in DemoReadings \/ seen[g] \in LiveReadings
  BY DEF ReadingsTyped
<1>3. seen[g].episode \in 0..MaxEpisode
  BY <1>2, BoundsAssumption DEF None, DemoReadings, LiveReadings, Reading
<1> QED
  BY <1>1, <1>3

LEMMA RefreshTyped ==
    ASSUME NodeTyped, ReadingsTyped, Refresh
    PROVE  ReadingsTyped'
<1>1. CASE mode = "demo"
  BY <1>1, Zenon DEF Refresh, ReadingsTyped
<1>2. CASE mode # "demo"
  BY <1>2, ReadingsAre DEF Refresh, ReadingsTyped
<1> QED
  BY <1>1, <1>2

\* Only the keys of alerts switched on, and of warn-days, are ever announced.
LEMMA AnnouncedKeys ==
    ASSUME NEW days, NEW tip, NEW over
    PROVE  /\ Holding(tip) \subseteq Keys /\ KesHit(days) \subseteq Keys
           /\ Announced(days, tip, over) \subseteq Keys \cup {Key("slow_block")}
<1>1. Holding(tip) \subseteq Keys
  BY DEF Holding, Keys
<1>2. KesHit(days) \subseteq Keys
  BY DEF KesHit, Hit, Keys
<1> QED
  BY <1>1, <1>2 DEF Announced

LEMMA ChecksTyped ==
    ASSUME NodeTyped, ReadingsTyped, EngineTyped, HistoryTyped,
           NEW days, NEW tip \in BOOLEAN, NEW over, Checks(days, tip, over)
    PROVE  EngineTyped' /\ HistoryTyped' /\ moved' \in BOOLEAN
<1> DEFINE out == Announced(days, tip, over)
<1>1. out \subseteq Keys \cup {Key("slow_block")} /\ KesHit(days) \subseteq Keys
      /\ Holding(tip) \subseteq Keys
  BY AnnouncedKeys
<1>2. /\ armed' = (armed \ Clearing(tip)) \cup KesHit(days) \cup (out \cap Holding(tip))
      /\ cool' = [id \in Alerts |-> IF \E k \in out : k[1] = id THEN Cooldown ELSE cool[id]]
      /\ still' = (IF tip THEN StillNow ELSE still)
      /\ tipSeen' = (tipSeen \/ tip)
      /\ moved' = (moved /\ ~tip)
      /\ sending' = sending \cup out
      /\ told' = told \cup {<<k, EpisodeOf(k)>> : k \in out \cap Keys}
      /\ got' = got \ Clearing(tip)
  BY Zenon DEF Checks
<1> HIDE DEF out
<1>3. armed' \subseteq Keys /\ sending' \subseteq Keys \cup {Key("slow_block")} /\ got' \subseteq Keys
  BY <1>1, <1>2 DEF EngineTyped, HistoryTyped
<1>4. cool' \in [Alerts -> 0..Cooldown]
  BY <1>2, CooldownAssumption DEF EngineTyped
<1>5. still' \in 0..StallAfter
  BY <1>2, StallAfterAssumption DEF EngineTyped, StillNow
<1>6. tipSeen' \in BOOLEAN /\ moved' \in BOOLEAN
  BY <1>2, Zenon
<1>7. ASSUME NEW k \in Keys PROVE EpisodeOf(k) \in 0..MaxEpisode
  BY ReadingsAre, BoundsAssumption DEF EpisodeOf
<1>8. told' \subseteq Keys \X (0..MaxEpisode)
  BY <1>2, <1>7 DEF HistoryTyped
<1> QED
  BY <1>3, <1>4, <1>5, <1>6, <1>8 DEF EngineTyped, HistoryTyped

LEMMA EndTickTyped ==
    ASSUME Typed, EndTick
    PROVE  Typed'
<1>1. ReadingsTyped'
  BY RefreshTyped DEF Typed, EndTick
<1>2. AppTyped'
  BY DEF Typed, AppTyped, EndTick, config
<1>3. slow' \in BOOLEAN
  BY DEF Typed, NodeTyped, EndTick
<1>4. CASE UNCHANGED <<moved, engine, history, disturbed>>
  BY <1>1, <1>2, <1>3, <1>4
     DEF Typed, NodeTyped, EngineTyped, HistoryTyped, EndTick, truth, engine, history
<1>5. ASSUME NEW over, NEW days, NEW tip \in BOOLEAN, Checks(days, tip, over),
             disturbed' \in 0..MaxDisturb
      PROVE  Typed'
  <2>1. EngineTyped' /\ HistoryTyped' /\ moved' \in BOOLEAN
    BY <1>5, ChecksTyped DEF Typed
  <2> QED
    BY <1>1, <1>2, <1>3, <1>5, <2>1 DEF Typed, NodeTyped, EndTick, truth
<1>6. \/ UNCHANGED <<moved, engine, history, disturbed>>
      \/ \E over \in BOOLEAN : \/ Checks(kes, TRUE, over) /\ UNCHANGED disturbed
                               \/ Disturbed("unknown") /\ Checks(MaxDays, FALSE, over)
  BY Zenon DEF EndTick
<1>7. disturbed \in 0..MaxDisturb
  BY DEF Typed, NodeTyped
<1> QED
  BY <1>4, <1>5, <1>6, <1>7, DisturbedTyped

\* The other steps of the main loop and the answers.
LEMMA LoopTyped ==
    ASSUME Typed, BeginTick \/ DemoTick \/ FailTick
           \/ \E g \in Gauges : AnswerGauge(g) \/ FailGauge(g)
    PROVE  Typed'
<1> USE DEF Typed, NodeTyped, AppTyped, ReadingsTyped, EngineTyped, HistoryTyped,
            node, truth, app, readings, config, engine, history
<1>1. CASE BeginTick \/ FailTick
  BY <1>1 DEF BeginTick, FailTick
<1>2. CASE DemoTick
  <2>1. ReadingsTyped'
    BY <1>2, RefreshTyped DEF DemoTick
  <2> QED
    BY <1>2, <2>1 DEF DemoTick
<1>3. ASSUME NEW g \in Gauges, AnswerGauge(g) PROVE Typed'
  BY <1>3 DEF AnswerGauge
<1>4. ASSUME NEW g \in Gauges, FailGauge(g) PROVE Typed'
  BY <1>4, DisturbedTyped DEF FailGauge
<1> QED
  BY <1>1, <1>2, <1>3, <1>4

LEMMA SendEndsTyped ==
    ASSUME Typed, NEW k \in sending, SendEnds(k)
    PROVE  Typed'
BY DisturbedTyped DEF SendEnds, Typed, NodeTyped, AppTyped, ReadingsTyped, EngineTyped,
   HistoryTyped, node, truth, app, readings, config, engine

LEMMA OperatorTyped ==
    ASSUME Typed, Link \/ ChangeView \/ EnterDemo \/ LeaveDemo \/ Disconnect \/ Reconnect
                  \/ \E id \in Alerts : Toggle(id)
    PROVE  Typed'
<1> USE DisturbedTyped
        DEF Typed, NodeTyped, AppTyped, ReadingsTyped, EngineTyped, HistoryTyped,
            node, truth, app, readings, config, engine, history
<1>1. CASE Link \/ EnterDemo \/ LeaveDemo \/ Reconnect
  <2>1. loop' \in BOOLEAN /\ dash' \in BOOLEAN /\ linked' \in BOOLEAN
    BY <1>1, Zenon DEF Link, EnterDemo, LeaveDemo, Reconnect
  <2>2. disturbed' \in 0..MaxDisturb
    BY <1>1 DEF Link, EnterDemo, LeaveDemo, Reconnect
  <2> QED
    BY <1>1, <2>1, <2>2 DEF Link, EnterDemo, LeaveDemo, Reconnect
<1>4. CASE ChangeView
  <2>1. dash' \in BOOLEAN
    BY <1>4, Zenon DEF ChangeView
  <2>2. disturbed' \in 0..MaxDisturb
    BY <1>4 DEF ChangeView
  <2> QED
    BY <1>4, <2>1, <2>2 DEF ChangeView
<1>2. CASE Disconnect
  BY <1>2 DEF Disconnect
<1>3. ASSUME NEW id \in Alerts, Toggle(id) PROVE Typed'
  BY <1>3 DEF Toggle
<1> QED
  BY <1>1, <1>2, <1>3, <1>4

LEMMA RestartTyped ==
    ASSUME Typed, Restart
    PROVE  Typed'
<1>1. NodeTyped' /\ AppTyped'
  BY DisturbedTyped DEF Restart, Typed, NodeTyped, AppTyped, truth
<1>2. ReadingsTyped'
  BY DEF Restart, ReadingsTyped
<1>3. cool' \in [Alerts -> 0..Cooldown]
  BY CooldownAssumption DEF Restart
<1>4. EngineTyped'
  <2>1. tipSeen' \in BOOLEAN /\ armed' \subseteq Keys
    BY Zenon DEF Restart
  <2>2. still' \in 0..StallAfter
    BY StallAfterAssumption DEF Restart
  <2> QED
    BY <1>3, <2>1, <2>2 DEF EngineTyped
<1>5. HistoryTyped'
  BY DEF Restart, HistoryTyped
<1> QED
  BY <1>1, <1>2, <1>4, <1>5 DEF Typed

LEMMA PassTyped ==
    ASSUME Typed, Pass
    PROVE  Typed'
<1>1. NodeTyped'
  BY StallAfterAssumption DEF Pass, Typed, NodeTyped, UpTo, truth
<1>2. EngineTyped'
  BY StallAfterAssumption, CooldownAssumption DEF Pass, Typed, EngineTyped, UpTo
<1>3. AppTyped' /\ ReadingsTyped' /\ HistoryTyped'
  BY DEF Pass, Typed, AppTyped, ReadingsTyped, HistoryTyped, app, readings, config, history
<1> QED
  BY <1>1, <1>2, <1>3 DEF Typed

LEMMA GaugeMovesTyped ==
    ASSUME Typed, NEW g \in Gauges, GaugeMoves(g)
    PROVE  Typed'
<1>1. NodeTyped'
  BY BoundsAssumption DEF GaugeMoves, Typed, NodeTyped
<1> QED
  BY <1>1 DEF GaugeMoves, Typed, AppTyped, ReadingsTyped, EngineTyped, HistoryTyped,
     app, readings, config, engine, history

LEMMA OutsideTyped ==
    ASSUME Typed, TipMoves \/ NodeFlips \/ DayPasses \/ Rotate \/ SlowBlock \/ QuietFlips
    PROVE  Typed'
<1> USE DisturbedTyped
        DEF Typed, AppTyped, ReadingsTyped, EngineTyped, HistoryTyped,
            truth, app, readings, config, engine, history
<1>1. CASE TipMoves
  BY <1>1, StallAfterAssumption DEF TipMoves, NodeTyped
<1>2. CASE NodeFlips \/ SlowBlock \/ QuietFlips
  <2>1. up' \in BOOLEAN /\ quiet' \in BOOLEAN
    BY <1>2, Zenon DEF NodeFlips, SlowBlock, QuietFlips, NodeTyped
  <2>2. disturbed' \in 0..MaxDisturb
    BY <1>2 DEF NodeFlips, SlowBlock, QuietFlips, NodeTyped
  <2> QED
    BY <1>2, <2>1, <2>2 DEF NodeFlips, SlowBlock, QuietFlips, NodeTyped
<1>3. CASE DayPasses \/ Rotate
  BY <1>3, WarnDaysAssumption DEF DayPasses, Rotate, NodeTyped
<1> QED
  BY <1>1, <1>2, <1>3

\* Every variable keeps to its type; in particular the engine's memory holds only
\* keys that can be announced or re-armed (alerts-engine.js:100-135).
THEOREM AlertsEngineTyped == Spec => []TypeOK
<1>1. ASSUME Init PROVE Typed
  <2>1. NodeTyped
    <3>1. up \in BOOLEAN /\ moved \in BOOLEAN /\ slow \in BOOLEAN /\ quiet \in BOOLEAN
      BY <1>1, Zenon DEF Init
    <3>2. kes \in 0..MaxDays /\ tipAge \in 0..StallAfter /\ disturbed \in 0..MaxDisturb
      BY <1>1, BoundsAssumption, StallAfterAssumption, WarnDaysAssumption DEF Init
    <3>3. episode \in [Gauges -> 0..MaxEpisode] /\ level \in [Gauges -> {"bad", "mid", "good"}]
      BY <1>1, BoundsAssumption DEF Init
    <3> QED
      BY <1>1, <3>1, <3>2, <3>3 DEF Init, NodeTyped
  <2>4. AppTyped
    BY <1>1 DEF Init, AppTyped
  <2>2. ReadingsTyped
    BY <1>1 DEF Init, ReadingsTyped
  <2>3. cool \in [Alerts -> 0..Cooldown]
    BY <1>1, CooldownAssumption DEF Init
  <2>5. EngineTyped
    <3>1. tipSeen \in BOOLEAN /\ armed \subseteq Keys
      BY <1>1, Zenon DEF Init
    <3>2. still \in 0..StallAfter
      BY <1>1, StallAfterAssumption DEF Init
    <3> QED
      BY <2>3, <3>1, <3>2 DEF EngineTyped
  <2>6. HistoryTyped
    BY <1>1 DEF Init, HistoryTyped
  <2> QED
    BY <2>1, <2>2, <2>4, <2>5, <2>6 DEF Typed
<1>2. ASSUME Typed, [Next]_vars PROVE Typed'
  <2>1. CASE Next
    BY <1>2, <2>1, EndTickTyped, LoopTyped, SendEndsTyped, OperatorTyped, RestartTyped,
       PassTyped, GaugeMovesTyped, OutsideTyped DEF Next
  <2>2. CASE UNCHANGED vars
    BY <1>2, <2>2 DEF vars, Typed, NodeTyped, AppTyped, ReadingsTyped, EngineTyped,
       HistoryTyped, node, truth, app, readings, config, engine, history
  <2> QED
    BY <1>2, <2>1, <2>2
<1> QED
  BY <1>1, <1>2, TypedIsTypeOK, PTL DEF Spec
=============================================================================
