------------------------- MODULE ReadingsBaseProofs -------------------------
(* The log table, the KES check, the moves, the wizard, the meter of Koios'   *)
(* requests, the places of the peers and the marks of the mempool each keep   *)
(* their promise, for any value of their constants: an inductive invariant of *)
(* each, preserved by its steps. ReadingsProofs says so of the run.           *)
EXTENDS ReadingsBase, FiniteSetTheorems, SequenceTheorems, WellFoundedInduction, TLAPS

LEMMA MaxOfTwo ==
    ASSUME NEW a \in Int, NEW b \in Int
    PROVE  Kes!Max({a, b}) \in Int /\ Kes!Max({a, b}) \in {a, b}
           /\ Kes!Max({a, b}) >= a /\ Kes!Max({a, b}) >= b
<1>1. \E x \in {a, b} : \A y \in {a, b} : x >= y
  OBVIOUS
<1>2. Kes!Max({a, b}) \in {a, b} /\ \A y \in {a, b} : Kes!Max({a, b}) >= y
  BY <1>1, Zenon DEF Kes!Max
<1> QED  BY <1>2

-----------------------------------------------------------------------------
(* The logs (LogsView).                                                    *)

LEMMA LogsStart == Logs!Init => Logs!TableFollows
BY DEF Logs!Init, Logs!TableFollows, Logs!TableIsOfItsSource, Logs!Shows, Logs!NoRun

\* A query that begins: what it waits for is its own.
LEMMA LogsWaits ==
    ASSUME \A t \in v13 : Logs!Waits(t), NEW run, run.q \in Logs!Queries,
           Logs!StartLive(run) \/ Logs!StartDemo(run)
    PROVE  \A t \in v13' : Logs!Waits(t)
BY DEF Logs!StartLive, Logs!StartDemo, Logs!Waits, Logs!Task, Logs!FirstStep, Logs!Queries

\* Click, PickWindow and PickSource: the panel is the query's, or as it was under the
\* epoch view.
LEMMA LogsBegin ==
    ASSUME Logs!TableFollows, NEW q \in Logs!Queries, Logs!Start(q)
    PROVE  /\ \A t \in v13' : Logs!Waits(t)
           /\ q = "blocks" => v5'.of.q = "blocks" /\ v5'.of.arg = v9'
           /\ q # "blocks" => v9' = v9
           /\ q \notin {"blocks", "epochtx"} => v5'.of.q = q
           /\ q = "epochtx" => v5' = v5 \/ v5'.of.q = q
<1> DEFINE run == [n |-> v14', q |-> q, arg |-> Logs!Argument(q), mount |-> v2, demo |-> v3]
<1>1. Logs!StartLive(run) \/ Logs!StartDemo(run)
  BY DEF Logs!Start
<1>2. \A t \in v13' : Logs!Waits(t)
  <2>1. run.q \in Logs!Queries
    OBVIOUS
  <2> HIDE DEF run
  <2> QED  BY <1>1, <2>1, LogsWaits DEF Logs!TableFollows
<1>3. run.q = q /\ (q = "blocks" => run.arg = v9')
  BY DEF Logs!Argument
<1>4. \/ v5' = Logs!Shows(run, "loading")
      \/ v5' = Logs!Shows(run, "rows")
      \/ q = "epochtx" /\ v5' = v5
  BY <1>1, <1>3 DEF Logs!StartLive, Logs!StartDemo
<1>5. q # "blocks" => v9' = v9
  BY DEF Logs!Start
<1> HIDE DEF run
<1> QED  BY <1>2, <1>3, <1>4, <1>5 DEF Logs!Shows

LEMMA LogsNext ==
    ASSUME Logs!TableFollows, Logs!Next PROVE Logs!TableFollows'
<1> USE DEF Logs!TableFollows, Logs!TableIsOfItsSource
<1>1. CASE Logs!Mount
  BY <1>1 DEF Logs!Mount, Logs!Opened, Logs!Shows, Logs!NoRun, Logs!page
<1>2. CASE Logs!Leave \/ Logs!Connects \/ \E u \in Units : Logs!Save(u)
  BY <1>2 DEF Logs!Leave, Logs!Connects, Logs!Save, Logs!page
<1>3. ASSUME NEW q \in Logs!Queries, Logs!Click(q) PROVE Logs!TableFollows'
  BY <1>3, LogsBegin DEF Logs!Click, Logs!Queries
<1>4. ASSUME NEW w \in LogWindows, Logs!PickWindow(w) PROVE Logs!TableFollows'
  <2>1. v5.of.q \in Logs!Queries /\ v5.of.q \notin {"lines", "blocks"}
    BY <1>4 DEF Logs!PickWindow, Logs!HasWindowBar, Logs!Queries
  <2> QED  BY <1>4, <2>1, LogsBegin DEF Logs!PickWindow
<1>5. ASSUME NEW s, Logs!PickSource(s) PROVE Logs!TableFollows'
  <2> DEFINE run == [n |-> v14', q |-> "blocks", arg |-> s, mount |-> v2, demo |-> v3]
  <2>1. Logs!StartLive(run) \/ Logs!StartDemo(run)
    BY <1>5 DEF Logs!PickSource
  <2>2. run.q \in Logs!Queries /\ run.q = "blocks" /\ run.arg = s
    BY DEF Logs!Queries
  <2>3. v5'.of = run
    BY <2>1, <2>2 DEF Logs!StartLive, Logs!StartDemo, Logs!Shows
  <2> HIDE DEF run
  <2>4. \A t \in v13' : Logs!Waits(t)
    BY <2>1, <2>2, LogsWaits
  <2> QED  BY <1>5, <2>2, <2>3, <2>4 DEF Logs!PickSource
<1>6. ASSUME NEW t \in v13, Logs!Answer(t) PROVE Logs!TableFollows'
  <2>0. Logs!Waits(t)
    OBVIOUS
  <2>1. CASE Logs!FormatAnswers(t)
    <3>1. PICK fmt \in {"human", "json"} :
              Logs!Becomes(t, Logs!Task(t.run, "lines", fmt, t.mount))
      BY <2>1 DEF Logs!FormatAnswers
    <3>2. t.run.q = "lines"
      BY <2>0, <2>1 DEF Logs!Waits, Logs!FormatAnswers
    <3>3. Logs!Waits(Logs!Task(t.run, "lines", fmt, t.mount))
      BY <3>2 DEF Logs!Task, Logs!Waits
    <3> QED  BY <2>1, <3>1, <3>3 DEF Logs!FormatAnswers, Logs!Becomes, Logs!page
  <2>2. CASE Logs!LinesAnswer(t)
    BY <2>0, <2>2 DEF Logs!LinesAnswer, Logs!Waits, Logs!Paint, Logs!Ends, Logs!Fails, Logs!Shows
  <2>3. CASE Logs!BlocksAnswer(t)
    BY <2>0, <2>3 DEF Logs!BlocksAnswer, Logs!InnerOnPage, Logs!Paint, Logs!Ends, Logs!Fails,
                      Logs!Shows
  <2>4. CASE Logs!PropagationAnswers(t)
    <3>0. t.run.q = "propagation"
      BY <2>0, <2>4 DEF Logs!Waits, Logs!PropagationAnswers
    <3>1. Logs!Waits(Logs!Task(t.run, "enrich", t.fmt, t.mount))
      BY <3>0 DEF Logs!Task, Logs!Waits
    <3> QED  BY <2>4, <3>0, <3>1 DEF Logs!PropagationAnswers, Logs!Paint, Logs!Ends, Logs!Fails,
                               Logs!Becomes, Logs!Shows
  <2>5. CASE Logs!EnrichAnswers(t)
    <3>0. t.run.q = "propagation"
      BY <2>0, <2>5 DEF Logs!Waits, Logs!EnrichAnswers
    <3>1. Logs!Waits(Logs!Task(t.run, "reread", t.fmt, v2))
      BY <3>0 DEF Logs!Task, Logs!Waits
    <3> QED  BY <2>5, <3>1 DEF Logs!EnrichAnswers, Logs!Ends, Logs!Becomes, Logs!page
  <2>6. CASE Logs!RereadAnswers(t)
    BY <2>0, <2>6 DEF Logs!RereadAnswers, Logs!Waits, Logs!Ends, Logs!Shows
  <2>7. CASE Logs!EpochAnswers(t)
    BY <2>0, <2>7 DEF Logs!EpochAnswers, Logs!Waits, Logs!Paint, Logs!Ends, Logs!Fails, Logs!Shows
  <2> QED  BY <1>6, <2>1, <2>2, <2>3, <2>4, <2>5, <2>6, <2>7 DEF Logs!Answer
<1> QED  BY <1>1, <1>2, <1>3, <1>4, <1>5, <1>6 DEF Logs!Next

-----------------------------------------------------------------------------
(* The KES check (KesReading).                                             *)

KesTyped ==
    /\ v1 \in Nat /\ v3 \in BOOLEAN /\ v5.at \in Int /\ v7 \in 0..v1
    /\ v9 \in 0..v1 /\ v10 \in Int
    /\ v2 \in [0..v1 -> [up : BOOLEAN, disk : Nat, chain : Nat, expiry : Nat]]

KesInv ==
    /\ KesTyped /\ Kes!Asked /\ Kes!Watched
    /\ Kes!ReadingIsRecent /\ Kes!FailingScoresNothing

LEMMA KesStart == Kes!Init => KesInv
<1> SUFFICES ASSUME Kes!Init PROVE KesInv
  OBVIOUS
<1> USE KesAssumption DEF Kes!Init
<1>1. KesTyped
  BY DEF KesTyped, Kes!Fresh
<1>2. Kes!Asked /\ Kes!Watched
  BY DEF Kes!Asked, Kes!Watched, Kes!OpenSince
<1>3. Kes!ReadingIsRecent /\ Kes!FailingScoresNothing
  BY DEF Kes!ReadingIsRecent, Kes!FailingScoresNothing, Kes!Steady
<1> QED  BY <1>1, <1>2, <1>3 DEF KesInv

\* Time passes: what was answered stays answered.
LEMMA KesTick ==
    ASSUME KesInv, NEW next \in [up : BOOLEAN, disk : Nat, chain : Nat, expiry : Nat],
           Kes!Tick(next)
    PROVE  KesInv'
<1> USE KesAssumption
<1>0. /\ v1 \in Nat /\ v7 \in Int /\ v9 \in Int /\ v1' = v1 + 1 /\ v3' = TRUE /\ ~v3
      /\ UNCHANGED <<v4, v5, v6, v7, v8, v9, v10>>
      /\ \A asked \in v6 : v1 < asked + Timeout
      /\ \A t \in 0..v1 : t \in Int /\ t \in 0..v1' /\ v2'[t] = v2[t]
  BY DEF KesInv, KesTyped, Kes!Tick
<1>1. KesTyped'
  BY <1>0 DEF KesInv, KesTyped, Kes!Tick
<1>2. Kes!Asked'
  <2>1. ASSUME NEW asked \in v6
        PROVE  asked \in v9..v1' /\ v1' <= asked + Timeout /\ asked - Gap <= v7
    <3>1. asked \in v9..v1 /\ asked - Gap <= v7 /\ v1 < asked + Timeout
      BY <1>0 DEF KesInv, Kes!Asked
    <3> QED  BY <1>0, <3>1 DEF KesAssumption
  <2> QED  BY <1>0, <2>1 DEF Kes!Asked
<1>3. Kes!Watched'
  <2>1. ASSUME v4 = "BP", Kes!IsAnswer PROVE Kes!IsAnswer'
    <3>1. PICK t \in v5.at..v1 : Kes!AnswerOf(v5, t)
      BY <2>1 DEF Kes!IsAnswer
    <3>2. t \in 0..v1 /\ t \in v5.at..v1' /\ v2[t].expiry \in Int
      BY <1>0, <2>1 DEF KesInv, KesTyped, Kes!IsAnswer
    <3>3. v2'[t] = v2[t]
      BY <1>0, <3>2
    <3>4. Kes!AnswerOf(v5, t)'
      <4>1. ASSUME NEW f, f.expiry \in Int, Kes!Tells(f, v2[t]) PROVE Kes!Tells(f, v2[t])'
        BY <1>0, <3>2, <3>3, <4>1 DEF Kes!Tells, Kes!Late
      <4> QED  BY <1>0, <3>1, <3>3, <4>1 DEF Kes!AnswerOf
    <3> QED  BY <1>0, <2>1, <3>2, <3>4 DEF Kes!IsAnswer
  <2>2. ASSUME v4 = "BP", Kes!OpenSince PROVE Kes!OpenSince'
    <3> SUFFICES ASSUME NEW p \in v9 + 1..v1',
                        v10 < p, v5.at + Refresh <= p, v3' => p < v1'
                 PROVE  p \in v6
      BY <1>0 DEF Kes!OpenSince
    <3>1. p \in v9 + 1..v1
      BY <1>0
    <3> QED  BY <1>0, <2>2, <3>1 DEF Kes!OpenSince
  <2> QED  BY <1>0, <2>1, <2>2 DEF KesInv, Kes!Watched, Kes!Fresh
<1>4. Kes!ReadingIsRecent' /\ Kes!FailingScoresNothing'
  BY <1>0 DEF Kes!ReadingIsRecent, Kes!FailingScoresNothing, Kes!Steady
<1> QED  BY <1>1, <1>2, <1>3, <1>4 DEF KesInv

\* The moment polled: a missed poll, a question, or a poll that asks nothing.
LEMMA KesMiss ==
    ASSUME KesInv, Kes!MissPoll PROVE KesInv'
<1> USE KesAssumption
<1>0. /\ v1 \in Nat /\ v7 \in Int /\ v9 \in Int /\ v3 /\ v3' = FALSE /\ v10' = v1
      /\ UNCHANGED <<v1, v2, v4, v5, v6, v7, v8, v9>>
  BY DEF KesInv, KesTyped, Kes!MissPoll
<1>1. KesTyped'
  <2>1. v3' \in BOOLEAN
    BY <1>0
  <2>2. v10' \in Int
    BY <1>0
  <2> QED  BY <1>0, <2>1, <2>2 DEF KesInv, KesTyped
<1>2. Kes!Asked'
  BY <1>0 DEF KesInv, Kes!Asked
<1>3. Kes!OpenSince => Kes!OpenSince'
  BY <1>0 DEF Kes!OpenSince
<1>4. Kes!Watched'
  BY <1>0, <1>3 DEF KesInv, Kes!Watched, Kes!IsAnswer, Kes!AnswerOf, Kes!Tells, Kes!Late, Kes!Fresh
<1>5. ~Kes!Steady'
  BY <1>0 DEF Kes!Steady, Kes!Lag, KesAssumption
<1> QED  BY <1>1, <1>2, <1>4, <1>5 DEF KesInv, Kes!ReadingIsRecent, Kes!FailingScoresNothing

LEMMA KesReconnect ==
    ASSUME KesInv, Kes!Reconnect PROVE KesInv'
<1> USE KesAssumption
<1>0. /\ v1 \in Nat /\ v3 /\ v3' = TRUE /\ v5' = Kes!Fresh /\ v6' = {} /\ v7' = 0 /\ v9' = v1
      /\ UNCHANGED <<v1, v2, v3, v8, v10>>
  BY DEF KesInv, KesTyped, Kes!Reconnect
<1>1. KesTyped'
  BY <1>0 DEF KesInv, KesTyped, Kes!Fresh
<1>2. Kes!Asked'
  BY <1>0 DEF Kes!Asked
<1>3. Kes!Watched'
  BY <1>0 DEF Kes!Watched, Kes!OpenSince, Kes!Fresh
<1>4. ~Kes!Steady'
  BY <1>0 DEF Kes!Steady
<1> QED  BY <1>1, <1>2, <1>3, <1>4 DEF KesInv, Kes!ReadingIsRecent, Kes!FailingScoresNothing

\* An answer is of a moment of its question, and what was open stays so: a question
\* due after this one would have been asked after now.
LEMMA KesAnswer ==
    ASSUME KesInv, NEW asked \in v6, Kes!Answer(asked) PROVE KesInv'
<1> USE KesAssumption
<1>0. /\ v1 \in Nat /\ v7 \in 0..v1 /\ v9 \in 0..v1 /\ v6' = v6 \ {asked}
      /\ UNCHANGED <<v1, v2, v3, v4, v7, v8, v9, v10>>
      /\ asked \in v9..v1 /\ v1 <= asked + Timeout /\ asked - Gap <= v7
  BY DEF KesInv, KesTyped, Kes!Asked, Kes!Answer
<1>1. PICK t \in asked..v1 :
        v5' = IF v2[t].up
              THEN [fields |-> Kes!Reading(v2[t]), error |-> FALSE, at |-> asked]
              ELSE [fields |-> Kes!AfterFailure, error |-> TRUE, at |-> asked]
  BY DEF Kes!Answer
<1>2. v5'.at = asked /\ v2[t].up \in BOOLEAN /\ v2[t].expiry \in Int
  <2>1. t \in 0..v1
    BY <1>0
  <2>2. v2[t].up \in BOOLEAN /\ v2[t].expiry \in Int
    BY <2>1 DEF KesInv, KesTyped
  <2>3. v5'.at = asked
    BY <1>1
  <2> QED  BY <2>2, <2>3
<1>3. KesTyped'
  BY <1>0, <1>2 DEF KesInv, KesTyped
<1>4. Kes!Asked'
  BY <1>0 DEF KesInv, Kes!Asked
<1>5. Kes!IsAnswer'
  <2>1. CASE v2[t].up
    <3>1. PICK answer, f : answer = v2[t] /\ f = Kes!Reading(answer)
      OBVIOUS
    <3>2. /\ f.disk = answer.disk /\ f.chain = answer.chain
          /\ f.expiry = Kes!Expiry(answer)
      BY <3>1 DEF Kes!Reading
    <3>3. /\ Kes!Expiry(answer) \in Int /\ answer.expiry <= Kes!Expiry(answer)
          /\ Kes!Expiry(answer) <= answer.expiry + Kes!Late
                \/ (~Exact /\ Kes!Expiry(answer) <= v1)
      <4>1. PICK over : over = answer.expiry - v7
        OBVIOUS
      <4>2. over \in Int /\ 0 \in Int
        BY <1>0, <1>2, <3>1, <4>1
      <4>3. Kes!Max({0, over}) \in {0, over} /\ Kes!Max({0, over}) >= 0
            /\ Kes!Max({0, over}) >= over
        BY <4>2, MaxOfTwo
      <4>4. CASE Exact
        BY <1>0, <1>2, <3>1, <4>4 DEF Kes!Expiry, Kes!Late
      <4>5. CASE ~Exact
        BY <1>0, <1>2, <3>1, <4>1, <4>3, <4>5 DEF Kes!Expiry, Kes!Late
      <4> QED  BY <4>4, <4>5
    <3>4. f.expiry \in Int /\ Kes!Tells(f, answer)'
      BY <1>0, <3>2, <3>3 DEF Kes!Tells, Kes!Late
    <3>5. Kes!AnswerOf(v5, t)'
      <4>1. v5'.fields = f /\ ~v5'.error /\ v2'[t] = answer /\ answer.up
        BY <1>0, <1>1, <2>1, <3>1
      <4>2. v5'.fields.expiry \in Int /\ Kes!Tells(v5.fields, v2[t])'
        BY <4>1, <3>4, Zenon DEF Kes!Tells, Kes!Late
      <4> QED  BY <4>1, <4>2, Zenon DEF Kes!AnswerOf
    <3> QED  BY <1>0, <1>1, <1>2, <3>5 DEF Kes!IsAnswer
  <2>2. CASE ~v2[t].up
    <3>1. v5'.fields = Kes!Unknown /\ v5'.error /\ v2'[t] = v2[t]
      BY <1>0, <1>1, <2>2 DEF Kes!AfterFailure, Kes!Unknown
    <3>2. Kes!AnswerOf(v5, t)'
      BY <2>2, <3>1, Zenon DEF Kes!AnswerOf, Kes!Unknown
    <3> QED  BY <1>0, <1>1, <1>2, <3>2 DEF Kes!IsAnswer
  <2> QED  BY <2>1, <2>2
<1>6. Kes!OpenSince'
  BY <1>0, <1>2 DEF Kes!OpenSince, KesAssumption
<1>7. Kes!ReadingIsRecent' /\ Kes!FailingScoresNothing'
  BY <1>0 DEF KesInv, Kes!ReadingIsRecent, Kes!FailingScoresNothing, Kes!Steady, Kes!Lately,
              Kes!Lag, Kes!Tells, Kes!Late, Kes!Unknown
<1> QED  BY <1>3, <1>4, <1>5, <1>6, <1>7 DEF KesInv, Kes!Watched

\* The poll that paints. A reading older than Lag would have left a question of Timeout
\* and more ago open.
LEMMA KesPoll ==
    ASSUME KesInv, Kes!Poll PROVE KesInv'
<1> USE KesAssumption
<1>0. /\ v1 \in Nat /\ v7 \in 0..v1 /\ v9 \in 0..v1 /\ v10 \in Int /\ v5.at \in Int
      /\ v3 = TRUE /\ v3' = FALSE /\ v8' = Kes!Painted(v5')
      /\ UNCHANGED <<v1, v2, v4, v9, v10>>
  BY DEF KesInv, KesTyped, Kes!Poll
<1>1. v7' \in 0..v1 /\ v7' >= v7 /\ v7' >= v1 - Gap
  <2>1. v7 \in Int /\ v1 - Gap \in Int
    BY <1>0
  <2>2. Kes!Max({v7, v1 - Gap}) \in Int /\ Kes!Max({v7, v1 - Gap}) >= v7
        /\ Kes!Max({v7, v1 - Gap}) >= v1 - Gap
    BY <2>1, MaxOfTwo
  <2>3. v7' \in Kes!Max({v7, v1 - Gap})..v1
    BY DEF Kes!Poll
  <2> QED  BY <1>0, <2>2, <2>3
<1>2. \/ v5' = v5 /\ v6' = v6 /\ v1 - v5.at < Refresh
      \/ v5' = v5 /\ v6' = v6 \cup {v1}
      \/ v4 # "BP" /\ v6' = v6 /\ v5' = [fields |-> Kes!Unknown, error |-> FALSE, at |-> v1]
  BY <1>0 DEF Kes!Poll, Kes!Due, Kes!OpCertPath
<1>3. KesTyped'
  <2>1. v5'.at \in Int
    BY <1>0, <1>2
  <2>2. v3' \in BOOLEAN
    BY <1>0
  <2> QED  BY <1>0, <1>1, <2>1, <2>2 DEF KesInv, KesTyped
<1>4. Kes!Asked'
  <2>1. \A asked \in v6 : asked \in v9..v1 /\ v1 <= asked + Timeout /\ asked - Gap <= v7
    BY DEF KesInv, Kes!Asked
  <2>2. v6' \subseteq v6 \cup {v1}
    BY <1>2
  <2>3. ASSUME NEW asked \in v6 \cup {v1}
        PROVE  asked \in v9..v1 /\ v1 <= asked + Timeout /\ asked - Gap <= v7'
    BY <1>0, <1>1, <2>1
  <2> QED  BY <1>0, <2>2, <2>3 DEF Kes!Asked
<1>5. ASSUME v4 = "BP" PROVE v5' = v5 /\ Kes!OpenSince' /\ (Kes!IsAnswer => Kes!IsAnswer')
  <2>1. v5' = v5 /\ ((v6' = v6 /\ v1 - v5.at < Refresh) \/ v6' = v6 \cup {v1})
    BY <1>2, <1>5
  <2>2. Kes!OpenSince
    BY <1>5 DEF KesInv, Kes!Watched
  <2>3. Kes!OpenSince'
    BY <1>0, <2>1, <2>2 DEF Kes!OpenSince
  <2>4. Kes!IsAnswer => Kes!IsAnswer'
    BY <1>0, <2>1 DEF Kes!IsAnswer, Kes!AnswerOf, Kes!Tells, Kes!Late
  <2> QED  BY <2>1, <2>3, <2>4
<1>6. Kes!Watched'
  BY <1>0, <1>5 DEF KesInv, Kes!Watched, Kes!Fresh
<1>7. ASSUME Kes!Steady' PROVE Kes!IsAnswer /\ v5' = v5 /\ v1 - Kes!Lag <= v5.at
  <2>1. v4 = "BP" /\ v1 - v9 > Refresh + Timeout /\ v1 - v10 > Refresh + Timeout
    BY <1>0, <1>7 DEF Kes!Steady, Kes!Lag
  <2>2. v1 - (Refresh + Timeout) <= v5.at
    <3> SUFFICES ASSUME v5.at + Refresh + Timeout < v1 PROVE FALSE
      BY <1>0
    <3>1. PICK p : p = v1 - Timeout - 1
      OBVIOUS
    <3>2. p \in v9 + 1..v1 /\ v10 < p /\ v5.at + Refresh <= p /\ p < v1
      BY <1>0, <2>1, <3>1
    <3>3. p \in v6
      BY <2>1, <3>2 DEF KesInv, Kes!Watched, Kes!OpenSince
    <3>4. v1 <= p + Timeout
      BY <3>3 DEF KesInv, Kes!Asked
    <3> QED  BY <1>0, <3>1, <3>4
  <2>3. v5 # Kes!Fresh
    <3>1. v5.at > -Refresh
      BY <1>0, <2>1, <2>2
    <3> QED  BY <1>0, <3>1 DEF Kes!Fresh
  <2> QED  BY <1>5, <2>1, <2>2, <2>3 DEF KesInv, Kes!Watched, Kes!Lag
<1>8. ASSUME Kes!Steady' PROVE \E t \in Kes!Lately' : Kes!AnswerOf(v5, t)
  <2>1. PICK t \in v5.at..v1 : Kes!AnswerOf(v5, t)
    BY <1>7, <1>8 DEF Kes!IsAnswer
  <2>2. v5.at >= 0 /\ v5.at >= v1 - (Refresh + Timeout)
    BY <1>7, <1>8 DEF Kes!IsAnswer, Kes!Lag
  <2>3. v1 - (Refresh + Timeout) \in Int /\ 0 \in Int
    BY <1>0
  <2>4. Kes!Max({0, v1 - (Refresh + Timeout)}) \in {0, v1 - (Refresh + Timeout)}
    BY <2>3, MaxOfTwo
  <2>5. t \in Kes!Max({0, v1 - (Refresh + Timeout)})..v1
    BY <1>0, <2>2, <2>3, <2>4
  <2> QED  BY <1>0, <2>1, <2>5 DEF Kes!Lately, Kes!Lag
<1>9. Kes!ReadingIsRecent'
  <2> SUFFICES ASSUME Kes!Steady', v8'.fields # Kes!Unknown
               PROVE  \E t \in Kes!Lately' : v2[t].up /\ Kes!Tells(v8.fields, v2[t])'
    BY <1>0 DEF Kes!ReadingIsRecent, Kes!Unknown
  <2>1. v8'.fields = v5.fields
    BY <1>0, <1>7 DEF Kes!Painted
  <2>2. PICK t \in Kes!Lately' : Kes!AnswerOf(v5, t)
    BY <1>8
  <2>3. v2[t].up /\ Kes!Tells(v5.fields, v2[t])
    BY <2>1, <2>2 DEF Kes!AnswerOf
  <2>4. Kes!Tells(v8.fields, v2[t])'
    BY <1>0, <2>1, <2>3, Zenon DEF Kes!Tells, Kes!Late
  <2> QED  BY <2>3, <2>4
<1>10. Kes!FailingScoresNothing'
  <2> SUFFICES ASSUME Kes!Steady', \A t \in Kes!Lately' : ~v2[t].up
               PROVE  v8'.score = 0 /\ v8'.fields = Kes!Unknown
    BY <1>0 DEF Kes!FailingScoresNothing, Kes!Unknown
  <2>1. PICK t \in Kes!Lately' : Kes!AnswerOf(v5, t)
    BY <1>8
  <2>2. v5.error /\ v5.fields = Kes!Unknown
    BY <2>1, Zenon DEF Kes!AnswerOf
  <2>3. v4' = "BP"
    BY <1>0 DEF Kes!Steady
  <2>4. v5.fields.days = None
    BY <2>2 DEF Kes!Unknown
  <2>5. Kes!KesScore(v5) = 0 /\ v5' = v5
    BY <1>0, <1>7, <2>2, <2>3, <2>4 DEF Kes!KesScore
  <2>6. v8'.score = Kes!KesScore(v5) /\ v8'.fields = v5.fields
    BY <1>0, <2>5 DEF Kes!Painted
  <2> QED  BY <2>2, <2>5, <2>6
<1> QED  BY <1>3, <1>4, <1>6, <1>9, <1>10 DEF KesInv

LEMMA KesNext == ASSUME KesInv, Kes!Next PROVE KesInv'
<1>0. v2[v1] \in [up : BOOLEAN, disk : Nat, chain : Nat, expiry : Nat] /\ v1 \in Nat
  BY DEF KesInv, KesTyped
<1>1. CASE Kes!Pass
  BY <1>0, <1>1, KesTick DEF Kes!Pass, Kes!node
<1>2. CASE Kes!Forged
  <2>1. [v2[v1] EXCEPT !.chain = v2[v1].disk]
            \in [up : BOOLEAN, disk : Nat, chain : Nat, expiry : Nat]
    BY <1>0
  <2> QED  BY <1>2, <2>1, KesTick DEF Kes!Forged, Kes!node
<1>3. CASE Kes!Rotate
  <2>1. [v2[v1] EXCEPT !.disk = @ + 1, !.expiry = v1 + 1 + Life]
            \in [up : BOOLEAN, disk : Nat, chain : Nat, expiry : Nat]
    <3>1. PICK node, d, e : node = v2[v1] /\ d = node.disk + 1 /\ e = v1 + 1 + Life
      OBVIOUS
    <3>2. node \in [up : BOOLEAN, disk : Nat, chain : Nat, expiry : Nat]
      BY <1>0, <3>1
    <3>3. d \in Nat /\ e \in Nat
      BY <1>0, <3>1, <3>2, KesAssumption
    <3>4. [node EXCEPT !.disk = d, !.expiry = e]
            \in [up : BOOLEAN, disk : Nat, chain : Nat, expiry : Nat]
      BY <3>2, <3>3
    <3> QED  BY <3>1, <3>4
  <2> QED  BY <1>3, <2>1, KesTick DEF Kes!Rotate, Kes!node
<1>4. CASE Kes!Break
  <2>1. [v2[v1] EXCEPT !.up = ~@] \in [up : BOOLEAN, disk : Nat, chain : Nat, expiry : Nat]
    BY <1>0
  <2> QED  BY <1>4, <2>1, KesTick DEF Kes!Break, Kes!node
<1> QED  BY <1>1, <1>2, <1>3, <1>4, KesPoll, KesMiss, KesReconnect, KesAnswer DEF Kes!Next

-----------------------------------------------------------------------------
(* The moves (MoveOrigins).                                                *)

MovesKnown == v6 \in BOOLEAN /\ Origins!PollIsTrue

LEMMA MovesStart == Origins!Init => MovesKnown
<1> SUFFICES ASSUME Origins!Init PROVE MovesKnown
  OBVIOUS
<1>1. v2 \in Origins!Pools \cup {None} /\ v3 \in Origins!Pools \cup {None} /\ v6 \in BOOLEAN
  BY DEF Origins!Init
<1>2. v4 \in Seq(Origins!Pools)
  BY <1>1 DEF Origins!Init
<1>3. v7 \in Seq(Origins!Events) /\ v8 \in [Others -> {"unseen", "null", "named"}]
  BY DEF Origins!Init
<1>4. v9 = Origins!Idle
  BY DEF Origins!Init
<1> QED  BY <1>1, <1>2, <1>3, <1>4 DEF MovesKnown, Origins!PollIsTrue, Origins!Idle

\* What an account and its source do leaves what a poll is about to tell true.
LEMMA MovesAround ==
    ASSUME MovesKnown,
           \/ \E p \in Origins!Pools \cup {None} : Origins!Move(p)
           \/ Origins!EpochEnds \/ Origins!ListCatchesUp \/ Origins!Clear
    PROVE  MovesKnown' /\ Origins!TruthIfTold
<1>0. /\ v2 \in Origins!Pools \cup {None} /\ v3 \in Origins!Pools \cup {None}
      /\ v4 \in Seq(Origins!Pools)
      /\ v7 \in Seq(Origins!Events) /\ v6 \in BOOLEAN
      /\ v8 \in [Others -> {"unseen", "null", "named"}]
  BY DEF MovesKnown, Origins!PollIsTrue
<1>1. /\ v2' \in Origins!Pools \cup {None} /\ v3' \in Origins!Pools \cup {None}
      /\ v4' \in Seq(Origins!Pools) /\ v7' \in Seq(Origins!Events)
      /\ v8' \in [Others -> {"unseen", "null", "named"}]
  <2>1. v2' \in Origins!Pools \cup {None} /\ v3' \in Origins!Pools \cup {None}
    BY <1>0 DEF Origins!Move, Origins!EpochEnds, Origins!ListCatchesUp, Origins!Clear,
                Origins!account
  <2>2. v4' = v4 \/ (v4' = Append(v4, v2) /\ v2 # None)
    BY DEF Origins!Move, Origins!EpochEnds, Origins!ListCatchesUp, Origins!Clear, Origins!account
  <2>3. (v7' = v7 \/ v7' = <<>>) /\ v8' = v8
    BY DEF Origins!Move, Origins!EpochEnds, Origins!ListCatchesUp, Origins!Clear
  <2>4. v4' \in Seq(Origins!Pools)
    BY <1>0, <2>2
  <2>5. v7' \in Seq(Origins!Events)
    <3>1. <<>> \in Seq(Origins!Events)
      OBVIOUS
    <3> QED  BY <1>0, <2>3, <3>1, Zenon
  <2> QED  BY <1>0, <2>1, <2>3, <2>4, <2>5
<1>2. UNCHANGED <<v1, v6, v9>>
  BY DEF Origins!Move, Origins!EpochEnds, Origins!ListCatchesUp, Origins!Clear
<1>3. Origins!Range(v4) \subseteq Origins!Range(v4')
  <2>1. \/ v4' = v4 \/ (v4' = Append(v4, v2) /\ v2 \in Origins!Pools)
    BY <1>0 DEF Origins!Move, Origins!EpochEnds, Origins!ListCatchesUp, Origins!Clear,
                Origins!account
  <2> QED  BY <1>0, <2>1 DEF Origins!Range
<1>4. v9 # Origins!Idle => v10 \subseteq v10' /\ (v2 \in v10 => v2' \in v10')
  BY <1>0 DEF Origins!Move, Origins!EpochEnds, Origins!ListCatchesUp, Origins!Clear,
              Origins!account
<1>5. v9.step \in {"tickers", "store", "snapshot"} => v9 # Origins!Idle
  BY DEF Origins!Idle
<1>6. MovesKnown'
  BY <1>1, <1>2, <1>3, <1>4, <1>5 DEF MovesKnown, Origins!PollIsTrue, Origins!TrueSoFar,
                                      Origins!Idle, Origins!Events
<1>7. ~(Len(v7') > Len(v7))
  <2>1. v7' = v7 \/ v7' = <<>>
    BY DEF Origins!Move, Origins!EpochEnds, Origins!ListCatchesUp, Origins!Clear
  <2> QED  BY <1>0, <2>1
<1> QED  BY <1>2, <1>6, <1>7 DEF Origins!TruthIfTold, Origins!OriginIfTold, Origins!LeaveIfTold

LEMMA MovesPollStarts ==
    ASSUME MovesKnown, Origins!StartPoll PROVE MovesKnown' /\ Origins!TruthIfTold
<1>1. /\ v9' = [step |-> IF v5 THEN "origin" ELSE "destination"] /\ v10' = {v2}
      /\ UNCHANGED <<v1, v2, v3, v4, v6, v7, v8>>
  BY DEF Origins!StartPoll, Origins!account
<1>2. v9'.step \notin {"tickers", "store", "snapshot"}
  BY <1>1
<1>3. MovesKnown'
  BY <1>1, <1>2 DEF MovesKnown, Origins!PollIsTrue
<1>4. Origins!TruthIfTold
  <2>1. ~(Len(v7') > Len(v7))
    BY <1>1 DEF MovesKnown, Origins!PollIsTrue
  <2> QED  BY <1>1, <2>1 DEF Origins!TruthIfTold, Origins!OriginIfTold, Origins!LeaveIfTold
<1> QED  BY <1>3, <1>4

\* Where a join came from.
LEMMA MovesJoin ==
    ASSUME MovesKnown, Origins!Classify PROVE MovesKnown' /\ Origins!TruthIfTold
<1>1. /\ UNCHANGED <<v1, v2, v3, v4, v6, v7, v8, v10>> /\ v9.step = "origin" /\ v9 # Origins!Idle
      /\ \E from \in {Origins!PriorPool, None} : v9' = Origins!Told(Origins!JoinOf(from))
  BY DEF Origins!Classify, Origins!account, Origins!Idle
<1>2. PICK from \in {Origins!PriorPool, None} : v9' = Origins!Told(Origins!JoinOf(from))
  BY <1>1
<1>3. from = None \/ (from \in Others /\ from \in Origins!Range(v4))
  <2>1. CASE \E i \in DOMAIN v4 : Origins!NewestElsewhere(i)
    <3>1. PICK i \in DOMAIN v4 :
            Origins!PriorPool = v4[i] /\ Origins!NewestElsewhere(i)
      BY <2>1, Zenon DEF Origins!PriorPool
    <3>2. v4[i] \in Origins!Pools /\ v4[i] # Home /\ v4[i] \in Origins!Range(v4)
      BY <3>1 DEF Origins!NewestElsewhere, MovesKnown, Origins!PollIsTrue, Origins!Range
    <3> QED  BY <3>1, <3>2 DEF Origins!Pools
  <2>2. CASE ~\E i \in DOMAIN v4 : Origins!NewestElsewhere(i)
    BY <2>2 DEF Origins!PriorPool
  <2> QED  BY <2>1, <2>2
<1>4. /\ Origins!JoinOf(from) \in Origins!Events
      /\ Origins!JoinOf(from).type \in {"join", "join_redelegated", "join_returning"}
      /\ Origins!JoinOf(from).pool \in {from, None}
  BY <1>3 DEF Origins!JoinOf, Origins!Event, Origins!Events
<1>5. Origins!TrueSoFar(Origins!JoinOf(from))
  BY <1>3, <1>4 DEF Origins!TrueSoFar
<1>6. MovesKnown'
  BY <1>1, <1>2, <1>4, <1>5 DEF MovesKnown, Origins!PollIsTrue, Origins!Told, Origins!TrueSoFar,
                                 Origins!Events
<1>7. Origins!TruthIfTold
  <2>1. ~(Len(v7') > Len(v7))
    BY <1>1 DEF MovesKnown, Origins!PollIsTrue
  <2> QED  BY <1>1, <2>1 DEF Origins!TruthIfTold, Origins!OriginIfTold, Origins!LeaveIfTold
<1> QED  BY <1>6, <1>7

\* Where a leaver went. Koios' answer is where it is, or there is none.
LEMMA MovesLeave ==
    ASSUME MovesKnown, Origins!ClassifyLeaver PROVE MovesKnown' /\ Origins!TruthIfTold
<1>1. UNCHANGED <<v1, v2, v3, v4, v6, v7, v8, v10>> /\ v9.step = "destination" /\ v9 # Origins!Idle
  BY DEF Origins!ClassifyLeaver, Origins!account, Origins!Idle
<1>2. PICK answered \in BOOLEAN :
        v9' = Origins!LeaveOf(Origins!Destination(Origins!DelegatedPool(answered)))
  <2>1. \/ v9' = Origins!LeaveOf(Origins!Destination(Origins!DelegatedPool(TRUE)))
        \/ v9' = Origins!LeaveOf(Origins!Destination(Origins!DelegatedPool(FALSE)))
    BY DEF Origins!ClassifyLeaver
  <2> QED  BY <2>1
<1>3. PICK found : found = Origins!DelegatedPool(answered)
  OBVIOUS
<1>4. v2 \in v10
  BY <1>1 DEF MovesKnown, Origins!PollIsTrue
<1>5. v1 = "koios" => found \in {v2, "no entry"}
  BY <1>3 DEF Origins!DelegatedPool, Origins!KoiosPool, Origins!NoEntry
<1>6. \/ v9' = [step |-> "snapshot"] /\ found = Home
      \/ v9' = Origins!Told(Origins!Event("leave", None))
      \/ v9' = Origins!Told(Origins!Event("leave_redelegated", found)) /\ found \in Others
      \/ v9' = Origins!Told(Origins!Event("leave_to_wallet", None)) /\ found = None
  <2>1. found \in Others \cup {Home, None, "no entry"}
    BY <1>3 DEF MovesKnown, Origins!PollIsTrue, Origins!Pools, Origins!DelegatedPool,
                Origins!KoiosPool, Origins!BlockfrostPool, Origins!NoEntry
  <2>2. CASE found = "no entry"
    <3>1. Origins!Destination(found) = "unknown"
      BY <2>2, PoolsAssumption DEF Origins!Destination, Origins!NoEntry
    <3>2. Origins!LeaveOf("unknown") = Origins!Told(Origins!Event("leave", None))
      BY PoolsAssumption DEF Origins!LeaveOf
    <3> QED  BY <1>2, <1>3, <3>1, <3>2
  <2>3. CASE found = Home
    <3>1. Origins!Destination(found) = "ours"
      BY <2>3, PoolsAssumption DEF Origins!Destination, Origins!NoEntry
    <3>2. Origins!LeaveOf("ours") = [step |-> "snapshot"]
      BY PoolsAssumption DEF Origins!LeaveOf
    <3> QED  BY <1>2, <1>3, <2>3, <3>1, <3>2
  <2>4. CASE found \in Others
    <3>1. Origins!Destination(found) = found
      BY <2>4, PoolsAssumption DEF Origins!Destination, Origins!NoEntry
    <3>2. Origins!LeaveOf(found) = Origins!Told(Origins!Event("leave_redelegated", found))
      BY <2>4, PoolsAssumption DEF Origins!LeaveOf
    <3> QED  BY <1>2, <1>3, <2>4, <3>1, <3>2
  <2>5. CASE found = None
    <3>1. Origins!Destination(found) = None
      BY <2>5, PoolsAssumption DEF Origins!Destination, Origins!NoEntry
    <3>2. Origins!LeaveOf(None) = Origins!Told(Origins!Event("leave_to_wallet", None))
      BY PoolsAssumption DEF Origins!LeaveOf
    <3> QED  BY <1>2, <1>3, <2>5, <3>1, <3>2
  <2> QED  BY <2>1, <2>2, <2>3, <2>4, <2>5
<1>7. ASSUME v9' = [step |-> "snapshot"], found = Home PROVE MovesKnown'
  <2>1. v9'.step = "snapshot"
    BY <1>7
  <2>2. v1 = "koios" => Home \in v10
    BY <1>4, <1>5, <1>7, PoolsAssumption
  <2> QED  BY <1>1, <1>4, <2>1, <2>2 DEF MovesKnown, Origins!PollIsTrue, Origins!Events
<1>8. ASSUME NEW ev, v9' = Origins!Told(ev), ev \in Origins!Events, Origins!TrueSoFar(ev)
      PROVE  MovesKnown'
  BY <1>1, <1>8 DEF MovesKnown, Origins!PollIsTrue, Origins!Told, Origins!TrueSoFar,
                    Origins!Events
<1>9. /\ Origins!Event("leave", None) \in Origins!Events
      /\ Origins!TrueSoFar(Origins!Event("leave", None))
  BY DEF Origins!Event, Origins!Events, Origins!TrueSoFar, Origins!LeaveTypes
<1>10. ASSUME found \in Others
       PROVE  /\ Origins!Event("leave_redelegated", found) \in Origins!Events
              /\ Origins!TrueSoFar(Origins!Event("leave_redelegated", found))
  BY <1>4, <1>5, <1>10, PoolsAssumption
     DEF Origins!Event, Origins!Events, Origins!TrueSoFar, Origins!LeaveTypes
<1>11. ASSUME found = None
       PROVE  /\ Origins!Event("leave_to_wallet", None) \in Origins!Events
              /\ Origins!TrueSoFar(Origins!Event("leave_to_wallet", None))
  BY <1>4, <1>5, <1>11, PoolsAssumption
     DEF Origins!Event, Origins!Events, Origins!TrueSoFar, Origins!LeaveTypes
<1>12. MovesKnown'
  BY <1>6, <1>7, <1>8, <1>9, <1>10, <1>11
<1>13. Origins!TruthIfTold
  <2>1. ~(Len(v7') > Len(v7))
    BY <1>1 DEF MovesKnown, Origins!PollIsTrue
  <2> QED  BY <1>1, <2>1 DEF Origins!TruthIfTold, Origins!OriginIfTold, Origins!LeaveIfTold
<1> QED  BY <1>12, <1>13

LEMMA MovesTickers ==
    ASSUME MovesKnown, Origins!ResolveTickers PROVE MovesKnown' /\ Origins!TruthIfTold
<1>1. /\ UNCHANGED <<v1, v2, v3, v4, v6, v7, v10>> /\ v9.step = "tickers" /\ v9 # Origins!Idle
  BY DEF Origins!ResolveTickers, Origins!account, Origins!Idle
<1>2. PICK ev : ev = v9.event
  OBVIOUS
<1>3. ev \in Origins!Events /\ Origins!TrueSoFar(ev) /\ v2 \in v10
  BY <1>1, <1>2 DEF MovesKnown, Origins!PollIsTrue
<1>4. v8' \in [Others -> {"unseen", "null", "named"}]
  BY DEF MovesKnown, Origins!PollIsTrue, Origins!ResolveTickers, Origins!PoolTicker
<1>5. v9' = [step |-> "store",
             event |-> [ev EXCEPT !.ticker = IF ev.pool = None THEN ev.ticker ELSE v8'[ev.pool]]]
  BY <1>2 DEF Origins!ResolveTickers
<1>6. PICK name : name = IF ev.pool = None THEN ev.ticker ELSE v8'[ev.pool]
  OBVIOUS
<1>7. name \in {"unseen", "null", "named"}
  BY <1>3, <1>4, <1>6 DEF Origins!Events
<1>8. PICK told : told = [ev EXCEPT !.ticker = name]
  OBVIOUS
<1>9. told \in Origins!Events /\ told.type = ev.type /\ told.pool = ev.pool
  BY <1>3, <1>7, <1>8 DEF Origins!Events
<1>10. v9' = [step |-> "store", event |-> told]
  BY <1>5, <1>6, <1>8
<1>11. Origins!TrueSoFar(told)'
  BY <1>1, <1>3, <1>9 DEF Origins!TrueSoFar
<1>12. MovesKnown'
  BY <1>1, <1>3, <1>4, <1>9, <1>10, <1>11 DEF MovesKnown, Origins!PollIsTrue, Origins!Events
<1>13. Origins!TruthIfTold
  <2>1. ~(Len(v7') > Len(v7))
    BY <1>1 DEF MovesKnown, Origins!PollIsTrue
  <2> QED  BY <1>1, <2>1 DEF Origins!TruthIfTold, Origins!OriginIfTold, Origins!LeaveIfTold
<1> QED  BY <1>12, <1>13

\* The event is told.
LEMMA MovesStore ==
    ASSUME MovesKnown, Origins!Store PROVE MovesKnown' /\ Origins!TruthIfTold
<1>1. /\ UNCHANGED <<v1, v2, v3, v4, v8>> /\ v9' = Origins!Idle /\ v10' = {}
      /\ \/ v9.step = "store" /\ v7' = Append(v7, v9.event)
         \/ v9.step = "snapshot" /\ v7' = v7
      /\ v6' \in BOOLEAN
  BY DEF MovesKnown, Origins!Store, Origins!account
<1>2. v7 \in Seq(Origins!Events) /\ (v9.step = "store" => v9.event \in Origins!Events)
  BY DEF MovesKnown, Origins!PollIsTrue
<1>3. v7' \in Seq(Origins!Events)
  BY <1>1, <1>2
<1>4. MovesKnown'
  <2>1. v9'.step = "idle" /\ v9' = Origins!Idle
    BY <1>1 DEF Origins!Idle
  <2> QED  BY <1>1, <1>3, <2>1 DEF MovesKnown, Origins!PollIsTrue, Origins!Events, Origins!Idle
<1>5. CASE v9.step = "store"
  <2>1. v7' = Append(v7, v9.event)
    BY <1>1, <1>5
  <2>2. Len(v7') = Len(v7) + 1 /\ v7'[Len(v7')] = v9.event
    BY <1>2, <1>5, <2>1
  <2>3. v7' # v7
    BY <1>2, <2>2
  <2>4. Origins!TrueSoFar(v9.event)
    BY <1>5 DEF MovesKnown, Origins!PollIsTrue
  <2> QED  BY <1>4, <2>2, <2>3, <2>4 DEF Origins!TruthIfTold, Origins!OriginIfTold,
                                   Origins!LeaveIfTold, Origins!TrueSoFar
<1>6. CASE v9.step = "snapshot"
  <2>1. v7' = v7 /\ ~(Len(v7') > Len(v7))
    BY <1>1, <1>2, <1>6
  <2>2. v1 = "koios" => Home \in v10
    BY <1>6 DEF MovesKnown, Origins!PollIsTrue
  <2> QED  BY <1>4, <2>1, <2>2 DEF Origins!TruthIfTold, Origins!OriginIfTold,
                                   Origins!LeaveIfTold
<1> QED  BY <1>1, <1>5, <1>6

LEMMA MovesNext ==
    ASSUME MovesKnown, Origins!Next PROVE MovesKnown' /\ Origins!TruthIfTold
BY MovesAround, MovesPollStarts, MovesJoin, MovesLeave, MovesTickers, MovesStore
   DEF Origins!Next

-----------------------------------------------------------------------------
(* The wizard (SetupWizard): its steps.                                    *)

WizardPages == {"welcome", "transport", "connect", "koios", "dbhave", "dbwhere", "dbkey",
                "dbconn", "blockfrost", "notif", "done"}

\* The page after one, and the page before it.
WizardAfter(key, w) ==
    CASE key = "welcome" -> "transport" [] key = "transport" -> "connect"
      [] key = "connect" -> "koios" [] key = "koios" -> "dbhave"
      [] key = "dbhave" -> IF w.useDb THEN "dbwhere" ELSE "blockfrost"
      [] key = "dbwhere" -> IF ~w.useDb THEN "blockfrost"
                            ELSE IF w.where = "remote" /\ WizardGuided THEN "dbkey" ELSE "dbconn"
      [] key = "dbkey" -> IF w.useDb THEN "dbconn" ELSE "blockfrost"
      [] key = "dbconn" -> "blockfrost" [] key = "blockfrost" -> "notif" [] OTHER -> "done"
WizardBefore(key, w) ==
    CASE key = "transport" -> "welcome" [] key = "connect" -> "transport"
      [] key = "koios" -> "connect" [] key = "dbhave" -> "koios"
      [] key = "dbwhere" -> "dbhave" [] key = "dbkey" -> IF w.useDb THEN "dbwhere" ELSE "dbhave"
      [] key = "dbconn" -> IF ~w.useDb THEN "dbhave"
                           ELSE IF w.where = "remote" /\ WizardGuided THEN "dbkey" ELSE "dbwhere"
      [] key = "blockfrost" -> IF w.useDb THEN "dbconn" ELSE "dbhave"
      [] key = "notif" -> "blockfrost" [] OTHER -> "notif"

\* The steps, in order; open is a page of theirs.
LEMMA WizardSteps ==
    /\ Len(Wizard!Steps) = 11 /\ (Wizard!Open <=> v5 \in WizardPages)
    /\ Wizard!Steps[1] = "welcome" /\ Wizard!Steps[2] = "transport" /\ Wizard!Steps[3] = "connect"
    /\ Wizard!Steps[4] = "koios" /\ Wizard!Steps[5] = "dbhave" /\ Wizard!Steps[6] = "dbwhere"
    /\ Wizard!Steps[7] = "dbkey" /\ Wizard!Steps[8] = "dbconn" /\ Wizard!Steps[9] = "blockfrost"
    /\ Wizard!Steps[10] = "notif" /\ Wizard!Steps[11] = "done"
BY DEF Wizard!Steps, Wizard!Open, Wizard!Range, WizardPages

\* Where a step is, and which step is shown next or before.
LEMMA WizardAt ==
    ASSUME NEW i \in 1..11
    PROVE  Wizard!At(Wizard!Steps[i]) = i
<1>1. DOMAIN Wizard!Steps = 1..11
  BY DEF Wizard!Steps
<1>2. \A j \in DOMAIN Wizard!Steps : Wizard!Steps[j] = Wizard!Steps[i] => j = i
  BY <1>1, WizardSteps
<1> QED  BY <1>1, <1>2, Zenon DEF Wizard!At

LEMMA WizardIndex ==
    /\ Wizard!At("welcome") = 1 /\ Wizard!At("transport") = 2 /\ Wizard!At("connect") = 3
    /\ Wizard!At("koios") = 4 /\ Wizard!At("dbhave") = 5 /\ Wizard!At("dbwhere") = 6
    /\ Wizard!At("dbkey") = 7 /\ Wizard!At("dbconn") = 8 /\ Wizard!At("blockfrost") = 9
    /\ Wizard!At("notif") = 10 /\ Wizard!At("done") = 11
<1>1. \A i \in 1..11 : Wizard!At(Wizard!Steps[i]) = i
  BY WizardAt
<1> QED  BY <1>1, WizardSteps

LEMMA WizardNextIs ==
    ASSUME NEW w, NEW i \in 1..10, NEW j \in i + 1..11, ~Wizard!Skip(Wizard!Steps[j], w),
           \A k \in i + 1..j - 1 : Wizard!Skip(Wizard!Steps[k], w)
    PROVE  Wizard!NextVisible(i, w) = j
<1> DEFINE later == {k \in i + 1..Len(Wizard!Steps) : ~Wizard!Skip(Wizard!Steps[k], w)}
<1>1. j \in later /\ \A k \in later : k \in Int /\ j <= k
  <2>1. later = {k \in i + 1..11 : ~Wizard!Skip(Wizard!Steps[k], w)}
    BY WizardSteps
  <2>2. \A k \in i + 1..11 : k \in i + 1..j - 1 \/ j <= k
    OBVIOUS
  <2> HIDE DEF later
  <2>3. j \in later
    BY <2>1
  <2>4. ASSUME NEW k \in later PROVE k \in Int /\ j <= k
    BY <2>1, <2>2
  <2> QED  BY <2>3, <2>4
<1>2. \A n \in later : (\A k \in later : n <= k) => n = j
  BY <1>1
<1>3. Wizard!NextVisible(i, w) =
         IF later = {} THEN None ELSE CHOOSE n \in later : \A k \in later : n <= k
  BY DEF Wizard!NextVisible
<1> HIDE DEF later
<1>4. (CHOOSE n \in later : \A k \in later : n <= k) = j
  BY <1>1, <1>2
<1> QED  BY <1>1, <1>3, <1>4

LEMMA WizardPrevIs ==
    ASSUME NEW w, NEW i \in 2..11, NEW j \in 1..i - 1, ~Wizard!Skip(Wizard!Steps[j], w),
           \A k \in j + 1..i - 1 : Wizard!Skip(Wizard!Steps[k], w)
    PROVE  Wizard!PrevVisible(i, w) = j
<1> DEFINE earlier == {k \in 1..i - 1 : ~Wizard!Skip(Wizard!Steps[k], w)}
<1>1. j \in earlier /\ \A k \in earlier : k \in Int /\ j >= k
  OBVIOUS
<1>2. \A n \in earlier : (\A k \in earlier : n >= k) => n = j
  BY <1>1
<1>3. Wizard!PrevVisible(i, w) =
         IF earlier = {} THEN None ELSE CHOOSE n \in earlier : \A k \in earlier : n >= k
  BY DEF Wizard!PrevVisible
<1> HIDE DEF earlier
<1>4. (CHOOSE n \in earlier : \A k \in earlier : n >= k) = j
  BY <1>1, <1>2
<1> QED  BY <1>1, <1>3, <1>4

\* Next leads to the step after, unless it is the last; Back to the one before.
LEMMA WizardForward ==
    ASSUME NEW w, NEW key \in WizardPages, w.useDb \in BOOLEAN
    PROVE  IF key = "done" THEN Wizard!NextVisible(Wizard!At(key), w) = None
           ELSE /\ Wizard!NextVisible(Wizard!At(key), w) # None
                /\ Wizard!Steps[Wizard!NextVisible(Wizard!At(key), w)] = WizardAfter(key, w)
<1> DEFINE N(i) == Wizard!NextVisible(i, w)
           S(k) == Wizard!Skip(Wizard!Steps[k], w)
<1>0. /\ \A k \in {1, 2, 3, 4, 5, 9, 10, 11} : ~S(k)
      /\ (S(6) <=> ~w.useDb) /\ (S(8) <=> ~w.useDb)
      /\ S(7) <=> ~(w.useDb /\ w.where = "remote" /\ WizardGuided)
  BY WizardSteps DEF Wizard!Skip
<1>1. \A i \in 1..10 : \A j \in i + 1..11 : ~S(j) /\ (\A k \in i + 1..j - 1 : S(k)) => N(i) = j
  BY WizardNextIs
<1>2. N(11) = None
  <2>0. Len(Wizard!Steps) = 11
    BY WizardSteps
  <2>1. {j \in 11 + 1..Len(Wizard!Steps) : ~Wizard!Skip(Wizard!Steps[j], w)} = {}
    BY <2>0
  <2> QED  BY <2>1 DEF Wizard!NextVisible
<1>3. N(1) = 2 /\ N(2) = 3 /\ N(3) = 4 /\ N(4) = 5 /\ N(8) = 9 /\ N(9) = 10 /\ N(10) = 11
  <2> HIDE DEF S, N
  <2> QED  BY <1>0, <1>1
<1>4. (w.useDb => N(5) = 6) /\ (~w.useDb => N(5) = 9)
  <2> HIDE DEF S, N
  <2>1. CASE w.useDb
    <3>1. ~S(6) /\ ~S(8)
      BY <2>1, <1>0
    <3> QED  BY <2>1, <3>1, <1>0, <1>1
  <2>2. CASE ~w.useDb
    <3>1. S(6) /\ S(7) /\ S(8)
      BY <2>2, <1>0
    <3> QED  BY <2>2, <3>1, <1>0, <1>1
  <2> QED  BY <2>1, <2>2
<1>5. /\ ~w.useDb => N(6) = 9
      /\ w.useDb /\ w.where = "remote" /\ WizardGuided => N(6) = 7
      /\ w.useDb /\ ~(w.where = "remote" /\ WizardGuided) => N(6) = 8
  <2> HIDE DEF S, N
  <2>1. CASE w.useDb
    <3>1. ~S(6) /\ ~S(8)
      BY <2>1, <1>0
    <3> QED  BY <2>1, <3>1, <1>0, <1>1
  <2>2. CASE ~w.useDb
    <3>1. S(7) /\ S(8)
      BY <2>2, <1>0
    <3> QED  BY <2>2, <3>1, <1>0, <1>1
  <2> QED  BY <2>1, <2>2
<1>6. (w.useDb => N(7) = 8) /\ (~w.useDb => N(7) = 9)
  <2> HIDE DEF S, N
  <2>1. CASE w.useDb
    <3>1. ~S(6) /\ ~S(8)
      BY <2>1, <1>0
    <3> QED  BY <2>1, <3>1, <1>0, <1>1
  <2>2. CASE ~w.useDb
    <3>1. S(8)
      BY <2>2, <1>0
    <3> QED  BY <2>2, <3>1, <1>0, <1>1
  <2> QED  BY <2>1, <2>2
<1> HIDE DEF N
<1>7. \A n \in 1..11 : None # n
  BY WizardAssumption
<1> QED  BY <1>2, <1>3, <1>4, <1>5, <1>6, <1>7, WizardSteps, WizardIndex
         DEF WizardPages, WizardAfter, N

LEMMA WizardBackward ==
    ASSUME NEW w, NEW key \in WizardPages, w.useDb \in BOOLEAN
    PROVE  IF key = "welcome" THEN Wizard!PrevVisible(Wizard!At(key), w) = None
           ELSE /\ Wizard!PrevVisible(Wizard!At(key), w) # None
                /\ Wizard!Steps[Wizard!PrevVisible(Wizard!At(key), w)] = WizardBefore(key, w)
<1> DEFINE N(i) == Wizard!PrevVisible(i, w)
           S(k) == Wizard!Skip(Wizard!Steps[k], w)
<1>0. /\ \A k \in {1, 2, 3, 4, 5, 9, 10, 11} : ~S(k)
      /\ (S(6) <=> ~w.useDb) /\ (S(8) <=> ~w.useDb)
      /\ S(7) <=> ~(w.useDb /\ w.where = "remote" /\ WizardGuided)
  BY WizardSteps DEF Wizard!Skip
<1>1. \A i \in 2..11 : \A j \in 1..i - 1 : ~S(j) /\ (\A k \in j + 1..i - 1 : S(k)) => N(i) = j
  BY WizardPrevIs
<1>2. N(1) = None
  BY DEF Wizard!PrevVisible
<1>3. N(2) = 1 /\ N(3) = 2 /\ N(4) = 3 /\ N(5) = 4 /\ N(6) = 5 /\ N(10) = 9 /\ N(11) = 10
  <2> HIDE DEF S, N
  <2> QED  BY <1>0, <1>1
<1>4. CASE w.useDb
  <2>1. N(7) = 6 /\ N(9) = 8
    <3> HIDE DEF S, N
    <3>1. ~S(6) /\ ~S(8)
      BY <1>4, <1>0
    <3> QED  BY <3>1, <1>1
  <2>2. w.where = "remote" /\ WizardGuided => N(8) = 7
    <3> HIDE DEF S, N
    <3> QED  BY <1>4, <1>0, <1>1
  <2>3. ~(w.where = "remote" /\ WizardGuided) => N(8) = 6
    <3> HIDE DEF S, N
    <3> QED  BY <1>4, <1>0, <1>1
  <2> HIDE DEF N
  <2>4. \A n \in 1..11 : None # n
    BY WizardAssumption
  <2> QED  BY <1>2, <1>3, <1>4, <2>1, <2>2, <2>3, <2>4, WizardSteps, WizardIndex
           DEF WizardPages, WizardBefore, N
<1>5. CASE ~w.useDb
  <2>1. S(6) /\ S(7) /\ S(8)
    BY <1>5, <1>0
  <2>2. N(7) = 5 /\ N(8) = 5 /\ N(9) = 5
    <3> HIDE DEF S, N
    <3> QED  BY <2>1, <1>0, <1>1
  <2> HIDE DEF N
  <2>3. \A n \in 1..11 : None # n
    BY WizardAssumption
  <2> QED  BY <1>2, <1>3, <1>5, <2>2, <2>3, WizardSteps, WizardIndex
           DEF WizardPages, WizardBefore, N
<1> QED  BY <1>4, <1>5

-----------------------------------------------------------------------------
(* The wizard (SetupWizard): what it chooses and stores.                   *)

WizardModes == {"local", "tunnel", "ssh"}
WizardChoices ==
    [transport : {None, "ssh", "local"}, ack : BOOLEAN, connected : BOOLEAN,
     koios : {None, "free", "key"}, token : WizardTokens \cup {None}, useDb : BOOLEAN,
     dbAnswered : BOOLEAN, where : {None, "local", "bp", "remote"}, mode : WizardModes,
     db : WizardForms \cup {None}, path : WizardForms \cup {None}, useBf : BOOLEAN,
     bfAnswered : BOOLEAN, key : WizardKeys \cup {None}]

\* What is stored names a place of the database or none at all.
WizardStored(choice) ==
    /\ choice.useDb \in BOOLEAN
    /\ choice.useDb => choice.mode \in WizardModes
    /\ ~choice.useDb => choice.mode = None /\ choice.db = None
    /\ choice.db \in WizardForms \cup {None}

\* What the field of a page may hold.
WizardFilled(page, f) ==
    /\ page = "koios" => f \in WizardTokens \cup {None}
    /\ page \in {"dbkey", "dbconn"} => f \in WizardForms \cup {None}
    /\ page = "blockfrost" => f \in WizardKeys \cup {None}

WizardTyped ==
    /\ v1 # None => WizardStored(v1)
    /\ v2 \in WizardTokens \cup {None} /\ v4 \in BOOLEAN
    /\ v5 \in WizardPages \cup {"closed", "connecting"}
    /\ v6 \in WizardChoices /\ WizardFilled(v5, v7)
    /\ v8 \in {<<>>, <<"dbkey">>, <<"dbconn">>}
    /\ v9 \in {<<>>, <<"alert">>, <<"db">>, <<"bf">>}

\* The steps behind a page have been answered.
WizardBehind(page, w) ==
    /\ page \in (WizardPages \ {"welcome", "transport"}) \cup {"connecting"} => w.transport # None
    /\ page \in WizardPages \ {"welcome", "transport", "connect"} => w.connected
    /\ page \in {"dbkey", "dbconn"} => w.useDb
    /\ page \in {"dbkey", "dbconn", "blockfrost", "notif", "done"} /\ w.useDb => w.where # None
    /\ page \in {"blockfrost", "notif", "done"} /\ w.useDb =>
         w.mode = Wizard!ModeOf(w.where) /\ (w.where = "remote" => w.db # None)
    /\ page \in {"notif", "done"} /\ w.useBf => w.key # None

\* While the shell is asked about a key file the user is at the form it is of or has
\* gone back from it, and nothing is applied.
WizardWaits(page, w, f) ==
    v8 # <<>> => /\ v9 = <<>> /\ w.where # None
                 /\ page \in {"koios", "dbhave", "dbwhere", "dbkey", "dbconn"}
                 /\ v8 = <<"dbkey">> => page # "dbconn"
                 /\ page = "dbconn" => f # None

\* What the user did not touch is as it is stored; going back from the form while its
\* key file is checked loses it, which no Finish comes of.
WizardDbKept(page, w, f) ==
    page # "closed" /\ "db" \notin v11 /\ v1 # None =>
        /\ v8 = <<"dbconn">> => w.useDb /\ w.where = "remote"
        /\ w.useDb = v1.useDb
        /\ w.useDb => /\ Wizard!ModeOf(w.where) = v1.mode /\ w.mode = v1.mode
                      /\ \/ w.db = v1.db
                         \/ /\ w.db = None /\ w.where = "remote"
                            /\ page \notin {"blockfrost", "notif", "done"}
        /\ page = "dbconn" => f = w.db
\* Nor is the token, on its page or after it.
WizardTokenKept(page, w, f) ==
    "token" \notin v11 =>
        /\ page # "closed" \/ v9 = <<"alert">> => w.token = v2
        /\ page = "koios" => f = v2

\* While Next was not clicked twice: typed, the pages behind answered, and what was not
\* touched is what is stored.
WizardOnce ==
    /\ WizardTyped /\ WizardBehind(v5, v6) /\ WizardWaits(v5, v6, v7)
    /\ WizardDbKept(v5, v6, v7) /\ WizardTokenKept(v5, v6, v7)

\* However often Next is clicked: what is typed, that the node was connected, and what
\* was not touched but for the form of the database.
WizardShape ==
    /\ v1 # None => WizardStored(v1)
    /\ v2 \in WizardTokens \cup {None} /\ v4 \in BOOLEAN
    /\ v5 \in WizardPages \cup {"closed", "connecting"}
    /\ v6 \in WizardChoices /\ WizardFilled(v5, v7)
    /\ v8 \in Seq({"dbkey", "dbconn"}) /\ v9 \in Seq({"alert", "db", "bf"})
    /\ v5 \in {"closed", "connecting"} => v8 = <<>>
    /\ v8 # <<>> => v5 \notin {"welcome", "transport", "connect"}
WizardReached(page, w) ==
    /\ page \in (WizardPages \ {"welcome", "transport"}) \cup {"connecting"} => w.transport # None
    /\ page \in WizardPages \ {"welcome", "transport", "connect"} => w.connected
WizardPlaceKept(page, w) ==
    page # "closed" /\ "db" \notin v11 =>
        /\ w.useDb => Wizard!ModeOf(w.where) = w.mode
        /\ v1 # None => w.useDb = v1.useDb /\ (w.useDb => w.mode = v1.mode)
WizardTokenStays(page, w, f) ==
    "token" \notin v11 =>
        /\ page # "closed" \/ (\E k \in DOMAIN v9 : v9[k] = "alert") => w.token = v2
        /\ page = "koios" => f = v2
WizardAlways ==
    /\ WizardShape /\ WizardReached(v5, v6) /\ WizardPlaceKept(v5, v6)
    /\ WizardTokenStays(v5, v6, v7)
WizardInv == WizardAlways /\ ("twice" \notin v11 => WizardOnce)

\* What holds of a step however often Next was clicked.
WizardHolds ==
    /\ v1' # v1 => v6'.transport # None /\ v6'.connected
    /\ v1' # v1 /\ v1 # None /\ "db" \notin v11 => v1'.useDb = v1.useDb /\ v1'.mode = v1.mode
    /\ v2' # v2 => "token" \in v11

\* What a step collects.
LEMMA WizardCollects ==
    ASSUME NEW w \in WizardChoices, NEW key \in WizardPages, NEW f, NEW there \in BOOLEAN,
           there => WizardFilled(key, f), key = "koios" => there, key = "blockfrost" => there,
           NEW c, c = Wizard!Collect(key, w, f, there)
    PROVE  /\ c \in WizardChoices /\ c.transport = w.transport /\ c.connected = w.connected
           /\ c.useDb = w.useDb /\ c.where = w.where /\ c.useBf = w.useBf
           /\ c.token = IF key = "koios" THEN f ELSE w.token
           /\ IF key = "dbconn" /\ w.useDb
              THEN c.db = (IF there THEN f ELSE None) /\ c.mode = Wizard!ModeOf(w.where)
              ELSE c.db = w.db /\ c.mode = w.mode
           /\ c.key = IF key = "blockfrost" /\ w.useBf THEN f ELSE w.key
<1>1. CASE key = "koios"
  BY <1>1 DEF Wizard!Collect, Wizard!CollectKoios, WizardChoices, WizardFilled
<1>2. CASE key = "dbkey"
  BY <1>2 DEF Wizard!Collect, WizardChoices, WizardFilled
<1>3. CASE key = "dbconn" /\ w.useDb
  <2>1. PICK d, m : d = (IF there THEN f ELSE None) /\ m = Wizard!ModeOf(w.where)
    OBVIOUS
  <2>2. c = [w EXCEPT !.db = d, !.mode = m]
    BY <1>3, <2>1 DEF Wizard!Collect, Wizard!CollectForm
  <2>3. d \in WizardForms \cup {None} /\ m \in WizardModes
    BY <1>3, <2>1 DEF WizardFilled, Wizard!ModeOf, WizardModes
  <2> QED  BY <1>3, <2>1, <2>2, <2>3 DEF WizardChoices
<1>4. CASE key = "blockfrost" /\ w.useBf
  BY <1>4 DEF Wizard!Collect, WizardChoices, WizardFilled
<1>5. CASE /\ key \notin {"koios", "dbkey"} /\ ~(key = "dbconn" /\ w.useDb)
           /\ ~(key = "blockfrost" /\ w.useBf)
  BY <1>5 DEF Wizard!Collect
<1> QED  BY <1>1, <1>2, <1>3, <1>4, <1>5

\* A list of one wait, when it is over.
LEMMA WizardOne ==
    ASSUME NEW x PROVE Wizard!RemoveAt(<<x>>, 1) = <<>> /\ DOMAIN <<x>> = {1}
BY DEF Wizard!RemoveAt

\* A step that is painted shows what is chosen.
LEMMA WizardPaints ==
    ASSUME NEW w \in WizardChoices, NEW key \in WizardPages, Wizard!Paint(key, w)
    PROVE  /\ v5' = key /\ v6' = w /\ WizardFilled(key, v7')
           /\ key = "koios" => v7' = w.token
           /\ key = "dbconn" => v7' = w.db
BY DEF Wizard!Paint, Wizard!Rendered, WizardFilled, WizardChoices, WizardPages

\* Next, once the step is answered or the shell has answered: the next step.
LEMMA WizardAdvances ==
    ASSUME WizardOnce, NEW key \in WizardPages, NEW refused \in BOOLEAN,
           v5 \in WizardPages \ {"done"}, v9 = <<>>, Wizard!Advance(key, refused),
           (key = v5 /\ Wizard!Valid(key, v6, v7)) \/ v8 = <<key>>,
           v8' = <<>>, UNCHANGED <<v4, v11>>
    PROVE  WizardOnce' /\ UNCHANGED <<v1, v2>>
<1>1. /\ v6 \in WizardChoices /\ WizardFilled(v5, v7) /\ v8 \in {<<>>, <<"dbkey">>, <<"dbconn">>}
      /\ v8 = <<key>> => key \in {"dbkey", "dbconn"}
  BY DEF WizardOnce, WizardTyped
<1>2. PICK there \in BOOLEAN : there = (v5 = key)
  OBVIOUS
<1>3. PICK c : c = Wizard!Collect(key, v6, v7, there)
  OBVIOUS
<1>4. PICK q : q = WizardAfter(v5, c)
  OBVIOUS
<1>5. /\ c \in WizardChoices /\ c.transport = v6.transport /\ c.connected = v6.connected
      /\ c.useDb = v6.useDb /\ c.where = v6.where /\ c.useBf = v6.useBf
      /\ c.token = IF key = "koios" THEN v7 ELSE v6.token
      /\ IF key = "dbconn" /\ v6.useDb
         THEN c.db = (IF there THEN v7 ELSE None) /\ c.mode = Wizard!ModeOf(v6.where)
         ELSE c.db = v6.db /\ c.mode = v6.mode
      /\ c.key = IF key = "blockfrost" /\ v6.useBf THEN v7 ELSE v6.key
  <2>1. key \in {"koios", "blockfrost"} => there
    BY <1>1, <1>2
  <2>2. there => WizardFilled(key, v7)
    BY <1>1, <1>2
  <2> QED  BY <1>1, <1>3, <2>1, <2>2, WizardCollects
<1>6. q \in WizardPages
  BY <1>4 DEF WizardAfter, WizardPages
<1>7. Wizard!Paint(q, c) /\ UNCHANGED <<v1, v2, v3, v9, v10>>
  <2>1. c.useDb \in BOOLEAN
    BY <1>5 DEF WizardChoices
  <2>2. Wizard!NextVisible(Wizard!At(v5), c) # None
        /\ Wizard!Steps[Wizard!NextVisible(Wizard!At(v5), c)] = q
    BY <1>4, <2>1, WizardForward
  <2>3. c = Wizard!Collect(key, v6, v7, v5 = key)
    BY <1>2, <1>3
  <2> QED  BY <2>2, <2>3, Zenon DEF Wizard!Advance, Wizard!disk
<1>8. /\ v5' = q /\ v6' = c /\ WizardFilled(q, v7')
      /\ q = "koios" => v7' = c.token
      /\ q = "dbconn" => v7' = c.db
  BY <1>5, <1>6, <1>7, WizardPaints DEF WizardPages
<1>9. WizardBehind(q, c)
  <2>1. WizardBehind(v5, v6)
    BY DEF WizardOnce
  <2>2. v6.useDb \in BOOLEAN /\ v6.useBf \in BOOLEAN
    BY <1>1 DEF WizardChoices
  <2>3. v8 = <<key>> =>
          /\ v6.where # None /\ v5 \in {"koios", "dbhave", "dbwhere", "dbkey", "dbconn"}
          /\ v5 = "dbconn" => v7 # None /\ key = "dbconn"
    BY <1>1 DEF WizardOnce, WizardWaits
  <2>4. CASE v8 = <<key>>
    BY <1>2, <1>4, <1>5, <2>1, <2>2, <2>3, <2>4 DEF WizardBehind, WizardAfter, WizardPages
  <2>5. CASE key = v5 /\ Wizard!Valid(key, v6, v7)
    <3>1. /\ v5 = "transport" => v6.transport # None
          /\ v5 = "connect" => v6.connected
          /\ v5 = "dbwhere" => v6.where # None
          /\ v5 = "dbconn" /\ v6.where = "remote" => v7 # None
          /\ v5 = "blockfrost" /\ v6.useBf => v7 # None
      BY <2>5, WizardAssumption DEF Wizard!Valid, Wizard!ValidTransport, Wizard!ValidForm,
         Wizard!ValidBlockfrost
    <3> QED  BY <1>2, <1>4, <1>5, <2>1, <2>2, <2>5, <3>1 DEF WizardBehind, WizardAfter, WizardPages
  <2> QED  BY <2>4, <2>5
<1>10. WizardTyped'
  BY <1>5, <1>6, <1>7, <1>8 DEF WizardOnce, WizardTyped, WizardPages, WizardStored
<1>11. WizardDbKept(v5, v6, v7)'
  <2>1. SUFFICES ASSUME "db" \notin v11, v1 # None PROVE WizardDbKept(v5, v6, v7)'
    BY <1>7 DEF WizardDbKept
  <2>2. v6.useDb = v1.useDb /\ v6.useDb \in BOOLEAN
    BY <1>1, <2>1 DEF WizardOnce, WizardDbKept, WizardChoices, WizardPages
  <2>3. CASE ~v6.useDb
    BY <1>4, <1>5, <1>7, <1>8, <2>2, <2>3 DEF WizardDbKept, WizardAfter
  <2>4. CASE v6.useDb
    <3>1. /\ Wizard!ModeOf(v6.where) = v1.mode /\ v6.mode = v1.mode
          /\ \/ v6.db = v1.db
             \/ /\ v6.db = None /\ v6.where = "remote"
                /\ v5 \notin {"blockfrost", "notif", "done"}
          /\ v5 = "dbconn" => v7 = v6.db
          /\ v8 = <<"dbconn">> => v6.where = "remote"
      BY <2>1, <2>4 DEF WizardOnce, WizardDbKept, WizardPages
    <3>2. c.mode = v1.mode
      BY <1>5, <3>1
    <3>3. v5 = "dbconn" => key = "dbconn" /\ (v6.where = "remote" => v7 # None)
      <4>1. CASE v8 = <<key>>
        BY <1>1, <4>1 DEF WizardOnce, WizardWaits
      <4>2. CASE key = v5 /\ Wizard!Valid(key, v6, v7)
        BY <4>2 DEF Wizard!Valid, Wizard!ValidForm
      <4> QED  BY <4>1, <4>2
    <3>4. q \in {"blockfrost", "notif", "done"} => v5 \in {"dbconn", "blockfrost", "notif"}
      BY <1>4, <1>5, <2>4 DEF WizardAfter, WizardPages
    <3>5. key = "dbconn" => v5 = "dbconn" \/ v6.where = "remote"
      BY <1>1, <3>1
    <3>6. \/ c.db = v1.db
          \/ c.db = None /\ c.where = "remote" /\ q \notin {"blockfrost", "notif", "done"}
      <4>1. CASE v5 = "dbconn"
        BY <4>1, <1>2, <1>5, <2>4, <3>1, <3>3
      <4>2. CASE v5 # "dbconn" /\ key = "dbconn"
        <5>1. v5 \notin {"blockfrost", "notif"}
          BY <1>1, <4>2 DEF WizardOnce, WizardWaits
        <5> QED  BY <4>2, <5>1, <1>2, <1>5, <2>4, <3>1, <3>4, <3>5
      <4>3. CASE v5 # "dbconn" /\ key # "dbconn"
        BY <4>3, <1>5, <3>1, <3>4
      <4> QED  BY <4>1, <4>2, <4>3
    <3> QED  BY <1>5, <1>7, <1>8, <2>2, <3>1, <3>2, <3>6 DEF WizardDbKept
  <2> QED  BY <2>2, <2>3, <2>4
<1>12. WizardTokenKept(v5, v6, v7)'
  <2>1. WizardTokenKept(v5, v6, v7) /\ (key = "koios" => v5 = "koios")
    BY <1>1 DEF WizardOnce
  <2>2. "token" \notin v11 => c.token = v2
    BY <1>5, <2>1 DEF WizardTokenKept, WizardPages
  <2> QED  BY <1>7, <1>8, <2>2 DEF WizardTokenKept
<1>13. WizardWaits(v5, v6, v7)'
  BY DEF WizardWaits
<1> QED  BY <1>7, <1>8, <1>9, <1>10, <1>11, <1>12, <1>13 DEF WizardOnce

\* Finish: what is stored is what was chosen.
LEMMA WizardFinishes ==
    ASSUME WizardOnce, NEW refused \in BOOLEAN, v5 = "done", v9 = <<>>, v8 = <<>>,
           Wizard!Advance("done", refused), v8' = <<>>, UNCHANGED <<v4, v11>>
    PROVE  WizardOnce' /\ Wizard!KeepsTheRest /\ Wizard!WholeIfStored
<1>1. v6 \in WizardChoices /\ v4 \in BOOLEAN /\ v2 \in WizardTokens \cup {None}
      /\ (v1 # None => WizardStored(v1))
  BY DEF WizardOnce, WizardTyped
<1>2. PICK stage : stage = IF refused THEN "alert" ELSE Wizard!FromToken(v6)
  OBVIOUS
<1>3. stage \in {"alert", "db", "bf", None} /\ (stage = "alert" <=> refused)
  BY <1>2, WizardAssumption DEF Wizard!FromToken, Wizard!FromBf
<1>4. Wizard!BeginApply(v6, refused)
  <2>1. Wizard!Collect("done", v6, v7, v5 = "done") = v6
    BY DEF Wizard!Collect
  <2>2. v6.useDb \in BOOLEAN
    BY <1>1 DEF WizardChoices
  <2>3. Wizard!NextVisible(Wizard!At(v5), v6) = None
    BY <2>2, WizardForward DEF WizardPages
  <2> QED  BY <2>1, <2>3, Zenon DEF Wizard!Advance
<1>5. /\ v6' = v6 /\ v7' = v7
      /\ v1' = IF refused THEN v1 ELSE Wizard!SourceChoice(v6)
      /\ v2' = IF refused THEN v2 ELSE v6.token
      /\ IF stage = None THEN v5' = "closed" ELSE v5' = v5
      /\ v9' = IF stage = None THEN v9 ELSE <<stage>>
  BY <1>2, <1>4 DEF Wizard!BeginApply, Wizard!Closes
<1>6. WizardBehind("done", v6) /\ WizardTokenKept("done", v6, v7) /\ WizardDbKept("done", v6, v7)
  BY DEF WizardOnce
<1>7. PICK choice : choice = Wizard!SourceChoice(v6)
  OBVIOUS
<1>8. /\ choice.useDb = v6.useDb /\ choice.useBf = v6.useBf
      /\ choice.mode = IF v6.useDb THEN v6.mode ELSE None
      /\ choice.db = IF v6.useDb THEN v6.db ELSE None
  BY <1>7 DEF Wizard!SourceChoice
<1>9. WizardStored(choice)
  BY <1>1, <1>8 DEF WizardStored, WizardChoices
<1>10. WizardTyped'
  <2>1. v1' # None => WizardStored(v1)'
    <3>1. CASE refused
      BY <1>1, <1>5, <3>1 DEF WizardStored
    <3>2. CASE ~refused
      BY <1>5, <1>7, <1>9, <3>2 DEF WizardStored
    <3> QED  BY <3>1, <3>2
  <2>2. v2' \in WizardTokens \cup {None}
    BY <1>1, <1>5 DEF WizardChoices
  <2>3. v5' \in {"done", "closed"} /\ v9' \in {<<>>, <<"alert">>, <<"db">>, <<"bf">>}
    BY <1>3, <1>5
  <2> QED  BY <1>1, <1>5, <2>1, <2>2, <2>3 DEF WizardTyped, WizardFilled, WizardPages
<1>11. WizardBehind(v5, v6)'
  BY <1>5, <1>6 DEF WizardBehind, WizardPages
<1>12. WizardWaits(v5, v6, v7)'
  BY DEF WizardWaits
<1>13. WizardDbKept(v5, v6, v7)'
  <2>1. SUFFICES ASSUME v5' = "done", "db" \notin v11, v1' # None
                 PROVE  WizardDbKept(v5, v6, v7)'
    BY <1>5 DEF WizardDbKept
  <2>2. CASE refused
    BY <1>5, <1>6, <2>1, <2>2 DEF WizardDbKept
  <2>3. CASE ~refused
    <3>1. v6.useDb => Wizard!ModeOf(v6.where) = v6.mode
      BY <1>6 DEF WizardBehind, WizardPages
    <3> QED  BY <1>5, <1>7, <1>8, <2>1, <2>3, <3>1 DEF WizardDbKept
  <2> QED  BY <2>2, <2>3
<1>14. WizardTokenKept(v5, v6, v7)'
  BY <1>3, <1>5, <1>6 DEF WizardTokenKept
<1>15. Wizard!KeepsTheRest
  <2>1. v2' # v2 => "token" \in v11
    BY <1>5, <1>6 DEF WizardTokenKept
  <2>2. ASSUME v1' # v1, v1 # None, "db" \notin v11
        PROVE  v1'.useDb = v1.useDb /\ v1'.mode = v1.mode /\ v1'.db = v1.db
    <3>1. v1' = choice
      BY <1>5, <1>7, <2>2
    <3>2. /\ v6.useDb = v1.useDb
          /\ v6.useDb => v6.mode = v1.mode /\ v6.db = v1.db
      BY <1>6, <2>2 DEF WizardDbKept
    <3>3. v1.useDb \in BOOLEAN /\ (~v1.useDb => v1.mode = None /\ v1.db = None)
      BY <1>1, <2>2 DEF WizardStored
    <3> QED  BY <1>8, <3>1, <3>2, <3>3
  <2> QED  BY <2>1, <2>2 DEF Wizard!KeepsTheRest
<1>16. Wizard!WholeIfStored
  <2>1. SUFFICES ASSUME v1' = choice
                 PROVE  /\ v6.transport # None /\ v6.connected
                        /\ choice.useDb => choice.mode = Wizard!ModeOf(v6.where)
                        /\ choice.mode = "ssh" => choice.db # None
                        /\ choice.useBf => v6.key # None
    BY <1>5, <1>7 DEF Wizard!WholeIfStored
  <2>2. v6.useDb \in BOOLEAN /\ v6.useBf \in BOOLEAN /\ v6.where \in {None, "local", "bp", "remote"}
    BY <1>1 DEF WizardChoices
  <2>3. /\ v6.transport # None /\ v6.connected
        /\ v6.useDb => v6.where # None /\ v6.mode = Wizard!ModeOf(v6.where)
                       /\ (v6.where = "remote" => v6.db # None)
        /\ v6.useBf => v6.key # None
    BY <1>6 DEF WizardBehind, WizardPages
  <2>4. v6.useDb /\ v6.mode = "ssh" => v6.where = "remote"
    BY <2>2, <2>3 DEF Wizard!ModeOf
  <2> QED  BY <1>8, <2>2, <2>3, <2>4, WizardAssumption
<1> QED  BY <1>10, <1>11, <1>12, <1>13, <1>14, <1>15, <1>16, <1>5 DEF WizardOnce

\* A wait of Finish is over.
LEMMA WizardApplies ==
    ASSUME WizardOnce, NEW k \in DOMAIN v9, Wizard!ApplyGoesOn(k)
    PROVE  WizardOnce' /\ Wizard!KeepsTheRest /\ UNCHANGED v1
<1>1. PICK stage \in {"alert", "db", "bf"} : v9 = <<stage>> /\ k = 1
  BY DEF WizardOnce, WizardTyped
<1>2. PICK then : then = CASE stage = "alert" -> Wizard!FromToken(v6)
                           [] stage = "db" -> Wizard!FromBf(v6) [] OTHER -> None
  OBVIOUS
<1>3. then \in {"db", "bf", None}
  BY <1>2 DEF Wizard!FromToken, Wizard!FromBf
<1>4. /\ v2' = IF stage = "alert" THEN v6.token ELSE v2
      /\ IF then = None THEN v5' = "closed" ELSE v5' = v5
      /\ v9' = (IF then = None THEN <<>> ELSE <<then>>)
      /\ v8' = IF then = None THEN <<>> ELSE v8
      /\ UNCHANGED <<v1, v4, v6, v7, v11>>
  <2>1. v9[k] = stage /\ Wizard!RemoveAt(v9, k) = <<>> /\ [v9 EXCEPT ![k] = then] = <<then>>
    BY <1>1, WizardOne
  <2> QED  BY <1>1, <1>2, <2>1 DEF Wizard!ApplyGoesOn, Wizard!Closes
<1>5. v8 = <<>>
  BY <1>1 DEF WizardOnce, WizardTyped, WizardWaits
<1>6. v6 \in WizardChoices
  BY DEF WizardOnce, WizardTyped
<1>7. v6.token \in WizardTokens \cup {None}
  BY <1>6 DEF WizardChoices
<1>8. WizardTyped'
  BY <1>3, <1>4, <1>5, <1>7 DEF WizardOnce, WizardTyped, WizardFilled, WizardPages
<1>9. WizardBehind(v5, v6)' /\ WizardWaits(v5, v6, v7)' /\ WizardDbKept(v5, v6, v7)'
  BY <1>4, <1>5 DEF WizardOnce, WizardBehind, WizardWaits, WizardDbKept, WizardPages
<1>10. WizardTokenKept(v5, v6, v7)' /\ (v2' # v2 => "token" \in v11)
  BY <1>1, <1>3, <1>4, WizardAssumption DEF WizardOnce, WizardTokenKept
<1> QED  BY <1>4, <1>8, <1>9, <1>10 DEF WizardOnce, Wizard!KeepsTheRest

\* Next: the step is answered, checked by the shell or left, the last one stored.
LEMMA WizardClicks ==
    ASSUME WizardOnce, Wizard!ClickNext, "twice" \notin v11'
    PROVE  WizardOnce' /\ Wizard!KeepsTheRest /\ Wizard!WholeIfStored
<1>1. v5 \in WizardPages /\ Wizard!Valid(v5, v6, v7) /\ UNCHANGED v4
  BY WizardSteps DEF Wizard!ClickNext
<1>2. v8 = <<>> /\ v9 = <<>> /\ UNCHANGED v11
  BY DEF Wizard!ClickNext
<1>3. CASE Wizard!Checks(v5, v6)
  <2>1. /\ v8' = <<v5>> /\ UNCHANGED <<v1, v2, v5, v6, v7, v9>>
    BY <1>2, <1>3 DEF Wizard!ClickNext, Wizard!disk
  <2>2. v5 = "dbkey" \/ (v5 = "dbconn" /\ v6.where = "remote")
    BY <1>3 DEF Wizard!Checks
  <2>3. v7 # None /\ v6.useDb /\ v6.where # None
    <3>1. v7 # None
      BY <1>1, <2>2 DEF Wizard!Valid, Wizard!ValidForm
    <3>2. v6.useDb /\ v6.where # None
      BY <2>2 DEF WizardOnce, WizardBehind, WizardPages
    <3> QED  BY <3>1, <3>2
  <2>4. WizardTyped' /\ WizardBehind(v5, v6)' /\ WizardTokenKept(v5, v6, v7)'
    BY <1>1, <1>2, <2>1, <2>2 DEF WizardOnce, WizardTyped, WizardFilled, WizardBehind, WizardTokenKept
  <2>5. WizardWaits(v5, v6, v7)'
    BY <1>2, <2>1, <2>2, <2>3 DEF WizardWaits
  <2>6. WizardDbKept(v5, v6, v7)'
    BY <1>1, <1>2, <2>1, <2>2, <2>3 DEF WizardOnce, WizardDbKept
  <2>7. Wizard!KeepsTheRest /\ Wizard!WholeIfStored
    BY <2>1 DEF Wizard!KeepsTheRest, Wizard!WholeIfStored
  <2> QED  BY <2>4, <2>5, <2>6, <2>7 DEF WizardOnce
<1>4. CASE ~Wizard!Checks(v5, v6)
  <2>1. PICK refused \in BOOLEAN : Wizard!Advance(v5, refused) /\ v8' = <<>>
    BY <1>2, <1>4 DEF Wizard!ClickNext
  <2>2. CASE v5 = "done"
    BY <1>1, <1>2, <2>1, <2>2, WizardFinishes
  <2>3. CASE v5 # "done"
    <3>1. WizardOnce' /\ UNCHANGED <<v1, v2>>
      BY <1>1, <1>2, <2>1, <2>3, WizardAdvances
    <3> QED  BY <3>1 DEF Wizard!KeepsTheRest, Wizard!WholeIfStored
  <2> QED  BY <2>2, <2>3
<1> QED  BY <1>3, <1>4

\* The shell answers about a key file.
LEMMA WizardAnswered ==
    ASSUME WizardOnce, NEW k \in DOMAIN v8, Wizard!CheckPasses(k) \/ Wizard!CheckFails(k)
    PROVE  WizardOnce' /\ UNCHANGED <<v1, v2>>
<1>1. PICK key \in {"dbkey", "dbconn"} : v8 = <<key>> /\ k = 1
  BY DEF WizardOnce, WizardTyped
<1>2. v9 = <<>> /\ v5 \in WizardPages \ {"done"}
  BY <1>1 DEF WizardOnce, WizardWaits, WizardPages
<1>3. v8[k] = key /\ Wizard!RemoveAt(v8, k) = <<>>
  BY <1>1, WizardOne
<1>4. CASE Wizard!CheckPasses(k)
  <2>1. Wizard!Advance(key, FALSE) /\ v8' = <<>> /\ UNCHANGED <<v4, v11>>
    BY <1>3, <1>4 DEF Wizard!CheckPasses
  <2> QED  BY <1>1, <1>2, <2>1, WizardAdvances DEF WizardPages
<1>5. CASE Wizard!CheckFails(k)
  <2>1. v8' = <<>> /\ UNCHANGED <<v1, v2, v4, v5, v6, v7, v9, v11>>
    BY <1>3, <1>5 DEF Wizard!CheckFails, Wizard!disk, Wizard!hist
  <2> QED  BY <2>1 DEF WizardOnce, WizardTyped, WizardBehind, WizardWaits,
           WizardDbKept, WizardTokenKept
<1> QED  BY <1>4, <1>5

\* Back: what was typed on the page is lost, what was chosen stays.
LEMMA WizardGoesBack ==
    ASSUME WizardOnce, Wizard!Back
    PROVE  WizardOnce' /\ UNCHANGED <<v1, v2>>
<1>1. /\ v5 \in WizardPages /\ v6 \in WizardChoices
      /\ v6.useDb \in BOOLEAN /\ v6.connected \in BOOLEAN
  BY WizardSteps DEF WizardOnce, WizardTyped, Wizard!Back, WizardChoices
<1>2. PICK q : q = WizardBefore(v5, v6)
  OBVIOUS
<1>3. /\ v5 # "welcome" /\ Wizard!Paint(q, v6)
      /\ v6.connected => v5 \notin {"transport", "connect", "koios"}
      /\ UNCHANGED <<v1, v2, v4, v8, v9, v11>>
  BY <1>1, <1>2, WizardBackward, WizardIndex
     DEF Wizard!Back, Wizard!BackLocked, Wizard!ConnectIdx, Wizard!disk, Wizard!hist,
         WizardPages
<1>4. q \in WizardPages
  BY <1>2 DEF WizardBefore, WizardPages
<1>5. /\ v5' = q /\ v6' = v6 /\ WizardFilled(q, v7')
      /\ q = "koios" => v7' = v6.token
      /\ q = "dbconn" => v7' = v6.db
  BY <1>1, <1>3, <1>4, WizardPaints
<1>6. WizardBehind(v5, v6)
  BY DEF WizardOnce
<1>7. q = "dbconn" => v6.useDb
  BY <1>1, <1>2 DEF WizardBefore, WizardPages
<1>8. WizardBehind(v5, v6)'
  BY <1>1, <1>2, <1>3, <1>5, <1>6 DEF WizardBehind, WizardBefore, WizardPages
<1>9. WizardWaits(v5, v6, v7)'
  <2>1. v8 # <<>> =>
          v9 = <<>> /\ v6.where # None /\ v5 \in {"koios", "dbhave", "dbwhere", "dbkey", "dbconn"}
    BY DEF WizardOnce, WizardWaits
  <2>2. v8 # <<>> => v5 # "koios"
    BY <1>3, <1>6, <2>1 DEF WizardBehind, WizardPages
  <2> QED  BY <1>2, <1>3, <1>5, <2>1, <2>2 DEF WizardWaits, WizardBefore
<1>10. WizardDbKept(v5, v6, v7)'
  <2>1. q \in {"blockfrost", "notif", "done"} => v5 \in {"blockfrost", "notif", "done"}
    BY <1>1, <1>2, <1>3 DEF WizardBefore, WizardPages
  <2> QED  BY <1>1, <1>3, <1>4, <1>5, <2>1 DEF WizardOnce, WizardDbKept, WizardPages
<1>11. WizardTokenKept(v5, v6, v7)' /\ WizardTyped'
  BY <1>1, <1>3, <1>4, <1>5 DEF WizardOnce, WizardTyped, WizardTokenKept, WizardPages
<1> QED  BY <1>3, <1>8, <1>9, <1>10, <1>11 DEF WizardOnce

\* What choosing a card leaves as it is.
LEMMA WizardChosen ==
    ASSUME v6 \in WizardChoices, NEW w \in Wizard!Chosen
    PROVE  /\ w \in WizardChoices /\ w.connected = v6.connected /\ w.token = v6.token
           /\ w.mode = v6.mode /\ w.db = v6.db /\ w.key = v6.key
           /\ v5 \in {"transport", "koios", "dbhave", "dbwhere", "blockfrost"}
           /\ v5 # "transport" => w.transport = v6.transport
           /\ v5 # "dbhave" => w.useDb = v6.useDb
           /\ v5 # "dbwhere" => w.where = v6.where
           /\ v6.where # None => w.where # None
           /\ v5 # "blockfrost" => w.useBf = v6.useBf
<1>1. CASE v5 = "transport"
  <2>1. \/ w = [v6 EXCEPT !.transport = "ssh", !.ack = FALSE]
        \/ w = [v6 EXCEPT !.transport = "local"]
        \/ w = [v6 EXCEPT !.ack = (v6.transport = "local")]
    BY <1>1 DEF Wizard!Chosen
  <2>2. CASE w = [v6 EXCEPT !.transport = "ssh", !.ack = FALSE]
    BY <1>1, <2>2 DEF WizardChoices
  <2>3. CASE w = [v6 EXCEPT !.transport = "local"]
    BY <1>1, <2>3 DEF WizardChoices
  <2>4. CASE w = [v6 EXCEPT !.ack = (v6.transport = "local")]
    <3>1. PICK b \in BOOLEAN : w = [v6 EXCEPT !.ack = b]
      BY <2>4
    <3> QED  BY <1>1, <3>1 DEF WizardChoices
  <2> QED  BY <2>1, <2>2, <2>3, <2>4
<1>2. CASE v5 = "koios"
  BY <1>2 DEF Wizard!Chosen, WizardChoices
<1>3. CASE v5 = "dbhave"
  <2>1. w \in {[v6 EXCEPT !.useDb = y, !.dbAnswered = TRUE] : y \in BOOLEAN}
    BY <1>3 DEF Wizard!Chosen
  <2>2. PICK y \in BOOLEAN : w = [v6 EXCEPT !.useDb = y, !.dbAnswered = TRUE]
    BY <2>1
  <2> QED  BY <1>3, <2>2 DEF WizardChoices
<1>4. CASE v5 = "dbwhere"
  <2>1. w \in {[v6 EXCEPT !.where = p] : p \in {"local", "bp", "remote"}}
    BY <1>4 DEF Wizard!Chosen
  <2>2. PICK p \in {"local", "bp", "remote"} : w = [v6 EXCEPT !.where = p]
    BY <2>1
  <2> QED  BY <1>4, <2>2, WizardAssumption DEF WizardChoices
<1>5. CASE v5 = "blockfrost"
  <2>1. w \in {[v6 EXCEPT !.useBf = y, !.bfAnswered = TRUE] : y \in BOOLEAN}
    BY <1>5 DEF Wizard!Chosen
  <2>2. PICK y \in BOOLEAN : w = [v6 EXCEPT !.useBf = y, !.bfAnswered = TRUE]
    BY <2>1
  <2> QED  BY <1>5, <2>2 DEF WizardChoices
<1> QED  BY <1>1, <1>2, <1>3, <1>4, <1>5 DEF Wizard!Chosen

\* A card is chosen, or a field filled in.
LEMMA WizardChooses ==
    ASSUME WizardOnce, NEW w \in Wizard!Chosen, Wizard!Choose(w)
    PROVE  WizardOnce' /\ UNCHANGED <<v1, v2>>
<1>1. v6 \in WizardChoices
  BY DEF WizardOnce, WizardTyped
<1>2. /\ w \in WizardChoices /\ w.connected = v6.connected /\ w.token = v6.token
      /\ w.mode = v6.mode /\ w.db = v6.db /\ w.key = v6.key
      /\ v5 \in {"transport", "koios", "dbhave", "dbwhere", "blockfrost"}
      /\ v5 # "transport" => w.transport = v6.transport
      /\ v5 # "dbhave" => w.useDb = v6.useDb
      /\ v5 # "dbwhere" => w.where = v6.where
      /\ v6.where # None => w.where # None
      /\ v5 # "blockfrost" => w.useBf = v6.useBf
  BY <1>1, WizardChosen
<1>3. /\ v6' = w /\ UNCHANGED <<v1, v2, v4, v5, v7, v8, v9>>
      /\ v11' = v11 \cup (IF w.useDb # v6.useDb \/ w.where # v6.where THEN {"db"} ELSE {})
  BY DEF Wizard!Choose, Wizard!disk, Wizard!ConcernsDb
<1>4. WizardTyped'
  BY <1>2, <1>3 DEF WizardOnce, WizardTyped
<1>5. WizardBehind(v5, v6)'
  BY <1>2, <1>3 DEF WizardOnce, WizardBehind, WizardPages
<1>6. WizardWaits(v5, v6, v7)'
  BY <1>2, <1>3 DEF WizardOnce, WizardWaits
<1>7. WizardDbKept(v5, v6, v7)'
  <2>1. SUFFICES ASSUME "db" \notin v11' PROVE WizardDbKept(v5, v6, v7)'
    BY DEF WizardDbKept
  <2>2. w.useDb = v6.useDb /\ w.where = v6.where /\ "db" \notin v11
    BY <1>3, <2>1
  <2> QED  BY <1>2, <1>3, <2>2 DEF WizardOnce, WizardDbKept
<1>8. WizardTokenKept(v5, v6, v7)'
  BY <1>2, <1>3 DEF WizardOnce, WizardTokenKept
<1> QED  BY <1>3, <1>4, <1>5, <1>6, <1>7, <1>8 DEF WizardOnce

LEMMA WizardTypes ==
    ASSUME WizardOnce, NEW v \in Wizard!Typable, Wizard!Type(v)
    PROVE  WizardOnce' /\ UNCHANGED <<v1, v2>>
<1>1. /\ v7' = v /\ UNCHANGED <<v1, v2, v4, v5, v6, v8, v9>>
      /\ v11' = v11 \cup {IF v5 = "koios" THEN "token" ELSE "db"}
  BY DEF Wizard!Type, Wizard!disk
<1>2. /\ v5 \in {"koios", "dbkey", "dbconn", "blockfrost"} /\ WizardFilled(v5, v)
      /\ v5 = "dbconn" => v # None
  BY WizardAssumption DEF Wizard!Typable, WizardFilled
<1>3. WizardTyped'
  BY <1>1, <1>2 DEF WizardOnce, WizardTyped
<1>4. WizardBehind(v5, v6)' /\ WizardWaits(v5, v6, v7)'
  BY <1>1, <1>2 DEF WizardOnce, WizardBehind, WizardWaits
<1>5. WizardDbKept(v5, v6, v7)' /\ WizardTokenKept(v5, v6, v7)'
  BY <1>1, <1>2 DEF WizardOnce, WizardDbKept, WizardTokenKept
<1> QED  BY <1>1, <1>3, <1>4, <1>5 DEF WizardOnce

\* The connection screen, and the ways out of the wizard.
LEMMA WizardConnects ==
    ASSUME WizardOnce, Wizard!OpenConnect \/ (\E live \in BOOLEAN : Wizard!Connected(live))
    PROVE  WizardOnce' /\ UNCHANGED <<v1, v2>>
<1>1. v6 \in WizardChoices /\ v4 \in BOOLEAN
  BY DEF WizardOnce, WizardTyped
<1>2. CASE Wizard!OpenConnect
  <2>1. /\ v5 = "connect" /\ v5' = "connecting" /\ v8' = <<>>
        /\ UNCHANGED <<v1, v2, v4, v6, v7, v9, v11>>
    BY <1>2 DEF Wizard!OpenConnect, Wizard!disk, Wizard!hist
  <2> QED  BY <2>1 DEF WizardOnce, WizardTyped, WizardFilled, WizardBehind, WizardWaits,
           WizardDbKept, WizardTokenKept, WizardPages
<1>3. CASE \E live \in BOOLEAN : Wizard!Connected(live)
  <2>1. PICK live \in BOOLEAN : Wizard!Connected(live)
    BY <1>3
  <2>2. PICK s \in BOOLEAN : s = (v4 \/ live)
    OBVIOUS
  <2>3. PICK w, q : w = [v6 EXCEPT !.connected = s] /\ q = IF live THEN "koios" ELSE "connect"
    OBVIOUS
  <2>4. /\ v5 = "connecting" /\ v4' = s /\ Wizard!Paint(q, w)
        /\ UNCHANGED <<v1, v2, v8, v9, v11>>
    BY <1>1, <2>1, <2>2, <2>3 DEF Wizard!Connected, Wizard!disk, Wizard!hist
  <2>5. /\ w \in WizardChoices /\ w.connected = s /\ w.transport = v6.transport
        /\ w.useDb = v6.useDb /\ w.where = v6.where /\ w.mode = v6.mode /\ w.db = v6.db
        /\ w.token = v6.token
    BY <1>1, <2>3 DEF WizardChoices
  <2>6. q \in {"koios", "connect"} /\ (q = "koios" => s)
    BY <2>2, <2>3
  <2>7. v5' = q /\ v6' = w /\ WizardFilled(q, v7') /\ (q = "koios" => v7' = w.token)
    BY <2>4, <2>5, <2>6, WizardPaints DEF WizardPages
  <2>8. v8 = <<>>
    BY <2>4 DEF WizardOnce, WizardTyped, WizardWaits
  <2>9. WizardTyped' /\ WizardWaits(v5, v6, v7)'
    BY <2>4, <2>5, <2>6, <2>7, <2>8 DEF WizardOnce, WizardTyped, WizardWaits, WizardPages
  <2>10. WizardBehind(v5, v6)'
    BY <2>4, <2>5, <2>6, <2>7 DEF WizardOnce, WizardBehind, WizardPages
  <2>11. WizardDbKept(v5, v6, v7)' /\ WizardTokenKept(v5, v6, v7)'
    BY <2>4, <2>5, <2>6, <2>7, <2>8 DEF WizardOnce, WizardDbKept, WizardTokenKept
  <2> QED  BY <2>4, <2>9, <2>10, <2>11 DEF WizardOnce
<1> QED  BY <1>2, <1>3

LEMMA WizardLeaves ==
    ASSUME WizardOnce, Wizard!OpenDemo \/ Wizard!Cancel \/ Wizard!TestKey
    PROVE  WizardOnce' /\ UNCHANGED <<v1, v2>>
<1>1. CASE Wizard!TestKey
  <2>1. UNCHANGED <<v1, v2, v4, v5, v6, v7, v8, v9, v11>>
    BY <1>1 DEF Wizard!TestKey, Wizard!dialog, Wizard!hist
  <2> QED  BY <2>1 DEF WizardOnce, WizardTyped, WizardFilled, WizardBehind, WizardWaits,
           WizardDbKept, WizardTokenKept
<1>2. CASE Wizard!OpenDemo \/ Wizard!Cancel
  <2>1. /\ v5 \in WizardPages /\ v5' = "closed" /\ v8' = <<>>
        /\ UNCHANGED <<v1, v2, v4, v6, v7, v9, v11>>
    BY <1>2, WizardSteps DEF Wizard!OpenDemo, Wizard!Cancel, Wizard!disk, Wizard!hist, WizardPages
  <2> QED  BY <2>1 DEF WizardOnce, WizardTyped, WizardFilled, WizardBehind, WizardWaits,
           WizardDbKept, WizardTokenKept, WizardPages
<1> QED  BY <1>1, <1>2

-----------------------------------------------------------------------------
(* The wizard, however often Next is clicked.                              *)

\* A list without one of its elements has no others than it had.
LEMMA WizardRemoves ==
    ASSUME NEW S, NEW s \in Seq(S), NEW k \in DOMAIN s
    PROVE  /\ Wizard!RemoveAt(s, k) \in Seq(S)
           /\ \A i \in DOMAIN Wizard!RemoveAt(s, k) :
                \E j \in DOMAIN s : Wizard!RemoveAt(s, k)[i] = s[j]
<1>1. Len(s) \in Nat /\ k \in 1..Len(s) /\ DOMAIN s = 1..Len(s)
  OBVIOUS
<1>2. PICK a, b : a = SubSeq(s, 1, k - 1) /\ b = SubSeq(s, k + 1, Len(s))
  OBVIOUS
<1>3. a \in Seq(S) /\ \A i \in DOMAIN a : \E j \in DOMAIN s : a[i] = s[j]
  <2>1. a \in Seq(S) /\ Len(a) = k - 1 /\ \A i \in 1..k - 1 : a[i] = s[i]
    BY <1>1, <1>2
  <2> QED  BY <1>1, <2>1
<1>4. b \in Seq(S) /\ \A i \in DOMAIN b : \E j \in DOMAIN s : b[i] = s[j]
  <2>1. b \in Seq(S) /\ Len(b) = Len(s) - k /\ \A i \in 1..Len(s) - k : b[i] = s[k + i]
    BY <1>1, <1>2
  <2> QED  BY <1>1, <2>1
<1>5. a \o b \in Seq(S) /\ Wizard!RemoveAt(s, k) = a \o b
  BY <1>2, <1>3, <1>4 DEF Wizard!RemoveAt
<1>6. ASSUME NEW i \in DOMAIN (a \o b) PROVE \E j \in DOMAIN s : (a \o b)[i] = s[j]
  <2>1. \/ i \in DOMAIN a /\ (a \o b)[i] = a[i]
        \/ i - Len(a) \in DOMAIN b /\ (a \o b)[i] = b[i - Len(a)]
    BY <1>3, <1>4, <1>6
  <2> QED  BY <1>3, <1>4, <2>1
<1> QED  BY <1>5, <1>6

\* A step that stores nothing and moves to no step that has to be reached.
LEMMA WizardRests ==
    ASSUME WizardAlways, WizardShape', WizardReached(v5', v6'),
           UNCHANGED <<v1, v2, v9>>, v11 \subseteq v11',
           v5' # "closed" => v5 # "closed",
           v5' # "closed" /\ "db" \notin v11' =>
             /\ v6'.useDb = v6.useDb /\ v6'.useDb \in BOOLEAN
             /\ v6'.useDb => Wizard!ModeOf(v6'.where) = Wizard!ModeOf(v6.where)
                             /\ v6'.mode \in {v6.mode, Wizard!ModeOf(v6.where)},
           v6'.token = v6.token \/ "token" \in v11',
           v5' = "koios" => (v5 = "koios" /\ v7' = v7) \/ v7' = v6'.token \/ "token" \in v11'
    PROVE  WizardAlways'
<1>1. WizardPlaceKept(v5, v6)'
  BY DEF WizardAlways, WizardPlaceKept
<1>2. WizardTokenStays(v5, v6, v7)'
  BY DEF WizardAlways, WizardTokenStays
<1>3. WizardReached(v5, v6)'
  BY DEF WizardReached
<1> QED  BY <1>1, <1>2, <1>3 DEF WizardAlways

\* Next, or the shell's answer: the next step, or Finish.
LEMMA WizardGoesOn ==
    ASSUME WizardAlways, NEW key \in WizardPages, NEW refused \in BOOLEAN,
           v5 \in WizardPages, Wizard!Advance(key, refused),
           \/ key = v5 /\ Wizard!Valid(key, v6, v7)
           \/ key \in {"dbkey", "dbconn"} /\ v8 # <<>>,
           v8' \in Seq({"dbkey", "dbconn"}), v8' # <<>> => v8 # <<>> /\ v5' # "closed",
           UNCHANGED v4, v11 \subseteq v11', v11' \subseteq v11 \cup {"twice"}
    PROVE  WizardAlways' /\ WizardHolds
<1>1. /\ v6 \in WizardChoices /\ WizardFilled(v5, v7) /\ v2 \in WizardTokens \cup {None}
      /\ v4 \in BOOLEAN /\ (v1 # None => WizardStored(v1))
      /\ v8 # <<>> => v5 \notin {"welcome", "transport", "connect"}
      /\ v9 \in Seq({"alert", "db", "bf"})
  BY DEF WizardAlways, WizardShape
<1>2. PICK there \in BOOLEAN : there = (v5 = key)
  OBVIOUS
<1>3. PICK c : c = Wizard!Collect(key, v6, v7, there)
  OBVIOUS
<1>4. /\ c \in WizardChoices /\ c.transport = v6.transport /\ c.connected = v6.connected
      /\ c.useDb = v6.useDb /\ c.where = v6.where /\ c.useBf = v6.useBf
      /\ c.token = IF key = "koios" THEN v7 ELSE v6.token
      /\ c.useDb \in BOOLEAN /\ c.mode \in {v6.mode, Wizard!ModeOf(v6.where)}
      /\ c.db \in WizardForms \cup {None} /\ c.mode \in WizardModes
  <2>1. key \in {"koios", "blockfrost"} => there
    BY <1>2
  <2>2. there => WizardFilled(key, v7)
    BY <1>1, <1>2
  <2>3. /\ c \in WizardChoices /\ c.transport = v6.transport /\ c.connected = v6.connected
        /\ c.useDb = v6.useDb /\ c.where = v6.where /\ c.useBf = v6.useBf
        /\ c.token = IF key = "koios" THEN v7 ELSE v6.token
        /\ IF key = "dbconn" /\ v6.useDb
           THEN c.db = (IF there THEN v7 ELSE None) /\ c.mode = Wizard!ModeOf(v6.where)
           ELSE c.db = v6.db /\ c.mode = v6.mode
    BY <1>1, <1>3, <2>1, <2>2, WizardCollects
  <2> QED  BY <2>3 DEF WizardChoices
<1>5. /\ WizardReached(v5, v6) /\ WizardPlaceKept(v5, v6) /\ WizardTokenStays(v5, v6, v7)
      /\ v5 # "closed"
  BY DEF WizardAlways, WizardPages
<1>6. key = "koios" => v5 = "koios"
  OBVIOUS
<1>7. "token" \notin v11 => c.token = v2
  BY <1>4, <1>5, <1>6 DEF WizardTokenStays
<1>8. c = Wizard!Collect(key, v6, v7, v5 = key)
  BY <1>2, <1>3
<1>9. CASE v5 # "done"
  <2>1. PICK q : q = WizardAfter(v5, c)
    OBVIOUS
  <2>2. q \in WizardPages
    BY <2>1 DEF WizardAfter, WizardPages
  <2>3. Wizard!Paint(q, c) /\ UNCHANGED <<v1, v2, v3, v9, v10>>
    <3>1. Wizard!NextVisible(Wizard!At(v5), c) # None
          /\ Wizard!Steps[Wizard!NextVisible(Wizard!At(v5), c)] = q
      BY <1>4, <1>9, <2>1, WizardForward
    <3> QED  BY <1>8, <3>1, Zenon DEF Wizard!Advance, Wizard!disk
  <2>4. /\ v5' = q /\ v6' = c /\ WizardFilled(q, v7')
        /\ q = "koios" => v7' = c.token
    BY <1>4, <2>2, <2>3, WizardPaints DEF WizardPages
  <2>5. /\ v5 = "transport" => v6.transport # None
        /\ v5 = "connect" => v6.connected
    BY <1>1, WizardAssumption DEF Wizard!Valid, Wizard!ValidTransport
  <2>6. WizardReached(q, c)
    BY <1>4, <1>5, <2>1, <2>5 DEF WizardReached, WizardAfter, WizardPages
  <2>7. q \notin {"closed", "connecting", "welcome"}
        /\ (q \in {"transport", "connect"} => v5 \in {"welcome", "transport"})
    BY <1>9, <2>1 DEF WizardAfter, WizardPages
  <2>8. WizardShape'
    BY <1>1, <1>4, <2>2, <2>3, <2>4, <2>7 DEF WizardShape
  <2>9. WizardPlaceKept(v5, v6)'
    BY <1>4, <1>5, <2>3, <2>4 DEF WizardPlaceKept
  <2>10. WizardTokenStays(v5, v6, v7)'
    BY <1>7, <2>3, <2>4 DEF WizardTokenStays
  <2>11. WizardReached(v5, v6)'
    BY <2>4, <2>6 DEF WizardReached
  <2> QED  BY <2>3, <2>8, <2>9, <2>10, <2>11 DEF WizardAlways, WizardHolds
<1>10. CASE v5 = "done"
  <2>1. Wizard!BeginApply(c, refused)
    <3>1. Wizard!NextVisible(Wizard!At(v5), c) = None
      BY <1>4, <1>10, WizardForward DEF WizardPages
    <3> QED  BY <1>8, <3>1, Zenon DEF Wizard!Advance
  <2>2. PICK stage : stage = IF refused THEN "alert" ELSE Wizard!FromToken(c)
    OBVIOUS
  <2>3. stage \in {"alert", "db", "bf", None} /\ (stage = "alert" => refused)
    BY <2>2, WizardAssumption DEF Wizard!FromToken, Wizard!FromBf
  <2>4. PICK choice : choice = Wizard!SourceChoice(c)
    OBVIOUS
  <2>5. /\ v6' = c /\ v7' = v7
        /\ v1' = IF refused THEN v1 ELSE choice
        /\ v2' = IF refused THEN v2 ELSE c.token
        /\ IF stage = None THEN v5' = "closed" ELSE v5' = v5
        /\ v9' = IF stage = None THEN v9 ELSE Append(v9, stage)
    BY <2>1, <2>2, <2>4 DEF Wizard!BeginApply, Wizard!Closes
  <2>6. /\ choice.useDb = c.useDb
        /\ choice.mode = IF c.useDb THEN c.mode ELSE None
        /\ choice.db = IF c.useDb THEN c.db ELSE None
    BY <2>4 DEF Wizard!SourceChoice
  <2>7. WizardStored(choice)
    BY <1>4, <2>6 DEF WizardStored
  <2>8. v6.transport # None /\ v6.connected
    BY <1>5, <1>10 DEF WizardReached, WizardPages
  <2>9. /\ v9' \in Seq({"alert", "db", "bf"})
        /\ (\E k \in DOMAIN v9' : v9'[k] = "alert") =>
             refused \/ (\E k \in DOMAIN v9 : v9[k] = "alert")
    <3>1. CASE stage = None
      BY <1>1, <2>5, <3>1
    <3>2. CASE stage # None
      <4>1. stage \in {"alert", "db", "bf"} /\ v9' = Append(v9, stage)
        BY <2>3, <2>5, <3>2
      <4>2. \A k \in DOMAIN v9' : v9'[k] = stage \/ (k \in DOMAIN v9 /\ v9'[k] = v9[k])
        BY <1>1, <4>1
      <4> QED  BY <1>1, <2>3, <4>1, <4>2
    <3> QED  BY <3>1, <3>2
  <2>10. WizardShape'
    <3>1. v1' # None => WizardStored(v1)'
      <4>1. CASE refused
        BY <1>1, <2>5, <4>1 DEF WizardStored
      <4>2. CASE ~refused
        BY <2>5, <2>7, <4>2 DEF WizardStored
      <4> QED  BY <4>1, <4>2
    <3>2. v2' \in WizardTokens \cup {None}
      BY <1>1, <1>4, <2>5 DEF WizardChoices
    <3>3. v5' \in {"done", "closed"} /\ v4' = v4 /\ v6' = c
      BY <1>10, <2>5
    <3>4. WizardFilled(v5', v7')
      BY <3>3 DEF WizardFilled
    <3>5. v8' \in Seq({"dbkey", "dbconn"}) /\ (v5' = "closed" => v8' = <<>>)
      OBVIOUS
    <3>6. v9' \in Seq({"alert", "db", "bf"})
      BY <2>9
    <3>7. v6' \in WizardChoices
      BY <1>4, <3>3
    <3>8. v4' \in BOOLEAN
      BY <1>1, <3>3
    <3> QED  BY <3>1, <3>2, <3>3, <3>4, <3>5, <3>6, <3>7, <3>8 DEF WizardShape, WizardPages
  <2>11. WizardReached(v5, v6)'
    BY <1>4, <1>10, <2>5, <2>8 DEF WizardReached, WizardPages
  <2>12. ASSUME "db" \notin v11
         PROVE  /\ c.useDb => Wizard!ModeOf(c.where) = c.mode
                /\ v1 # None => c.useDb = v1.useDb /\ (c.useDb => c.mode = v1.mode)
    BY <1>4, <1>5, <2>12 DEF WizardPlaceKept
  <2>13. WizardPlaceKept(v5, v6)'
    <3>1. SUFFICES ASSUME "db" \notin v11' PROVE WizardPlaceKept(v5, v6)'
      BY DEF WizardPlaceKept
    <3>2. "db" \notin v11
      BY <3>1
    <3>3. CASE refused
      BY <2>5, <2>12, <3>2, <3>3 DEF WizardPlaceKept
    <3>4. CASE ~refused
      <4>1. v1' = choice /\ v6' = c
        BY <2>5, <3>4
      <4>2. c.useDb => Wizard!ModeOf(c.where) = c.mode /\ c.mode = choice.mode
        BY <2>6, <2>12, <3>2
      <4> QED  BY <2>6, <4>1, <4>2 DEF WizardPlaceKept
    <3> QED  BY <3>3, <3>4
  <2>14. WizardTokenStays(v5, v6, v7)'
    <3>1. v5' # "koios"
      BY <1>10, <2>5
    <3>2. "token" \notin v11' => v2' = v2 /\ c.token = v2
      BY <1>7, <2>5
    <3> QED  BY <2>5, <3>1, <3>2 DEF WizardTokenStays
  <2>15. WizardHolds
    <3>1. v1' # v1 => v1' = choice
      BY <2>5
    <3>2. v1' # v1 /\ v1 # None /\ "db" \notin v11 => v1'.useDb = v1.useDb /\ v1'.mode = v1.mode
      <4>1. SUFFICES ASSUME v1' = choice, v1 # None, "db" \notin v11
                     PROVE  choice.useDb = v1.useDb /\ choice.mode = v1.mode
        BY <3>1
      <4>2. WizardStored(v1)
        BY <1>1, <4>1
      <4> QED  BY <1>4, <2>6, <2>12, <4>1, <4>2 DEF WizardStored
    <3>3. v2' # v2 => "token" \in v11
      BY <1>7, <2>5
    <3> QED  BY <1>4, <2>5, <2>8, <3>2, <3>3 DEF WizardHolds
  <2> QED  BY <2>10, <2>11, <2>13, <2>14, <2>15 DEF WizardAlways
<1> QED  BY <1>9, <1>10

\* A click on Next, any number of them.
LEMMA WizardClicksAgain ==
    ASSUME WizardAlways, Wizard!ClickNext
    PROVE  WizardAlways' /\ WizardHolds
<1>1. /\ v5 \in WizardPages /\ Wizard!Valid(v5, v6, v7) /\ UNCHANGED v4
      /\ v11 \subseteq v11' /\ v11' \subseteq v11 \cup {"twice"}
  BY WizardSteps DEF Wizard!ClickNext
<1>2. v8 \in Seq({"dbkey", "dbconn"})
  BY DEF WizardAlways, WizardShape
<1>3. CASE Wizard!Checks(v5, v6)
  <2>1. v5 \in {"dbkey", "dbconn"}
    BY <1>3 DEF Wizard!Checks
  <2>2. v8' = Append(v8, v5) /\ UNCHANGED <<v1, v2, v5, v6, v7, v9>>
    BY <1>3 DEF Wizard!ClickNext, Wizard!disk
  <2>3. v8' \in Seq({"dbkey", "dbconn"})
    BY <1>2, <2>1, <2>2
  <2>4. WizardShape'
    BY <1>1, <2>1, <2>2, <2>3 DEF WizardAlways, WizardShape, WizardStored, WizardFilled
  <2>5. WizardReached(v5, v6)' /\ WizardPlaceKept(v5, v6)' /\ WizardTokenStays(v5, v6, v7)'
    BY <1>1, <2>1, <2>2 DEF WizardAlways, WizardReached, WizardPlaceKept, WizardTokenStays
  <2> QED  BY <2>2, <2>4, <2>5 DEF WizardAlways, WizardHolds
<1>4. CASE ~Wizard!Checks(v5, v6)
  <2>1. PICK refused \in BOOLEAN :
          /\ Wizard!Advance(v5, refused)
          /\ v8' = IF v5' = "closed" THEN <<>> ELSE v8
    BY <1>4 DEF Wizard!ClickNext
  <2>2. v8' \in Seq({"dbkey", "dbconn"}) /\ (v8' # <<>> => v8 # <<>> /\ v5' # "closed")
    BY <1>2, <2>1
  <2> QED  BY <1>1, <2>1, <2>2, WizardGoesOn
<1> QED  BY <1>3, <1>4

\* The shell has answered about one of the key files.
LEMMA WizardAnswersAgain ==
    ASSUME WizardAlways, NEW k \in DOMAIN v8, Wizard!CheckPasses(k) \/ Wizard!CheckFails(k)
    PROVE  WizardAlways' /\ WizardHolds
<1>1. /\ v8 \in Seq({"dbkey", "dbconn"}) /\ v8[k] \in {"dbkey", "dbconn"} /\ v8 # <<>>
      /\ v5 \in WizardPages
  BY WizardSteps DEF WizardAlways, WizardShape, Wizard!CheckPasses, Wizard!CheckFails
<1>2. Wizard!RemoveAt(v8, k) \in Seq({"dbkey", "dbconn"})
  BY <1>1, WizardRemoves
<1>3. CASE Wizard!CheckPasses(k)
  <2>1. PICK key \in {"dbkey", "dbconn"} : key = v8[k]
    BY <1>1
  <2>2. /\ Wizard!Advance(key, FALSE) /\ UNCHANGED <<v4, v11>>
        /\ v8' = IF v5' = "closed" THEN <<>> ELSE Wizard!RemoveAt(v8, k)
    BY <1>3, <2>1 DEF Wizard!CheckPasses
  <2>3. v8' \in Seq({"dbkey", "dbconn"}) /\ (v8' # <<>> => v8 # <<>> /\ v5' # "closed")
    BY <1>1, <1>2, <2>2
  <2>4. key \in WizardPages
    BY <2>1 DEF WizardPages
  <2> QED  BY <1>1, <2>2, <2>3, <2>4, WizardGoesOn
<1>4. CASE Wizard!CheckFails(k)
  <2>1. v8' = Wizard!RemoveAt(v8, k) /\ UNCHANGED <<v1, v2, v4, v5, v6, v7, v9, v11>>
    BY <1>4 DEF Wizard!CheckFails, Wizard!disk, Wizard!hist
  <2>2. WizardShape'
    BY <1>1, <1>2, <2>1 DEF WizardAlways, WizardShape, WizardStored, WizardFilled, WizardPages
  <2>3. WizardReached(v5, v6)' /\ WizardPlaceKept(v5, v6)' /\ WizardTokenStays(v5, v6, v7)'
    BY <2>1 DEF WizardAlways, WizardReached, WizardPlaceKept, WizardTokenStays
  <2> QED  BY <2>1, <2>2, <2>3 DEF WizardAlways, WizardHolds
<1> QED  BY <1>3, <1>4

\* A wait of one of the Finishes is over.
LEMMA WizardAppliesAgain ==
    ASSUME WizardAlways, NEW k \in DOMAIN v9, Wizard!ApplyGoesOn(k)
    PROVE  WizardAlways' /\ WizardHolds
<1>1. /\ v9 \in Seq({"alert", "db", "bf"}) /\ v8 \in Seq({"dbkey", "dbconn"})
      /\ v6 \in WizardChoices /\ v6.token \in WizardTokens \cup {None}
  BY DEF WizardAlways, WizardShape, WizardChoices
<1>2. PICK stage : stage = v9[k]
  OBVIOUS
<1>3. PICK then : then = CASE stage = "alert" -> Wizard!FromToken(v6)
                           [] stage = "db" -> Wizard!FromBf(v6) [] OTHER -> None
  OBVIOUS
<1>4. then \in {"db", "bf", None}
  BY <1>3 DEF Wizard!FromToken, Wizard!FromBf
<1>5. /\ v2' = IF stage = "alert" THEN v6.token ELSE v2
      /\ IF then = None THEN v5' = "closed" ELSE v5' = v5
      /\ v9' = IF then = None THEN Wizard!RemoveAt(v9, k) ELSE [v9 EXCEPT ![k] = then]
      /\ v8' = IF then = None THEN <<>> ELSE v8
      /\ UNCHANGED <<v1, v4, v6, v7, v11>>
  BY <1>2, <1>3 DEF Wizard!ApplyGoesOn, Wizard!Closes
<1>6. /\ v9' \in Seq({"alert", "db", "bf"})
      /\ (\E i \in DOMAIN v9' : v9'[i] = "alert") => \E j \in DOMAIN v9 : v9[j] = "alert"
  <2>1. CASE then = None
    <3>1. v9' = Wizard!RemoveAt(v9, k)
      BY <1>5, <2>1
    <3> QED  BY <1>1, <3>1, WizardRemoves
  <2>2. CASE then # None
    <3>1. v9' = [v9 EXCEPT ![k] = then] /\ then \in {"db", "bf"}
      BY <1>4, <1>5, <2>2
    <3> QED  BY <1>1, <3>1
  <2> QED  BY <2>1, <2>2
<1>7. WizardTokenStays(v5, v6, v7)
  BY DEF WizardAlways
<1>8. "token" \notin v11 => v2' = v2
  BY <1>2, <1>5, <1>7 DEF WizardTokenStays
<1>9. v5' = v5 \/ v5' = "closed"
  BY <1>5
<1>10. WizardShape'
  BY <1>1, <1>5, <1>6, <1>9 DEF WizardAlways, WizardShape, WizardStored, WizardFilled
<1>11. WizardReached(v5, v6)' /\ WizardPlaceKept(v5, v6)'
  BY <1>5, <1>9 DEF WizardAlways, WizardReached, WizardPlaceKept, WizardPages
<1>12. WizardTokenStays(v5, v6, v7)'
  BY <1>5, <1>6, <1>7, <1>8, <1>9 DEF WizardTokenStays
<1> QED  BY <1>5, <1>8, <1>10, <1>11, <1>12 DEF WizardAlways, WizardHolds

\* The other buttons, the cards, the fields and the connection screen.
LEMMA WizardMovesAbout ==
    ASSUME WizardAlways,
           \/ Wizard!Back \/ Wizard!TestKey \/ Wizard!OpenConnect \/ Wizard!OpenDemo
           \/ Wizard!Cancel
           \/ \E w \in Wizard!Chosen : Wizard!Choose(w)
           \/ \E v \in Wizard!Typable : Wizard!Type(v)
           \/ \E live \in BOOLEAN : Wizard!Connected(live)
    PROVE  WizardAlways' /\ UNCHANGED <<v1, v2>>
<1>1. /\ v6 \in WizardChoices /\ v6.useDb \in BOOLEAN /\ v6.connected \in BOOLEAN
      /\ v4 \in BOOLEAN /\ WizardReached(v5, v6)
      /\ v8 # <<>> => v5 \notin {"welcome", "transport", "connect", "connecting", "closed"}
  BY DEF WizardAlways, WizardShape, WizardChoices
<1>2. CASE Wizard!Back
  <2>1. v5 \in WizardPages
    BY <1>2, WizardSteps DEF Wizard!Back
  <2>2. PICK q : q = WizardBefore(v5, v6)
    OBVIOUS
  <2>3. /\ v5 # "welcome" /\ Wizard!Paint(q, v6)
        /\ v6.connected => v5 \notin {"transport", "connect", "koios"}
        /\ UNCHANGED <<v1, v2, v4, v8, v9, v11>>
    BY <1>1, <1>2, <2>1, <2>2, WizardBackward, WizardIndex
       DEF Wizard!Back, Wizard!BackLocked, Wizard!ConnectIdx, Wizard!disk, Wizard!hist,
           WizardPages
  <2>4. q \in WizardPages
    BY <2>2 DEF WizardBefore, WizardPages
  <2>5. /\ v5' = q /\ v6' = v6 /\ WizardFilled(q, v7')
        /\ q = "koios" => v7' = v6.token
    BY <1>1, <2>3, <2>4, WizardPaints
  <2>6. /\ q \in {"connect"} => v5 = "koios"
        /\ q \in {"welcome", "transport"} => v5 \in {"transport", "connect"}
    BY <2>1, <2>2, <2>3 DEF WizardBefore, WizardPages
  <2>7. WizardReached(q, v6) /\ (v8 # <<>> => q \notin {"welcome", "transport", "connect"})
    BY <1>1, <2>1, <2>2, <2>3, <2>6 DEF WizardReached, WizardBefore, WizardPages
  <2>8. q \notin {"closed", "connecting"} /\ v5 # "closed"
    BY <2>1, <2>4 DEF WizardPages
  <2>9. WizardShape'
    BY <1>1, <2>3, <2>4, <2>5, <2>7, <2>8 DEF WizardAlways, WizardShape, WizardStored
  <2> QED  BY <1>1, <2>3, <2>5, <2>7, <2>8, <2>9, WizardRests
<1>3. CASE Wizard!TestKey
  <2>1. UNCHANGED <<v1, v2, v4, v5, v6, v7, v8, v9, v11>>
    BY <1>3 DEF Wizard!TestKey, Wizard!dialog, Wizard!hist
  <2> QED  BY <2>1 DEF WizardAlways, WizardShape, WizardStored, WizardFilled, WizardReached,
           WizardPlaceKept, WizardTokenStays
<1>4. CASE Wizard!OpenConnect \/ Wizard!OpenDemo \/ Wizard!Cancel
  <2>1. /\ (v5' = "connecting" /\ v5 = "connect") \/ v5' = "closed"
        /\ v8' = <<>> /\ v5 \in WizardPages
        /\ UNCHANGED <<v1, v2, v4, v6, v7, v9, v11>>
    BY <1>4, WizardSteps
       DEF Wizard!OpenConnect, Wizard!OpenDemo, Wizard!Cancel, Wizard!disk, Wizard!hist, WizardPages
  <2>2. WizardShape'
    BY <1>1, <2>1 DEF WizardAlways, WizardShape, WizardStored, WizardFilled, WizardPages
  <2>3. WizardReached(v5', v6') /\ v5 # "closed"
    BY <1>1, <2>1 DEF WizardReached, WizardPages
  <2> QED  BY <1>1, <2>1, <2>2, <2>3, WizardRests
<1>5. CASE \E w \in Wizard!Chosen : Wizard!Choose(w)
  <2>1. PICK w \in Wizard!Chosen : Wizard!Choose(w)
    BY <1>5
  <2>2. /\ w \in WizardChoices /\ w.connected = v6.connected /\ w.token = v6.token
        /\ w.mode = v6.mode
        /\ v5 \in {"transport", "koios", "dbhave", "dbwhere", "blockfrost"}
        /\ v5 # "transport" => w.transport = v6.transport
    BY <1>1, WizardChosen
  <2>3. /\ v6' = w /\ UNCHANGED <<v1, v2, v4, v5, v7, v8, v9>>
        /\ v11' = v11 \cup (IF w.useDb # v6.useDb \/ w.where # v6.where THEN {"db"} ELSE {})
    BY <2>1 DEF Wizard!Choose, Wizard!disk, Wizard!ConcernsDb
  <2>4. "db" \notin v11' => w.useDb = v6.useDb /\ w.where = v6.where
    BY <2>3
  <2>5. WizardShape'
    BY <1>1, <2>2, <2>3 DEF WizardAlways, WizardShape, WizardStored, WizardFilled
  <2>6. WizardReached(v5', v6')
    BY <1>1, <2>2, <2>3 DEF WizardReached, WizardPages
  <2>7. v11 \subseteq v11'
    BY <2>3
  <2> QED  BY <1>1, <2>2, <2>3, <2>4, <2>5, <2>6, <2>7, WizardRests
<1>6. CASE \E v \in Wizard!Typable : Wizard!Type(v)
  <2>1. PICK v \in Wizard!Typable : Wizard!Type(v)
    BY <1>6
  <2>2. /\ v7' = v /\ UNCHANGED <<v1, v2, v4, v5, v6, v8, v9>>
        /\ v11' = v11 \cup {IF v5 = "koios" THEN "token" ELSE "db"}
    BY <2>1 DEF Wizard!Type, Wizard!disk
  <2>3. v5 \in {"koios", "dbkey", "dbconn", "blockfrost"} /\ WizardFilled(v5, v)
    BY WizardAssumption DEF Wizard!Typable, WizardFilled
  <2>4. WizardShape'
    BY <1>1, <2>2, <2>3 DEF WizardAlways, WizardShape, WizardStored
  <2>5. WizardReached(v5', v6') /\ v11 \subseteq v11'
    BY <1>1, <2>2 DEF WizardReached
  <2>6. v5' = "koios" => "token" \in v11'
    BY <2>2
  <2> QED  BY <1>1, <2>2, <2>4, <2>5, <2>6, WizardRests
<1>7. CASE \E live \in BOOLEAN : Wizard!Connected(live)
  <2>1. PICK live \in BOOLEAN : Wizard!Connected(live)
    BY <1>7
  <2>2. PICK s \in BOOLEAN : s = (v4 \/ live)
    OBVIOUS
  <2>3. PICK w, q : w = [v6 EXCEPT !.connected = s] /\ q = IF live THEN "koios" ELSE "connect"
    OBVIOUS
  <2>4. /\ v5 = "connecting" /\ v4' = s /\ Wizard!Paint(q, w)
        /\ UNCHANGED <<v1, v2, v8, v9, v11>>
    BY <1>1, <2>1, <2>2, <2>3 DEF Wizard!Connected, Wizard!disk, Wizard!hist
  <2>5. /\ w \in WizardChoices /\ w.connected = s /\ w.transport = v6.transport
        /\ w.useDb = v6.useDb /\ w.where = v6.where /\ w.mode = v6.mode
        /\ w.token = v6.token
    BY <1>1, <2>3 DEF WizardChoices
  <2>6. q \in {"koios", "connect"} /\ (q = "koios" => s)
    BY <2>2, <2>3
  <2>7. v5' = q /\ v6' = w /\ WizardFilled(q, v7') /\ (q = "koios" => v7' = w.token)
    BY <2>4, <2>5, <2>6, WizardPaints DEF WizardPages
  <2>8. v8 = <<>>
    BY <1>1, <2>4
  <2>9. WizardShape'
    BY <2>4, <2>5, <2>6, <2>7, <2>8 DEF WizardAlways, WizardShape, WizardStored, WizardPages
  <2>10. WizardReached(v5', v6')
    BY <1>1, <2>4, <2>5, <2>6, <2>7 DEF WizardReached, WizardPages
  <2> QED  BY <1>1, <2>4, <2>5, <2>6, <2>7, <2>9, <2>10, WizardRests
<1> QED  BY <1>2, <1>3, <1>4, <1>5, <1>6, <1>7

-----------------------------------------------------------------------------
(* The wizard, all of its steps.                                           *)

\* The wizard opens with what is stored.
LEMMA WizardStarts ==
    ASSUME v1 # None => WizardStored(v1), v2 \in WizardTokens \cup {None}, v4 \in BOOLEAN
    PROVE  /\ Wizard!StartState \in WizardChoices /\ Wizard!StartState.token = v2
           /\ v1 = None => ~Wizard!StartState.useDb
           /\ v1 # None =>
                /\ Wizard!StartState.useDb = v1.useDb
                /\ v1.useDb => /\ Wizard!ModeOf(Wizard!StartState.where) = v1.mode
                               /\ Wizard!StartState.mode = v1.mode
                               /\ Wizard!StartState.db = v1.db
<1>1. PICK fresh : fresh = Wizard!FreshState
  OBVIOUS
<1>2. fresh \in WizardChoices /\ fresh.token = v2 /\ ~fresh.useDb
  BY <1>1 DEF Wizard!FreshState, WizardChoices, WizardModes
<1>3. CASE v1 = None
  BY <1>1, <1>2, <1>3 DEF Wizard!StartState
<1>4. CASE v1 # None /\ ~v1.useDb
  <2>1. Wizard!StartState = [fresh EXCEPT !.dbAnswered = TRUE]
    BY <1>1, <1>4 DEF Wizard!StartState
  <2> QED  BY <1>2, <1>4, <2>1 DEF WizardChoices, WizardStored
<1>5. CASE v1 # None /\ v1.useDb
  <2>1. PICK mode, db, where, path :
          /\ mode = v1.mode /\ db = v1.db /\ where = Wizard!WhereOf(v1.mode)
          /\ path = IF v1.mode = "ssh" THEN v1.db ELSE None
    OBVIOUS
  <2>2. mode \in WizardModes /\ db \in WizardForms \cup {None} /\ path \in WizardForms \cup {None}
    BY <1>5, <2>1 DEF WizardStored
  <2>3. where \in {"local", "bp", "remote"} /\ Wizard!ModeOf(where) = mode
    <3>1. \E x \in {"local", "bp", "remote"} : Wizard!ModeOf(x) = mode
      BY <2>2 DEF Wizard!ModeOf, WizardModes
    <3>2. where = CHOOSE x \in {"local", "bp", "remote"} : Wizard!ModeOf(x) = mode
      BY <2>1 DEF Wizard!WhereOf
    <3> QED  BY <3>1, <3>2, Zenon
  <2>4. Wizard!StartState = [fresh EXCEPT !.useDb = TRUE, !.dbAnswered = TRUE, !.mode = mode,
                                          !.where = where, !.db = db, !.path = path]
    BY <1>1, <1>5, <2>1 DEF Wizard!StartState
  <2>5. /\ Wizard!StartState \in WizardChoices /\ Wizard!StartState.token = fresh.token
        /\ Wizard!StartState.useDb = TRUE /\ Wizard!StartState.where = where
        /\ Wizard!StartState.mode = mode /\ Wizard!StartState.db = db
    BY <1>2, <2>2, <2>3, <2>4 DEF WizardChoices
  <2> QED  BY <1>2, <1>5, <2>1, <2>3, <2>5
<1> QED  BY <1>3, <1>4, <1>5 DEF WizardStored

LEMMA WizardReopens ==
    ASSUME WizardAlways, Wizard!Reopen
    PROVE  WizardAlways' /\ WizardOnce' /\ UNCHANGED <<v1, v2>>
<1>1. PICK w : w = Wizard!StartState
  OBVIOUS
<1>2. /\ v5 = "closed" /\ v9 = <<>> /\ Wizard!Paint("welcome", w) /\ v11' = {}
      /\ UNCHANGED <<v1, v2, v4, v8, v9>>
  BY <1>1 DEF Wizard!Reopen, Wizard!disk
<1>3. /\ v8 = <<>> /\ v2 \in WizardTokens \cup {None} /\ v4 \in BOOLEAN
      /\ v1 # None => WizardStored(v1)
  BY <1>2 DEF WizardAlways, WizardShape
<1>4. /\ w \in WizardChoices /\ w.token = v2
      /\ v1 = None => ~w.useDb
      /\ v1 # None => /\ w.useDb = v1.useDb
                      /\ v1.useDb => /\ Wizard!ModeOf(w.where) = v1.mode
                                     /\ w.mode = v1.mode /\ w.db = v1.db
  BY <1>1, <1>3, WizardStarts
<1>5. v5' = "welcome" /\ v6' = w
  BY <1>2 DEF Wizard!Paint
<1>6. WizardTyped' /\ WizardBehind(v5, v6)' /\ WizardWaits(v5, v6, v7)'
  BY <1>2, <1>3, <1>4, <1>5 DEF WizardTyped, WizardStored, WizardFilled, WizardBehind,
                                 WizardWaits, WizardPages
<1>7. WizardDbKept(v5, v6, v7)' /\ WizardTokenKept(v5, v6, v7)'
  BY <1>2, <1>3, <1>4, <1>5 DEF WizardDbKept, WizardTokenKept
<1>8. WizardShape'
  BY <1>2, <1>3, <1>4, <1>5 DEF WizardShape, WizardStored, WizardFilled, WizardPages
<1>9. WizardReached(v5, v6)' /\ WizardPlaceKept(v5, v6)' /\ WizardTokenStays(v5, v6, v7)'
  BY <1>2, <1>4, <1>5 DEF WizardReached, WizardPlaceKept, WizardTokenStays
<1> QED  BY <1>2, <1>6, <1>7, <1>8, <1>9 DEF WizardAlways, WizardOnce

LEMMA WizardStart == Wizard!Init => WizardInv
<1> SUFFICES ASSUME Wizard!Init PROVE WizardInv
  OBVIOUS
<1>1. /\ v1 = None /\ v2 = None /\ v4 = FALSE /\ v5 = "welcome" /\ v6 = Wizard!StartState
      /\ v8 = <<>> /\ v9 = <<>> /\ v11 = {}
  BY DEF Wizard!Init
<1>2. v6 \in WizardChoices /\ v6.token = v2 /\ ~v6.useDb
  BY <1>1, WizardStarts
<1>3. WizardOnce
  BY <1>1, <1>2 DEF WizardOnce, WizardTyped, WizardFilled, WizardBehind, WizardWaits,
     WizardDbKept, WizardTokenKept, WizardPages
<1>4. WizardShape
  <2>1. v8 \in Seq({"dbkey", "dbconn"}) /\ v9 \in Seq({"alert", "db", "bf"})
    BY <1>1
  <2>2. v4 \in BOOLEAN
    BY <1>1
  <2>3. WizardFilled(v5, v7) /\ v5 \in WizardPages
    BY <1>1 DEF WizardFilled, WizardPages
  <2>4. v8 = <<>> /\ v1 = None /\ v2 \in WizardTokens \cup {None}
    BY <1>1
  <2> QED  BY <1>2, <2>1, <2>2, <2>3, <2>4 DEF WizardShape
<1>5. WizardReached(v5, v6) /\ WizardPlaceKept(v5, v6) /\ WizardTokenStays(v5, v6, v7)
  BY <1>1, <1>2 DEF WizardReached, WizardPlaceKept, WizardTokenStays, WizardPages
<1> QED  BY <1>3, <1>4, <1>5 DEF WizardAlways, WizardInv

\* Every step of the wizard, however often Next is clicked.
LEMMA WizardGoes ==
    ASSUME WizardAlways, Wizard!Next
    PROVE  WizardAlways' /\ WizardHolds
<1>1. CASE Wizard!ClickNext
  BY <1>1, WizardClicksAgain
<1>2. CASE \E k \in DOMAIN v9 : Wizard!ApplyGoesOn(k)
  BY <1>2, WizardAppliesAgain
<1>3. CASE \E k \in DOMAIN v8 : Wizard!CheckPasses(k) \/ Wizard!CheckFails(k)
  BY <1>3, WizardAnswersAgain
<1>4. CASE Wizard!Reopen
  BY <1>4, WizardReopens DEF WizardHolds
<1>5. CASE \/ Wizard!Back \/ Wizard!TestKey \/ Wizard!OpenConnect \/ Wizard!OpenDemo
           \/ Wizard!Cancel
           \/ \E w \in Wizard!Chosen : Wizard!Choose(w)
           \/ \E v \in Wizard!Typable : Wizard!Type(v)
           \/ \E live \in BOOLEAN : Wizard!Connected(live)
  BY <1>5, WizardMovesAbout DEF WizardHolds
<1> QED  BY <1>1, <1>2, <1>3, <1>4, <1>5 DEF Wizard!Next

\* Every step of the wizard while Next is not clicked twice.
LEMMA WizardGoesOnce ==
    ASSUME WizardAlways, WizardOnce, Wizard!Next, "twice" \notin v11'
    PROVE  WizardOnce' /\ Wizard!KeepsTheRest /\ Wizard!WholeIfStored
<1>1. CASE Wizard!ClickNext
  BY <1>1, WizardClicks
<1>2. CASE \E k \in DOMAIN v9 : Wizard!ApplyGoesOn(k)
  BY <1>2, WizardApplies DEF Wizard!WholeIfStored
<1>3. CASE \/ Wizard!Back \/ Wizard!TestKey \/ Wizard!OpenConnect \/ Wizard!OpenDemo
           \/ Wizard!Cancel \/ Wizard!Reopen
           \/ \E k \in DOMAIN v8 : Wizard!CheckPasses(k) \/ Wizard!CheckFails(k)
           \/ \E w \in Wizard!Chosen : Wizard!Choose(w)
           \/ \E v \in Wizard!Typable : Wizard!Type(v)
           \/ \E live \in BOOLEAN : Wizard!Connected(live)
  <2>1. WizardOnce' /\ UNCHANGED <<v1, v2>>
    BY <1>3, WizardGoesBack, WizardAnswered, WizardChooses, WizardTypes, WizardConnects,
       WizardLeaves, WizardReopens
  <2> QED  BY <2>1 DEF Wizard!KeepsTheRest, Wizard!WholeIfStored
<1> QED  BY <1>1, <1>2, <1>3 DEF Wizard!Next

\* A second click stays noted until the wizard is opened again.
LEMMA WizardNotes ==
    ASSUME WizardAlways, Wizard!Next, "twice" \in v11, "twice" \notin v11'
    PROVE  WizardOnce' /\ UNCHANGED <<v1, v2>>
<1>1. CASE Wizard!Reopen
  BY <1>1, WizardReopens
<1>2. CASE Wizard!ClickNext
  BY <1>2 DEF Wizard!ClickNext
<1>3. CASE \E w \in Wizard!Chosen : Wizard!Choose(w)
  BY <1>3 DEF Wizard!Choose
<1>4. CASE \E v \in Wizard!Typable : Wizard!Type(v)
  BY <1>4 DEF Wizard!Type
<1>5. CASE \/ \E k \in DOMAIN v9 : Wizard!ApplyGoesOn(k)
           \/ \E k \in DOMAIN v8 : Wizard!CheckPasses(k) \/ Wizard!CheckFails(k)
  BY <1>5 DEF Wizard!ApplyGoesOn, Wizard!CheckPasses, Wizard!CheckFails, Wizard!hist
<1>6. CASE \/ Wizard!Back \/ Wizard!TestKey \/ Wizard!OpenConnect \/ Wizard!OpenDemo
           \/ Wizard!Cancel \/ \E live \in BOOLEAN : Wizard!Connected(live)
  BY <1>6 DEF Wizard!Back, Wizard!TestKey, Wizard!OpenConnect, Wizard!OpenDemo,
              Wizard!Cancel, Wizard!Connected, Wizard!hist
<1> QED  BY <1>1, <1>2, <1>3, <1>4, <1>5, <1>6 DEF Wizard!Next

LEMMA WizardNext ==
    ASSUME WizardInv, Wizard!Next
    PROVE  WizardInv' /\ Wizard!KeepsTheRest /\ Wizard!WholeIfStored
<1>1. WizardAlways /\ WizardAlways' /\ WizardHolds
  BY WizardGoes DEF WizardInv
<1>2. CASE "twice" \in v11'
  BY <1>1, <1>2 DEF WizardInv, WizardHolds, Wizard!KeepsTheRest, Wizard!WholeIfStored
<1>3. CASE "twice" \notin v11' /\ "twice" \notin v11
  BY <1>1, <1>3, WizardGoesOnce DEF WizardInv
<1>4. CASE "twice" \notin v11' /\ "twice" \in v11
  BY <1>1, <1>4, WizardNotes DEF WizardInv, Wizard!KeepsTheRest, Wizard!WholeIfStored
<1> QED  BY <1>2, <1>3, <1>4

-----------------------------------------------------------------------------
(* The meter of the Koios client.                                          *)

KoiosTiers == {"free", "token"}
KoiosTyped ==
    /\ v3 \in Nat /\ v4 \in [date : Nat, count : Nat] /\ v4.date <= v3
    /\ v6 \in KoiosTiers /\ v11 \in [KoiosTiers -> Nat]
    /\ v12 \in 0..KoiosTrouble

\* No tier was served more than the meter counts today; the stop is passed only by a
\* call for each time the pause was lifted, and the last of these has paused it again.
KoiosInv ==
    /\ KoiosTyped
    /\ \A t \in KoiosTiers :
         /\ v11[t] <= Koios!Tally
         /\ v11[t] <= HardStop[t] + v12
         /\ ~v5 => v11[t] < HardStop[t] + v12

\* The meter starts at nothing.
LEMMA KoiosStart == Koios!Init => KoiosInv
<1> SUFFICES ASSUME Koios!Init PROVE KoiosInv
  OBVIOUS
<1>1. /\ v3 = 1 /\ v4 = [date |-> 1, count |-> 0] /\ v6 = "free"
      /\ v11 = [t \in KoiosTiers |-> 0] /\ v12 = 0
  BY DEF Koios!Init, KoiosTiers, Koios!Tiers
<1>2. KoiosTyped /\ Koios!Tally = 0
  BY <1>1, KoiosAssumption DEF KoiosTyped, KoiosTiers, Koios!Tally
<1> QED  BY <1>1, <1>2, KoiosAssumption DEF KoiosInv, KoiosTiers

\* What the invariant promises: no tier is asked more than Koios allows.
LEMMA KoiosLimit == KoiosInv => Koios!WithinLimit
BY KoiosAssumption DEF KoiosInv, KoiosTyped, KoiosTiers, Koios!WithinLimit, Koios!Tiers

\* What may have happened is counted, up to the bound.
LEMMA KoiosDisturbed ==
    ASSUME KoiosInv, NEW kind, Koios!Disturbed(kind)
    PROVE  v12' \in 0..KoiosTrouble /\ v12' = v12 + 1
BY KoiosAssumption DEF KoiosInv, KoiosTyped, Koios!Disturbed

\* A request: it is counted and, at the stop of its tier, the last.
LEMMA KoiosAsks ==
    ASSUME KoiosInv, NEW full, NEW answer, NEW kind, Koios!Request(full, answer, kind),
           UNCHANGED <<v3, v6>>
    PROVE  KoiosInv'
<1>1. v12' \in 0..KoiosTrouble /\ v12 <= v12'
  BY KoiosDisturbed DEF Koios!Request, KoiosInv, KoiosTyped
<1>2. CASE UNCHANGED <<v4, v5, v11>>
  <2>1. Koios!Tally' = Koios!Tally
    BY <1>2 DEF Koios!Tally
  <2> QED  BY <1>1, <1>2, <2>1, KoiosAssumption DEF KoiosInv, KoiosTyped, KoiosTiers
<1>3. CASE ~v5 /\ Koios!RecordCall /\ v11' = [v11 EXCEPT ![v6] = @ + 1]
  <2>1. PICK n : n = Koios!Tally
    OBVIOUS
  <2>2. n \in Nat /\ v4' = [date |-> v3, count |-> n + 1] /\ (v5' <=> n + 1 >= HardStop[v6])
    BY <1>3, <2>1 DEF Koios!RecordCall, Koios!Tally, KoiosInv, KoiosTyped
  <2>3. Koios!Tally' = n + 1
    BY <2>2 DEF Koios!Tally
  <2>4. KoiosTyped'
    <3>1. v4' \in [date : Nat, count : Nat] /\ v4'.date <= v3'
      BY <2>2 DEF KoiosInv, KoiosTyped
    <3>2. v11' \in [KoiosTiers -> Nat]
      BY <1>3 DEF KoiosInv, KoiosTyped
    <3> QED  BY <1>1, <3>1, <3>2 DEF KoiosInv, KoiosTyped
  <2>5. ASSUME NEW t \in KoiosTiers
        PROVE  /\ v11'[t] <= n + 1 /\ v11'[t] <= HardStop[t] + v12'
               /\ ~v5' => v11'[t] < HardStop[t] + v12'
    <3>1. /\ v11[t] \in Nat /\ v11[t] <= n /\ v11[t] < HardStop[t] + v12 /\ HardStop[t] \in Nat
          /\ v12 \in Nat /\ v12' \in Nat
      BY <1>1, <1>3, <2>1, KoiosAssumption DEF KoiosInv, KoiosTyped, KoiosTiers
    <3>2. v11'[t] = IF t = v6 THEN v11[t] + 1 ELSE v11[t]
      BY <1>3 DEF KoiosInv, KoiosTyped
    <3>3. CASE t = v6
      <4>1. v11'[t] = v11[t] + 1
        BY <3>2, <3>3
      <4>2. ~v5' => n + 1 < HardStop[t]
        BY <2>2, <3>1, <3>3
      <4> QED  BY <1>1, <2>2, <3>1, <4>1, <4>2
    <3>4. CASE t # v6
      BY <1>1, <2>2, <3>1, <3>2, <3>4
    <3> QED  BY <3>3, <3>4
  <2> QED  BY <2>3, <2>4, <2>5 DEF KoiosInv
<1> QED  BY <1>2, <1>3 DEF Koios!Request

\* The operator lifts the pause, or goes without a token.
LEMMA KoiosToken ==
    ASSUME KoiosInv, Koios!EnterToken \/ Koios!ClearToken PROVE KoiosInv'
<1>1. v12' \in 0..KoiosTrouble /\ (v12' = v12 + 1 \/ (v12' = v12 /\ v5' = v5))
  <2>1. CASE Koios!EnterToken
    BY <2>1, KoiosDisturbed DEF Koios!EnterToken
  <2>2. CASE Koios!ClearToken
    BY <2>2 DEF Koios!ClearToken, KoiosInv, KoiosTyped
  <2> QED  BY <2>1, <2>2
<1>2. UNCHANGED <<v3, v4, v11>> /\ v6' \in KoiosTiers
  BY DEF Koios!EnterToken, Koios!ClearToken, Koios!koios, KoiosInv, KoiosTyped, KoiosTiers,
         Koios!Tiers
<1>3. Koios!Tally' = Koios!Tally
  BY <1>2 DEF Koios!Tally
<1> QED  BY <1>1, <1>2, <1>3, KoiosAssumption DEF KoiosInv, KoiosTyped, KoiosTiers

\* Midnight.
LEMMA KoiosDay == ASSUME KoiosInv, Koios!NextDay PROVE KoiosInv'
<1>1. /\ v3' = v3 + 1 /\ v11' = [t \in KoiosTiers |-> 0] /\ UNCHANGED <<v4, v5, v6, v12>>
  BY DEF Koios!NextDay, Koios!client, Koios!Tiers, KoiosTiers
<1>2. Koios!Tally' = 0
  BY <1>1 DEF Koios!Tally, KoiosInv, KoiosTyped
<1> QED  BY <1>1, <1>2, KoiosAssumption DEF KoiosInv, KoiosTyped, KoiosTiers

\* Every step.
LEMMA KoiosNext == ASSUME KoiosInv, Koios!Next PROVE KoiosInv'
<1>1. CASE \/ Koios!FetchPage \/ Koios!ProbeEnd \/ Koios!FetchBalances
  <2>1. /\ UNCHANGED <<v3, v6>>
        /\ \E full, answer, kind : Koios!Request(full, answer, kind)
    BY <1>1 DEF Koios!FetchPage, Koios!ProbeEnd, Koios!FetchBalances, Koios!koios
  <2> QED  BY <2>1, KoiosAsks
<1>2. CASE \/ Koios!StartFetch \/ Koios!EndFetch \/ \E a \in Accounts : Koios!Moves(a)
  <2>1. UNCHANGED <<v3, v4, v5, v6, v11>>
    BY <1>2 DEF Koios!StartFetch, Koios!EndFetch, Koios!Moves, Koios!koios, Koios!client
  <2>2. v12' \in 0..KoiosTrouble /\ v12 <= v12'
    <3>1. Koios!Disturbed("moves") \/ v12' = v12
      BY <1>2 DEF Koios!StartFetch, Koios!EndFetch, Koios!Moves
    <3>2. v12 \in 0..KoiosTrouble
      BY DEF KoiosInv, KoiosTyped
    <3> QED  BY <3>1, <3>2, KoiosDisturbed, KoiosAssumption
  <2>3. Koios!Tally' = Koios!Tally
    BY <2>1 DEF Koios!Tally
  <2> QED  BY <2>1, <2>2, <2>3, KoiosAssumption DEF KoiosInv, KoiosTyped, KoiosTiers
<1> QED  BY <1>1, <1>2, KoiosToken, KoiosDay DEF Koios!Next

-----------------------------------------------------------------------------
(* The places of the peers: first, induction and what the operators do.    *)

\* A set of natural numbers has a least one.
LEMMA Least ==
    ASSUME NEW T, T \subseteq Nat, T # {}
    PROVE  \E n \in T : \A m \in T : n <= m
<1> DEFINE Q == {0..n : n \in T}
<1>1. Q \subseteq FiniteSubsetsOf(Nat)
  <2>1. \A n \in T : n \in Int /\ 0 \in Int /\ 0..n \subseteq Nat
    OBVIOUS
  <2>2. \A n \in T : IsFiniteSet(0..n)
    BY <2>1, FS_Interval
  <2> QED  BY <2>1, <2>2 DEF FiniteSubsetsOf
<1>2. PICK x \in Q : \A y \in Q : <<y, x>> \notin StrictSubsetOrdering(Nat)
  <2>1. Q # {}
    OBVIOUS
  <2> HIDE DEF Q
  <2> QED  BY <1>1, <2>1, WFMin, FS_StrictSubsetOrderingWellFounded
<1>3. PICK n \in T : x = 0..n
  OBVIOUS
<1>4. ASSUME NEW m \in T PROVE n <= m
  <2>1. 0..m \in Q /\ <<0..m, x>> \notin StrictSubsetOrdering(Nat)
    BY <1>2
  <2>2. ~(0..m \subseteq 0..n /\ 0..m # 0..n)
    BY <2>1, <1>3 DEF StrictSubsetOrdering
  <2>3. SUFFICES ASSUME m < n PROVE FALSE
    OBVIOUS
  <2>4. n \in 0..n /\ n \notin 0..m /\ 0..m \subseteq 0..n
    BY <2>3
  <2> QED  BY <2>2, <2>4
<1> QED  BY <1>4

\* Induction over the natural numbers, said of a set of them.
LEMMA Induct ==
    ASSUME NEW T, 0 \in T, \A n \in Nat : n \in T => n + 1 \in T
    PROVE  Nat \subseteq T
<1> SUFFICES ASSUME Nat \ T # {} PROVE FALSE
  OBVIOUS
<1>1. PICK n \in Nat \ T : \A m \in Nat \ T : n <= m
  BY Least
<1>2. n # 0 /\ n - 1 \in Nat
  OBVIOUS
<1>3. n - 1 \in T
  BY <1>1, <1>2
<1> QED  BY <1>2, <1>3

-----------------------------------------------------------------------------
\* What is left of the first elements of a sequence without those of K: the function that
\* Without defines, for all of them.
IsRest(f, n, s, K) ==
    f = [i \in 0..n |-> IF i = 0 THEN <<>>
                        ELSE IF s[i] \in K THEN f[i - 1] ELSE Append(f[i - 1], s[i])]

\* Without, for as many of the first elements as one likes.
LEMMA RestIs ==
    ASSUME NEW f, NEW n \in Nat, NEW s, NEW K
    PROVE  IsRest(f, n, s, K) <=>
             /\ f = [i \in 0..n |-> f[i]]
             /\ f[0] = <<>>
             /\ \A i \in 1..n : f[i] = IF s[i] \in K THEN f[i - 1] ELSE Append(f[i - 1], s[i])
<1> DEFINE E(i) == IF i = 0 THEN <<>>
                   ELSE IF s[i] \in K THEN f[i - 1] ELSE Append(f[i - 1], s[i])
<1>1. IsRest(f, n, s, K) <=> f = [i \in 0..n |-> E(i)]
  BY DEF IsRest
<1>2. /\ E(0) = <<>>
      /\ \A i \in 1..n : E(i) = IF s[i] \in K THEN f[i - 1] ELSE Append(f[i - 1], s[i])
  OBVIOUS
<1>3. ASSUME NEW i \in 0..n PROVE i = 0 \/ i \in 1..n
  OBVIOUS
<1> HIDE DEF E
<1>4. ASSUME f = [i \in 0..n |-> E(i)]
      PROVE  /\ f = [i \in 0..n |-> f[i]] /\ f[0] = E(0) /\ \A i \in 1..n : f[i] = E(i)
  BY <1>4
<1>5. ASSUME f = [i \in 0..n |-> f[i]], f[0] = E(0), \A i \in 1..n : f[i] = E(i)
      PROVE  f = [i \in 0..n |-> E(i)]
  <2>1. \A i \in 0..n : f[i] = E(i)
    BY <1>3, <1>5
  <2> QED  BY <1>5, <2>1
<1> QED  BY <1>1, <1>2, <1>4, <1>5

\* It exists for the first elements, however many, hence for all.
LEMMA RestExists ==
    ASSUME NEW s, NEW K, NEW m \in Nat
    PROVE  \E f : IsRest(f, m, s, K)
<1> DEFINE T == {n \in Nat : \E f : IsRest(f, n, s, K)}
<1>1. 0 \in T
  <2> DEFINE g == [i \in 0..0 |-> <<>>]
  <2>1. /\ g = [i \in 0..0 |-> g[i]] /\ g[0] = <<>>
        /\ \A i \in 1..0 : g[i] = IF s[i] \in K THEN g[i - 1] ELSE Append(g[i - 1], s[i])
    OBVIOUS
  <2> HIDE DEF g
  <2>2. IsRest(g, 0, s, K)
    BY <2>1, RestIs
  <2> QED  BY <2>2
<1>2. ASSUME NEW n \in Nat, n \in T PROVE n + 1 \in T
  <2>1. PICK f : IsRest(f, n, s, K)
    BY <1>2
  <2> DEFINE last == IF s[n + 1] \in K THEN f[n] ELSE Append(f[n], s[n + 1])
             g == [i \in 0..n + 1 |-> IF i <= n THEN f[i] ELSE last]
  <2>2. /\ f[0] = <<>>
        /\ \A i \in 1..n : f[i] = IF s[i] \in K THEN f[i - 1] ELSE Append(f[i - 1], s[i])
    BY <2>1, RestIs
  <2>3. /\ g = [i \in 0..n + 1 |-> g[i]] /\ (\A i \in 0..n : g[i] = f[i]) /\ g[n + 1] = last
    <3> HIDE DEF last
    <3> QED  OBVIOUS
  <2> HIDE DEF g
  <2>4. ASSUME NEW i \in 1..n + 1
        PROVE  g[i] = IF s[i] \in K THEN g[i - 1] ELSE Append(g[i - 1], s[i])
    <3>1. CASE i \in 1..n
      <4>1. i \in 0..n /\ i - 1 \in 0..n
        BY <3>1
      <4> QED  BY <2>2, <2>3, <3>1, <4>1
    <3>2. CASE i = n + 1
      <4>1. i - 1 = n /\ n \in 0..n
        BY <3>2
      <4> QED  BY <2>3, <3>2, <4>1
    <3> QED  BY <3>1, <3>2
  <2>5. g[0] = <<>>
    <3>1. 0 \in 0..n
      OBVIOUS
    <3> QED  BY <2>2, <2>3, <3>1
  <2>6. IsRest(g, n + 1, s, K)
    <3>1. PICK k \in Nat : k = n + 1
      OBVIOUS
    <3> QED  BY <2>3, <2>4, <2>5, <3>1, RestIs
  <2> QED  BY <2>6
<1>3. Nat \subseteq T
  <2> HIDE DEF T
  <2> QED  BY <1>1, <1>2, Induct
<1> QED  BY <1>3

\* h lists the places of the sequence s, up to n, that are not in K, in their order: out
\* is what stands there.
Lists(h, out, n, s, K) ==
    /\ h \in [1..Len(out) -> 1..n]
    /\ \A j \in 1..Len(out) : out[j] = s[h[j]]
    /\ \A i, j \in 1..Len(out) : i < j => h[i] < h[j]
    /\ \A i \in 1..n : s[i] \notin K <=> \E j \in 1..Len(out) : h[j] = i

\* Nothing is listed of nothing.
LEMMA ListsNone ==
    ASSUME NEW s, NEW K PROVE \E h : Lists(h, <<>>, 0, s, K)
<1>1. Lists([i \in 1..0 |-> i], <<>>, 0, s, K)
  BY DEF Lists
<1> QED  BY <1>1

\* A place of K is passed over.
LEMMA ListsSkip ==
    ASSUME NEW S, NEW out \in Seq(S), NEW n \in Nat, NEW s, NEW K, NEW h, Lists(h, out, n, s, K),
           s[n + 1] \in K
    PROVE  Lists(h, out, n + 1, s, K)
<1>1. h \in [1..Len(out) -> 1..n + 1] /\ \A j \in 1..Len(out) : h[j] # n + 1
  BY DEF Lists
<1>2. ASSUME NEW i \in 1..n + 1
      PROVE  s[i] \notin K <=> \E j \in 1..Len(out) : h[j] = i
  <2>1. CASE i \in 1..n
    BY <2>1 DEF Lists
  <2>2. CASE i = n + 1
    BY <1>1, <2>2
  <2> QED  BY <2>1, <2>2
<1> QED  BY <1>1, <1>2 DEF Lists

\* Any other is listed.
LEMMA ListsAdd ==
    ASSUME NEW S, NEW out \in Seq(S), NEW n \in Nat, NEW s, NEW K, NEW h, Lists(h, out, n, s, K),
           s[n + 1] \notin K, s[n + 1] \in S
    PROVE  \E g : Lists(g, Append(out, s[n + 1]), n + 1, s, K)
<1> DEFINE m == Len(out)
           g == [j \in 1..m + 1 |-> IF j <= m THEN h[j] ELSE n + 1]
           big == Append(out, s[n + 1])
<1>1. /\ big \in Seq(S) /\ Len(big) = m + 1 /\ m \in Nat /\ big[m + 1] = s[n + 1]
      /\ \A j \in 1..m : big[j] = out[j]
  OBVIOUS
<1>2. /\ g \in [1..m + 1 -> 1..n + 1] /\ g[m + 1] = n + 1
      /\ \A j \in 1..m : g[j] = h[j] /\ h[j] \in 1..n
  BY DEF Lists
<1>3. \A j \in 1..m + 1 : j = m + 1 \/ j \in 1..m
  OBVIOUS
<1>4. /\ \A j \in 1..m : out[j] = s[h[j]]
      /\ \A i, j \in 1..m : i < j => h[i] < h[j]
      /\ \A i \in 1..n : s[i] \notin K <=> \E j \in 1..m : h[j] = i
  BY DEF Lists
<1> HIDE DEF m, g, big
<1>5. \A j \in 1..m + 1 : big[j] = s[g[j]]
  BY <1>1, <1>2, <1>3, <1>4
<1>6. ASSUME NEW i \in 1..m + 1, NEW j \in 1..m + 1, i < j PROVE g[i] < g[j]
  <2>1. i \in 1..m
    BY <1>1, <1>6
  <2>2. CASE j = m + 1
    BY <1>2, <2>1, <2>2
  <2>3. CASE j \in 1..m
    BY <1>2, <1>4, <1>6, <2>1, <2>3
  <2> QED  BY <1>3, <2>2, <2>3
<1>7. ASSUME NEW i \in 1..n + 1
      PROVE  s[i] \notin K <=> \E j \in 1..m + 1 : g[j] = i
  <2>1. CASE i = n + 1
    <3>1. m + 1 \in 1..m + 1
      BY <1>1
    <3> QED  BY <1>2, <2>1, <3>1
  <2>2. CASE i # n + 1
    <3>1. i \in 1..n
      BY <2>2
    <3>2. \A j \in 1..m + 1 : g[j] = i => j \in 1..m /\ h[j] = i
      BY <1>2, <1>3, <2>2
    <3>3. \A j \in 1..m : j \in 1..m + 1
      BY <1>1
    <3>4. (\E j \in 1..m : h[j] = i) <=> \E j \in 1..m + 1 : g[j] = i
      BY <1>2, <3>2, <3>3
    <3> QED  BY <1>4, <3>1, <3>4
  <2> QED  BY <2>1, <2>2
<1>8. Lists(g, big, n + 1, s, K)
  BY <1>1, <1>2, <1>5, <1>6, <1>7 DEF Lists
<1> QED  BY <1>8 DEF big

\* What is left of a sequence is what stands at the places that are not in K.
LEMMA RestLists ==
    ASSUME NEW S, NEW s \in Seq(S), NEW K, NEW f, IsRest(f, Len(s), s, K)
    PROVE  f[Len(s)] \in Seq(S) /\ \E h : Lists(h, f[Len(s)], Len(s), s, K)
<1> DEFINE T == {n \in Nat : n <= Len(s) =>
                    f[n] \in Seq(S) /\ \E h : Lists(h, f[n], n, s, K)}
<1>0. /\ f[0] = <<>> /\ Len(s) \in Nat
      /\ \A n \in 1..Len(s) : f[n] = IF s[n] \in K THEN f[n - 1] ELSE Append(f[n - 1], s[n])
  <2>1. PICK k \in Nat : k = Len(s)
    OBVIOUS
  <2> QED  BY <2>1, RestIs
<1>1. 0 \in T
  <2>1. <<>> \in Seq(S) /\ \E h : Lists(h, <<>>, 0, s, K)
    BY ListsNone
  <2> QED  BY <1>0, <2>1
<1>2. ASSUME NEW n \in Nat, n \in T PROVE n + 1 \in T
  <2> SUFFICES ASSUME n + 1 <= Len(s)
               PROVE  f[n + 1] \in Seq(S) /\ \E h : Lists(h, f[n + 1], n + 1, s, K)
    OBVIOUS
  <2>1. PICK h : f[n] \in Seq(S) /\ Lists(h, f[n], n, s, K)
    BY <1>0, <1>2
  <2>2. n + 1 \in 1..Len(s) /\ (n + 1) - 1 = n /\ s[n + 1] \in S
    BY <1>0
  <2>3. CASE s[n + 1] \in K
    <3>1. f[n + 1] = f[n]
      BY <1>0, <2>2, <2>3
    <3> QED  BY <2>1, <2>3, <3>1, ListsSkip
  <2>4. CASE s[n + 1] \notin K
    <3>1. f[n + 1] = Append(f[n], s[n + 1])
      BY <1>0, <2>2, <2>4
    <3>2. Append(f[n], s[n + 1]) \in Seq(S)
      BY <2>1, <2>2
    <3> QED  BY <2>1, <2>2, <2>4, <3>1, <3>2, ListsAdd
  <2> QED  BY <2>3, <2>4
<1>3. Nat \subseteq T
  <2> HIDE DEF T
  <2> QED  BY <1>1, <1>2, Induct
<1> QED  BY <1>0, <1>3

\* Without lists what is left.
LEMMA WithoutLists ==
    ASSUME NEW S, NEW s \in Seq(S), NEW K, NEW out, out = Places!Without(s, K)
    PROVE  out \in Seq(S) /\ \E h : Lists(h, out, Len(s), s, K)
<1> DEFINE f == CHOOSE f : IsRest(f, Len(s), s, K)
<1>1. IsRest(f, Len(s), s, K)
  BY RestExists
<1>2. out = f[Len(s)]
  BY DEF Places!Without, IsRest
<1> HIDE DEF f
<1> QED  BY <1>1, <1>2, RestLists
-----------------------------------------------------------------------------
\* No element comes twice; one comes before another.
Distinct(s) == \A i, j \in 1..Len(s) : s[i] = s[j] => i = j
Precedes(s, a, b) == \E i, j \in 1..Len(s) : i < j /\ s[i] = a /\ s[j] = b

\* What stands in a sequence is of its set.
LEMMA InSeq ==
    ASSUME NEW S, NEW s \in Seq(S)
    PROVE  \A x : x \in Places!Range(s) <=> \E i \in 1..Len(s) : s[i] = x
BY DEF Places!Range

\* What is left keeps its order.
LEMMA WithoutIs ==
    ASSUME NEW S, NEW s \in Seq(S), NEW K, NEW out, out = Places!Without(s, K)
    PROVE  /\ out \in Seq(S) /\ (Distinct(s) => Distinct(out))
           /\ \A x : x \in Places!Range(out) <=> x \in Places!Range(s) /\ x \notin K
           /\ \A a, b : Precedes(out, a, b) <=> Precedes(s, a, b) /\ a \notin K /\ b \notin K
<1>1. PICK h : out \in Seq(S) /\ Lists(h, out, Len(s), s, K)
  BY WithoutLists
<1>2. /\ Len(out) \in Nat /\ Len(s) \in Nat
      /\ \A j \in 1..Len(out) : h[j] \in 1..Len(s) /\ out[j] = s[h[j]] /\ s[h[j]] \notin K
      /\ \A i, j \in 1..Len(out) : i < j => h[i] < h[j]
      /\ \A i \in 1..Len(s) : s[i] \notin K => \E j \in 1..Len(out) : h[j] = i
  BY <1>1 DEF Lists
<1>3. \A i, j \in 1..Len(out) : (i < j <=> h[i] < h[j]) /\ (h[i] = h[j] => i = j)
  <2> TAKE i, j \in 1..Len(out)
  <2>1. i < j \/ i = j \/ j < i
    OBVIOUS
  <2>2. h[i] \in Int /\ h[j] \in Int
    BY <1>2
  <2> QED  BY <1>2, <2>1, <2>2
<1>4. Distinct(s) => Distinct(out)
  BY <1>2, <1>3 DEF Distinct
<1>5. ASSUME NEW x
      PROVE  x \in Places!Range(out) <=> x \in Places!Range(s) /\ x \notin K
  <2>1. /\ x \in Places!Range(out) <=> \E j \in 1..Len(out) : out[j] = x
        /\ x \in Places!Range(s) <=> \E i \in 1..Len(s) : s[i] = x
    BY <1>1, InSeq
  <2>2. ASSUME NEW i \in 1..Len(s), s[i] = x, x \notin K
        PROVE  \E j \in 1..Len(out) : out[j] = x
    <3>1. PICK j \in 1..Len(out) : h[j] = i
      BY <1>2, <2>2
    <3> QED  BY <1>2, <2>2, <3>1
  <2> QED  BY <1>2, <2>1, <2>2
<1>6. ASSUME NEW a, NEW b
      PROVE  Precedes(out, a, b) <=> Precedes(s, a, b) /\ a \notin K /\ b \notin K
  <2>1. ASSUME NEW i \in 1..Len(s), NEW j \in 1..Len(s), i < j, s[i] = a, s[j] = b,
               a \notin K, b \notin K
        PROVE  Precedes(out, a, b)
    <3>1. PICK k \in 1..Len(out) : h[k] = i
      BY <1>2, <2>1
    <3>2. PICK l \in 1..Len(out) : h[l] = j
      BY <1>2, <2>1
    <3>3. k < l /\ out[k] = a /\ out[l] = b
      BY <1>2, <1>3, <2>1, <3>1, <3>2
    <3> QED  BY <3>3 DEF Precedes
  <2>2. ASSUME NEW k \in 1..Len(out), NEW l \in 1..Len(out), k < l, out[k] = a, out[l] = b
        PROVE  Precedes(s, a, b) /\ a \notin K /\ b \notin K
    <3>1. /\ h[k] \in 1..Len(s) /\ h[l] \in 1..Len(s) /\ h[k] < h[l]
          /\ s[h[k]] = a /\ s[h[l]] = b
      BY <1>2, <2>2
    <3>2. a \notin K /\ b \notin K
      BY <1>2, <2>2
    <3> QED  BY <3>1, <3>2 DEF Precedes
  <2> QED  BY <2>1, <2>2 DEF Precedes
<1> QED  BY <1>1, <1>4, <1>5, <1>6

\* So do two sequences that have nothing in common, one after the other.
LEMMA ConcatIs ==
    ASSUME NEW S, NEW s \in Seq(S), NEW t \in Seq(S), NEW out, out = s \o t
    PROVE  /\ out \in Seq(S)
           /\ \A x : x \in Places!Range(out) <=> x \in Places!Range(s) \/ x \in Places!Range(t)
           /\ \A a, b : Precedes(out, a, b) <=>
                \/ Precedes(s, a, b) \/ Precedes(t, a, b)
                \/ a \in Places!Range(s) /\ b \in Places!Range(t)
           /\ Distinct(s) /\ Distinct(t) /\ Places!Range(s) \cap Places!Range(t) = {} =>
                Distinct(out)
<1>1. /\ out \in Seq(S) /\ Len(out) = Len(s) + Len(t) /\ Len(s) \in Nat /\ Len(t) \in Nat
      /\ \A i \in 1..Len(s) : i \in 1..Len(out) /\ out[i] = s[i]
      /\ \A i \in 1..Len(t) : Len(s) + i \in 1..Len(out) /\ out[Len(s) + i] = t[i]
  OBVIOUS
<1>2. \A i \in 1..Len(out) : i \in 1..Len(s) \/ \E j \in 1..Len(t) : i = Len(s) + j
  <2> TAKE i \in 1..Len(out)
  <2>1. CASE i > Len(s)
    <3>1. i - Len(s) \in 1..Len(t) /\ i = Len(s) + (i - Len(s))
      BY <1>1, <2>1
    <3> QED  BY <3>1
  <2> QED  BY <1>1, <2>1
<1>3. /\ \A x : x \in Places!Range(s) <=> \E i \in 1..Len(s) : s[i] = x
      /\ \A x : x \in Places!Range(t) <=> \E i \in 1..Len(t) : t[i] = x
      /\ \A x : x \in Places!Range(out) <=> \E i \in 1..Len(out) : out[i] = x
  <2>1. \A u \in Seq(S) : \A x : x \in Places!Range(u) <=> \E i \in 1..Len(u) : u[i] = x
    BY InSeq
  <2> QED  BY <1>1, <2>1
<1>4. \A x : x \in Places!Range(out) <=> x \in Places!Range(s) \/ x \in Places!Range(t)
  <2> TAKE x
  <2>1. ASSUME NEW i \in 1..Len(out), out[i] = x
        PROVE  x \in Places!Range(s) \/ x \in Places!Range(t)
    <3>1. CASE i \in 1..Len(s)
      BY <1>1, <1>3, <2>1, <3>1
    <3>2. ASSUME NEW j \in 1..Len(t), i = Len(s) + j PROVE x \in Places!Range(t)
      <4>1. out[i] = t[j]
        BY <1>1, <3>2
      <4> QED  BY <1>3, <2>1, <4>1
    <3> QED  BY <1>2, <3>1, <3>2
  <2>2. ASSUME NEW i \in 1..Len(s), s[i] = x PROVE x \in Places!Range(out)
    BY <1>1, <1>3, <2>2
  <2>3. ASSUME NEW i \in 1..Len(t), t[i] = x PROVE x \in Places!Range(out)
    BY <1>1, <1>3, <2>3
  <2> QED  BY <1>3, <2>1, <2>2, <2>3
<1>5. ASSUME NEW a, NEW b
      PROVE  Precedes(out, a, b) <=>
                \/ Precedes(s, a, b) \/ Precedes(t, a, b)
                \/ a \in Places!Range(s) /\ b \in Places!Range(t)
  <2>1. ASSUME NEW i \in 1..Len(out), NEW j \in 1..Len(out), i < j, out[i] = a, out[j] = b
        PROVE  \/ Precedes(s, a, b) \/ Precedes(t, a, b)
               \/ a \in Places!Range(s) /\ b \in Places!Range(t)
    <3>1. CASE i \in 1..Len(s) /\ j \in 1..Len(s)
      BY <1>1, <2>1, <3>1 DEF Precedes
    <3>2. CASE i \in 1..Len(s) /\ \E k \in 1..Len(t) : j = Len(s) + k
      BY <1>1, <1>3, <2>1, <3>2
    <3>3. ASSUME NEW k \in 1..Len(t), i = Len(s) + k PROVE Precedes(t, a, b)
      <4>1. j \notin 1..Len(s)
        BY <1>1, <2>1, <3>3
      <4>2. PICK l \in 1..Len(t) : j = Len(s) + l
        BY <1>2, <4>1
      <4>3. k < l /\ t[k] = a /\ t[l] = b
        BY <1>1, <2>1, <3>3, <4>2
      <4> QED  BY <4>3 DEF Precedes
    <3> QED  BY <1>2, <3>1, <3>2, <3>3
  <2>2. Precedes(s, a, b) => Precedes(out, a, b)
    BY <1>1 DEF Precedes
  <2>3. ASSUME NEW k \in 1..Len(t), NEW l \in 1..Len(t), k < l, t[k] = a, t[l] = b
        PROVE  Precedes(out, a, b)
    <3>1. Len(s) + k < Len(s) + l
      BY <1>1, <2>3
    <3>2. /\ Len(s) + k \in 1..Len(out) /\ Len(s) + l \in 1..Len(out)
          /\ out[Len(s) + k] = a /\ out[Len(s) + l] = b
      BY <1>1, <2>3
    <3> QED  BY <3>1, <3>2 DEF Precedes
  <2>4. ASSUME NEW k \in 1..Len(s), NEW l \in 1..Len(t), s[k] = a, t[l] = b
        PROVE  Precedes(out, a, b)
    <3>1. k < Len(s) + l
      BY <1>1
    <3>2. /\ k \in 1..Len(out) /\ Len(s) + l \in 1..Len(out)
          /\ out[k] = a /\ out[Len(s) + l] = b
      BY <1>1, <2>4
    <3> QED  BY <3>1, <3>2 DEF Precedes
  <2>5. Precedes(t, a, b) => Precedes(out, a, b)
    BY <2>3 DEF Precedes
  <2>6. a \in Places!Range(s) /\ b \in Places!Range(t) => Precedes(out, a, b)
    BY <1>3, <2>4
  <2>7. Precedes(out, a, b) =>
                \/ Precedes(s, a, b) \/ Precedes(t, a, b)
                \/ a \in Places!Range(s) /\ b \in Places!Range(t)
    BY <2>1 DEF Precedes
  <2> QED  BY <2>2, <2>5, <2>6, <2>7
<1>6. ASSUME Distinct(s), Distinct(t), Places!Range(s) \cap Places!Range(t) = {}
      PROVE  Distinct(out)
  <2> SUFFICES ASSUME NEW i \in 1..Len(out), NEW j \in 1..Len(out), out[i] = out[j]
               PROVE  i = j
    BY DEF Distinct
  <2>1. CASE i \in 1..Len(s) /\ j \in 1..Len(s)
    BY <1>1, <1>6, <2>1 DEF Distinct
  <2>2. CASE i \in 1..Len(s) /\ \E k \in 1..Len(t) : j = Len(s) + k
    <3>1. PICK k \in 1..Len(t) : j = Len(s) + k
      BY <2>2
    <3>2. s[i] = t[k]
      BY <1>1, <2>2, <3>1
    <3>3. s[i] \in Places!Range(s) /\ t[k] \in Places!Range(t)
      BY <1>3, <2>2
    <3> QED  BY <1>6, <3>2, <3>3
  <2>3. CASE j \in 1..Len(s) /\ \E k \in 1..Len(t) : i = Len(s) + k
    <3>1. PICK k \in 1..Len(t) : i = Len(s) + k
      BY <2>3
    <3>2. s[j] = t[k]
      BY <1>1, <2>3, <3>1
    <3>3. s[j] \in Places!Range(s) /\ t[k] \in Places!Range(t)
      BY <1>3, <2>3
    <3> QED  BY <1>6, <3>2, <3>3
  <2>4. ASSUME NEW k \in 1..Len(t), NEW l \in 1..Len(t), i = Len(s) + k, j = Len(s) + l
        PROVE  i = j
    <3>1. t[k] = t[l]
      BY <1>1, <2>4
    <3>2. k = l
      BY <1>6, <3>1 DEF Distinct
    <3> QED  BY <2>4, <3>2
  <2> QED  BY <1>2, <2>1, <2>2, <2>3, <2>4
<1> QED  BY <1>1, <1>4, <1>5, <1>6

\* A sequence of one.
LEMMA OneIs ==
    ASSUME NEW S, NEW k \in S
    PROVE  /\ <<k>> \in Seq(S) /\ Distinct(<<k>>)
           /\ \A x : x \in Places!Range(<<k>>) <=> x = k
           /\ \A a, b : ~Precedes(<<k>>, a, b)
BY DEF Distinct, Precedes, Places!Range

\* A key brought to the end comes after the others, which keep their order.
LEMMA ToEndIs ==
    ASSUME NEW S, NEW s \in Seq(S), NEW k \in S, NEW out, out = Places!ToEnd(s, k)
    PROVE  /\ out \in Seq(S) /\ (Distinct(s) => Distinct(out))
           /\ \A x : x \in Places!Range(out) <=> x \in Places!Range(s) \/ x = k
           /\ \A a, b : Precedes(out, a, b) <=>
                \/ Precedes(s, a, b) /\ a # k /\ b # k
                \/ a \in Places!Range(s) /\ a # k /\ b = k
<1>1. PICK t : t = Places!Without(s, {k})
  OBVIOUS
<1>2. /\ t \in Seq(S) /\ (Distinct(s) => Distinct(t))
      /\ \A x : x \in Places!Range(t) <=> x \in Places!Range(s) /\ x # k
      /\ \A a, b : Precedes(t, a, b) <=> Precedes(s, a, b) /\ a # k /\ b # k
  BY <1>1, WithoutIs
<1>3. out = t \o <<k>> /\ <<k>> \in Seq(S)
  BY <1>1, <1>2 DEF Places!ToEnd
<1>4. Places!Range(t) \cap Places!Range(<<k>>) = {}
  BY <1>2, OneIs
<1>5. /\ out \in Seq(S)
      /\ \A x : x \in Places!Range(out) <=>
           x \in Places!Range(t) \/ x \in Places!Range(<<k>>)
      /\ \A a, b : Precedes(out, a, b) <=>
           \/ Precedes(t, a, b) \/ Precedes(<<k>>, a, b)
           \/ a \in Places!Range(t) /\ b \in Places!Range(<<k>>)
      /\ Distinct(t) /\ Distinct(<<k>>) => Distinct(out)
  <2>1. PICK one \in Seq(S) : one = <<k>>
    BY <1>3
  <2>2. out = t \o one /\ Places!Range(t) \cap Places!Range(one) = {}
    BY <1>3, <1>4, <2>1
  <2>3. /\ out \in Seq(S)
        /\ \A x : x \in Places!Range(out) <=> x \in Places!Range(t) \/ x \in Places!Range(one)
        /\ \A a, b : Precedes(out, a, b) <=>
             \/ Precedes(t, a, b) \/ Precedes(one, a, b)
             \/ a \in Places!Range(t) /\ b \in Places!Range(one)
        /\ Distinct(t) /\ Distinct(one) => Distinct(out)
    BY <1>2, <2>2, ConcatIs
  <2> QED  BY <2>1, <2>3
<1> QED  BY <1>2, <1>5, OneIs

-----------------------------------------------------------------------------
\* The places up to i whose element is not in H.
Outside(s, H, i) == {j \in 1..i : s[j] \notin H}

\* They are counted one by one.
LEMMA OutsideIs ==
    ASSUME NEW s, NEW H, NEW i \in Nat
    PROVE  /\ IsFiniteSet(Outside(s, H, i)) /\ Cardinality(Outside(s, H, i)) \in Nat
           /\ Outside(s, H, 0) = {} /\ Cardinality(Outside(s, H, 0)) = 0
           /\ \A j \in 0..i : Cardinality(Outside(s, H, j)) <= Cardinality(Outside(s, H, i))
           /\ s[i + 1] \in H => Outside(s, H, i + 1) = Outside(s, H, i)
           /\ s[i + 1] \notin H =>
                /\ Outside(s, H, i + 1) = Outside(s, H, i) \cup {i + 1}
                /\ Cardinality(Outside(s, H, i + 1)) = Cardinality(Outside(s, H, i)) + 1
<1>1. IsFiniteSet(1..i) /\ Outside(s, H, i) \subseteq 1..i
  BY FS_Interval DEF Outside
<1>2. IsFiniteSet(Outside(s, H, i))
  BY <1>1, FS_Subset
<1>3. Cardinality(Outside(s, H, i)) \in Nat
  BY <1>2, FS_CardinalityType
<1>4. Outside(s, H, 0) = {} /\ Cardinality(Outside(s, H, 0)) = 0
  BY FS_EmptySet DEF Outside
<1>5. ASSUME NEW j \in 0..i
      PROVE  Cardinality(Outside(s, H, j)) <= Cardinality(Outside(s, H, i))
  <2>1. Outside(s, H, j) \subseteq Outside(s, H, i)
    BY DEF Outside
  <2> QED  BY <1>2, <2>1, FS_Subset
<1>6. \A j \in 1..i + 1 : j \in 1..i \/ j = i + 1
  OBVIOUS
<1>7. i + 1 \notin 1..i /\ \A j \in 1..i : j \in 1..i + 1
  OBVIOUS
<1>8. s[i + 1] \in H => Outside(s, H, i + 1) = Outside(s, H, i)
  BY <1>6, <1>7 DEF Outside
<1>9. ASSUME s[i + 1] \notin H
      PROVE  /\ Outside(s, H, i + 1) = Outside(s, H, i) \cup {i + 1}
             /\ Cardinality(Outside(s, H, i + 1)) = Cardinality(Outside(s, H, i)) + 1
  <2>1. i + 1 \in 1..i + 1
    OBVIOUS
  <2>2. Outside(s, H, i + 1) = Outside(s, H, i) \cup {i + 1} /\ i + 1 \notin Outside(s, H, i)
    BY <1>6, <1>7, <1>9, <2>1 DEF Outside
  <2> QED  BY <1>2, <2>2, FS_AddElement
<1> QED  BY <1>2, <1>3, <1>4, <1>5, <1>8, <1>9

\* Of those, as many come among the first c as there are, c at most.
Eldest(s, H, c, n) == {i \in 1..n : s[i] \notin H /\ Cardinality(Outside(s, H, i)) <= c}

\* There are as many.
LEMMA EldestCount ==
    ASSUME NEW s, NEW H, NEW c \in Nat, NEW m \in Nat
    PROVE  LET all == Cardinality(Outside(s, H, m))
               eldest == Cardinality(Eldest(s, H, c, m))
           IN (all <= c => eldest = all) /\ (all > c => eldest = c)
<1> DEFINE Right(n) ==
             /\ Cardinality(Outside(s, H, n)) <= c =>
                  Cardinality(Eldest(s, H, c, n)) = Cardinality(Outside(s, H, n))
             /\ Cardinality(Outside(s, H, n)) > c => Cardinality(Eldest(s, H, c, n)) = c
           T == {n \in Nat : Right(n)}
<1>1. 0 \in T
  <2>1. Eldest(s, H, c, 0) = {}
    BY DEF Eldest
  <2>2. Cardinality(Eldest(s, H, c, 0)) = 0
    BY <2>1, FS_EmptySet
  <2>3. 0 \in Nat /\ Cardinality(Outside(s, H, 0)) = 0
    BY OutsideIs
  <2> QED  BY <2>2, <2>3
<1>2. ASSUME NEW n \in Nat, n \in T PROVE n + 1 \in T
  <2>1. PICK a \in Nat, b \in Nat :
          a = Cardinality(Outside(s, H, n)) /\ b = Cardinality(Outside(s, H, n + 1))
    BY OutsideIs
  <2>2. /\ a <= c => Cardinality(Eldest(s, H, c, n)) = a
        /\ a > c => Cardinality(Eldest(s, H, c, n)) = c
    BY <1>2, <2>1
  <2>3. \A j \in 1..n + 1 : j \in 1..n \/ j = n + 1
    OBVIOUS
  <2>4. n + 1 \notin 1..n /\ (\A j \in 1..n : j \in 1..n + 1) /\ n + 1 \in 1..n + 1
    OBVIOUS
  <2>5. IsFiniteSet(Eldest(s, H, c, n)) /\ n + 1 \notin Eldest(s, H, c, n)
    <3>1. IsFiniteSet(1..n) /\ Eldest(s, H, c, n) \subseteq 1..n
      BY FS_Interval DEF Eldest
    <3> QED  BY <2>4, <3>1, FS_Subset
  <2>6. CASE s[n + 1] \in H
    <3>1. Eldest(s, H, c, n + 1) = Eldest(s, H, c, n)
      BY <2>3, <2>4, <2>6 DEF Eldest
    <3>2. a = b
      BY <2>1, <2>6, OutsideIs
    <3> QED  BY <2>1, <2>2, <3>1, <3>2
  <2>7. CASE s[n + 1] \notin H
    <3>1. b = a + 1
      BY <2>1, <2>7, OutsideIs
    <3>2. CASE b <= c
      <4>1. Eldest(s, H, c, n + 1) = Eldest(s, H, c, n) \cup {n + 1}
        BY <2>1, <2>3, <2>4, <2>7, <3>2 DEF Eldest
      <4>2. Cardinality(Eldest(s, H, c, n + 1)) = Cardinality(Eldest(s, H, c, n)) + 1
        BY <2>5, <4>1, FS_AddElement
      <4> QED  BY <2>1, <2>2, <3>1, <3>2, <4>2
    <3>3. CASE ~(b <= c)
      <4>1. Eldest(s, H, c, n + 1) = Eldest(s, H, c, n)
        BY <2>1, <2>3, <2>4, <2>7, <3>3 DEF Eldest
      <4> QED  BY <2>1, <2>2, <3>1, <3>3, <4>1
    <3> QED  BY <3>2, <3>3
  <2> QED  BY <2>6, <2>7
<1>3. Nat \subseteq T
  <2> HIDE DEF T
  <2> QED  BY <1>1, <1>2, Induct
<1> QED  BY <1>3

\* How many of the first numbers are not in a set of them.
LEMMA CountOff ==
    ASSUME NEW n \in Nat, NEW O \in SUBSET (1..n)
    PROVE  /\ IsFiniteSet(O) /\ Cardinality(O) \in Nat
           /\ IsFiniteSet(1..n) /\ Cardinality(1..n) = n
           /\ Cardinality((1..n) \ O) = n - Cardinality(O)
<1>1. PICK D : D = 1..n
  OBVIOUS
<1>2. IsFiniteSet(D) /\ Cardinality(D) = IF 1 > n THEN 0 ELSE n - 1 + 1
  BY <1>1, FS_Interval
<1>3. Cardinality(D) = n
  BY <1>2
<1>4. IsFiniteSet(O)
  BY <1>1, <1>2, FS_Subset
<1>5. Cardinality(O) \in Nat
  BY <1>4, FS_CardinalityType
<1>6. D \cap O = O
  BY <1>1
<1>7. Cardinality(D \ O) = Cardinality(D) - Cardinality(D \cap O)
  BY <1>2, FS_Difference
<1> QED  BY <1>1, <1>2, <1>3, <1>4, <1>5, <1>6, <1>7

\* What Lists lists is as many.
LEMMA ListsCount ==
    ASSUME NEW S, NEW s \in Seq(S), NEW out \in Seq(S), NEW K, NEW h, Lists(h, out, Len(s), s, K)
    PROVE  Len(out) = Cardinality({i \in 1..Len(s) : s[i] \notin K})
<1> DEFINE D == 1..Len(out)
           R == {i \in 1..Len(s) : s[i] \notin K}
<1>1. h \in [D -> R] /\ \A i \in R : \E j \in D : h[j] = i
  BY DEF Lists
<1>2. \A i, j \in D : h[i] = h[j] => i = j
  <2> SUFFICES ASSUME NEW i \in D, NEW j \in D, h[i] = h[j] PROVE i = j
    OBVIOUS
  <2>1. ~(i < j) /\ ~(j < i)
    BY <1>1 DEF Lists
  <2> QED  BY <2>1
<1>3. IsFiniteSet(D) /\ Cardinality(D) = Len(out)
  <2>1. Len(out) \in Nat /\ {} \in SUBSET (1..Len(out))
    OBVIOUS
  <2> QED  BY <2>1, CountOff
<1> HIDE DEF D, R
<1>4. h \in Bijection(D, R)
  BY <1>1, <1>2 DEF Bijection, Injection, Surjection, IsInjective
<1>5. ExistsBijection(D, R)
  BY <1>4 DEF ExistsBijection
<1> QED  BY <1>3, <1>5, FS_Bijection DEF R

\* The instance counts as this module does.
LEMMA PlacesCount == \A T : Places!Cardinality(T) = Cardinality(T)
BY DEF Places!Cardinality, Cardinality

\* trimCache: no more than the cap is kept, every host is, and of the rest the last.
LEMMA TrimIs ==
    ASSUME NEW S, NEW s \in Seq(S), Distinct(s), NEW out, out = Places!TrimCache(s)
    PROVE  /\ out \in Seq(S) /\ Distinct(out) /\ Len(out) <= GeoCap
           /\ \A x \in Places!Range(out) : x \in Places!Range(s)
           /\ \A a, b : Precedes(out, a, b) => Precedes(s, a, b)
           /\ \A x \in Places!Range(s) : x \notin Places!Range(out) =>
                /\ x \notin OwnHosts
                /\ \A y \in Places!Range(out) : y \notin OwnHosts => Precedes(s, x, y)
<1>0. Len(s) \in Nat /\ GeoCap \in Nat
  BY GeoAssumption
<1>1. CASE Len(s) - GeoCap <= 0
  <2>1. out = s
    BY <1>1 DEF Places!TrimCache
  <2> QED  BY <1>0, <1>1, <2>1
<1>2. CASE ~(Len(s) - GeoCap <= 0)
  <2>1. PICK c \in Nat : c = Len(s) - GeoCap
    BY <1>0, <1>2
  <2>2. PICK O : O = Eldest(s, OwnHosts, c, Len(s))
    OBVIOUS
  <2>3. PICK K : K = {s[i] : i \in O}
    OBVIOUS
  <2>4. out = Places!Without(s, K)
    <3>1. O = Places!Oldest(s, c)
      BY <2>2, PlacesCount DEF Eldest, Outside, Places!Oldest
    <3>2. Places!TrimCache(s) = Places!Without(s, {s[i] : i \in Places!Oldest(s, c)})
      BY <1>2, <2>1 DEF Places!TrimCache
    <3> QED  BY <2>3, <3>1, <3>2
  <2>5. O \subseteq 1..Len(s)
    BY <2>2 DEF Eldest
  <2>6. \A i \in 1..Len(s) : s[i] \in K <=> i \in O
    BY <2>3, <2>5 DEF Distinct
  <2>7. /\ out \in Seq(S) /\ Distinct(out)
        /\ \A x : x \in Places!Range(out) <=> x \in Places!Range(s) /\ x \notin K
        /\ \A a, b : Precedes(out, a, b) <=> Precedes(s, a, b) /\ a \notin K /\ b \notin K
    BY <2>4, WithoutIs
  <2>8. Len(out) <= GeoCap
    <3>1. PICK h : Lists(h, out, Len(s), s, K)
      BY <2>4, WithoutLists
    <3>2. Len(out) = Cardinality({i \in 1..Len(s) : s[i] \notin K})
      BY <2>7, <3>1, ListsCount
    <3>3. {i \in 1..Len(s) : s[i] \notin K} = (1..Len(s)) \ O
      BY <2>6
    <3>5. Len(out) = Len(s) - Cardinality(O)
      BY <1>0, <2>5, <3>2, <3>3, CountOff
    <3> DEFINE P == Outside(s, OwnHosts, Len(s))
               Q == {i \in 1..Len(s) : s[i] \in OwnHosts}
    <3>6. IsFiniteSet(Q) /\ Cardinality(Q) <= GeoCap /\ Cardinality(Q) \in Nat
      <4>2. IsFiniteSet(Q)
        BY <1>0, CountOff
      <4>3. [i \in Q |-> s[i]] \in Injection(Q, OwnHosts)
        BY DEF Injection, IsInjective, Distinct
      <4>4. Cardinality(Q) <= Cardinality(OwnHosts)
        BY <4>3, FS_Injection, GeoAssumption
      <4>5. Cardinality(OwnHosts) \in Nat /\ Cardinality(Q) \in Nat
        BY <4>2, FS_CardinalityType, GeoAssumption
      <4> QED  BY <4>2, <4>4, <4>5, GeoAssumption
    <3>7. Cardinality(P) = Len(s) - Cardinality(Q)
      <4>1. P = (1..Len(s)) \ Q /\ Q \in SUBSET (1..Len(s))
        BY DEF Outside
      <4> HIDE DEF P, Q
      <4> QED  BY <1>0, <4>1, CountOff
    <3>8. Cardinality(P) \in Nat
      BY <1>0, OutsideIs
    <3> HIDE DEF P, Q
    <3>9. Cardinality(P) >= c
      BY <1>0, <2>1, <3>6, <3>7, <3>8
    <3>10. Cardinality(O) = c
      <4>1. /\ Cardinality(P) <= c => Cardinality(O) = Cardinality(P)
            /\ Cardinality(P) > c => Cardinality(O) = c
        BY <1>0, <2>2, EldestCount DEF P
      <4> QED  BY <3>8, <3>9, <4>1
    <3> QED  BY <1>0, <2>1, <3>5, <3>10
  <2>9. ASSUME NEW x \in Places!Range(s), x \notin Places!Range(out)
        PROVE  /\ x \notin OwnHosts
               /\ \A y \in Places!Range(out) : y \notin OwnHosts => Precedes(s, x, y)
    <3>1. PICK i \in O : x = s[i]
      BY <2>3, <2>7, <2>9
    <3>2. /\ i \in 1..Len(s) /\ s[i] \notin OwnHosts
          /\ Cardinality(Outside(s, OwnHosts, i)) <= c
      BY <2>2, <3>1 DEF Eldest
    <3>3. ASSUME NEW y \in Places!Range(out), y \notin OwnHosts PROVE Precedes(s, x, y)
      <4>1. PICK j \in 1..Len(s) : s[j] = y
        BY <2>7, InSeq
      <4>2. j \notin O
        BY <2>6, <2>7, <4>1
      <4>3. ~(Cardinality(Outside(s, OwnHosts, j)) <= c)
        BY <2>2, <3>3, <4>1, <4>2 DEF Eldest
      <4>4. ~(j \in 0..i)
        <5>1. /\ Cardinality(Outside(s, OwnHosts, i)) \in Nat
              /\ Cardinality(Outside(s, OwnHosts, j)) \in Nat
              /\ \A k \in 0..i : Cardinality(Outside(s, OwnHosts, k))
                                   <= Cardinality(Outside(s, OwnHosts, i))
          BY <3>2, <4>1, OutsideIs
        <5> QED  BY <3>2, <4>3, <5>1
      <4>5. i < j
        BY <1>0, <3>2, <4>1, <4>4
      <4> QED  BY <3>1, <3>2, <4>1, <4>5 DEF Precedes
    <3> QED  BY <3>1, <3>2, <3>3
  <2> QED  BY <2>7, <2>8, <2>9
<1> QED  BY <1>1, <1>2

-----------------------------------------------------------------------------
GeoKeys == PeerIps \cup OwnHosts \cup {HostIp[h] : h \in OwnHosts}
GeoList(s) == s \in Seq(GeoKeys) /\ Distinct(s)

\* The map holds its keys in the order of their last use; what is not in it any more is no
\* host, and was used before all the addresses in it.
GeoOrder(held, used) ==
    /\ \A x \in Places!Range(held) : x \in Places!Range(used)
    /\ \A a, b : Precedes(held, a, b) => Precedes(used, a, b)
    /\ \A x \in Places!Range(used) : x \notin Places!Range(held) =>
         /\ x \notin OwnHosts
         /\ \A y \in Places!Range(held) : y \notin OwnHosts => Precedes(used, x, y)

\* A timer runs while something learned is not written, from no later than that.
GeoTimed ==
    /\ v1 \in Nat /\ v4 \in Nat \cup {None} /\ v9 \in Nat \cup {None}
    /\ v4 # None => v1 <= v4 /\ v4 <= v1 + GeoDelay
    /\ v9 # None => v4 # None /\ v4 <= v9 + GeoDelay

GeoInv ==
    /\ GeoList(v3) /\ GeoList(v6) /\ GeoList(v8) /\ Len(v6) <= GeoCap
    /\ \A c \in v5 : GeoList(c.ask)
    /\ GeoOrder(v3, v8) /\ GeoTimed

\* The list read at the start is in the order it was used.
LEMMA GeoOrderFirst == ASSUME NEW s PROVE GeoOrder(s, s)
BY DEF GeoOrder

\* A hit is used last.
LEMMA GeoOrderUse ==
    ASSUME NEW s, NEW t, GeoList(s), GeoList(t), GeoOrder(s, t), NEW k \in Places!Range(s),
           NEW s2, s2 = Places!ToEnd(s, k), NEW t2, t2 = Places!ToEnd(t, k)
    PROVE  GeoList(s2) /\ GeoList(t2) /\ GeoOrder(s2, t2)
<1>1. k \in GeoKeys /\ k \in Places!Range(t)
  BY InSeq DEF GeoList, GeoOrder
<1>2. /\ s2 \in Seq(GeoKeys) /\ Distinct(s2)
      /\ \A x : x \in Places!Range(s2) <=> x \in Places!Range(s) \/ x = k
      /\ \A a, b : Precedes(s2, a, b) <=>
           \/ Precedes(s, a, b) /\ a # k /\ b # k
           \/ a \in Places!Range(s) /\ a # k /\ b = k
  BY <1>1, ToEndIs DEF GeoList
<1>3. /\ t2 \in Seq(GeoKeys) /\ Distinct(t2)
      /\ \A x : x \in Places!Range(t2) <=> x \in Places!Range(t) \/ x = k
      /\ \A a, b : Precedes(t2, a, b) <=>
           \/ Precedes(t, a, b) /\ a # k /\ b # k
           \/ a \in Places!Range(t) /\ a # k /\ b = k
  BY <1>1, ToEndIs DEF GeoList
<1> QED  BY <1>1, <1>2, <1>3 DEF GeoList, GeoOrder

\* Of two lists, the elements of both.
LEMMA GeoConcat ==
    ASSUME NEW s, NEW t, GeoList(s), GeoList(t), Places!Range(s) \cap Places!Range(t) = {},
           NEW out, out = s \o t
    PROVE  /\ GeoList(out)
           /\ \A x : x \in Places!Range(out) <=> x \in Places!Range(s) \/ x \in Places!Range(t)
           /\ \A a, b : Precedes(out, a, b) <=>
                \/ Precedes(s, a, b) \/ Precedes(t, a, b)
                \/ a \in Places!Range(s) /\ b \in Places!Range(t)
<1>1. s \in Seq(GeoKeys) /\ t \in Seq(GeoKeys) /\ Distinct(s) /\ Distinct(t)
  BY DEF GeoList
<1>2. out \in Seq(GeoKeys)
  BY <1>1
<1>3. Distinct(out)
  BY <1>1, ConcatIs
<1>4. \A x : x \in Places!Range(out) <=> x \in Places!Range(s) \/ x \in Places!Range(t)
  BY <1>1, ConcatIs
<1>5. \A a, b : Precedes(out, a, b) <=>
        \/ Precedes(s, a, b) \/ Precedes(t, a, b)
        \/ a \in Places!Range(s) /\ b \in Places!Range(t)
  BY <1>1, ConcatIs
<1> QED  BY <1>2, <1>3, <1>4, <1>5 DEF GeoList

\* And of any two of them, which comes first.
LEMMA GeoConcatPair ==
    ASSUME NEW s, NEW t, GeoList(s), GeoList(t), Places!Range(s) \cap Places!Range(t) = {},
           NEW out, out = s \o t, NEW a, NEW b
    PROVE  Precedes(out, a, b) <=>
             \/ Precedes(s, a, b) \/ Precedes(t, a, b)
             \/ a \in Places!Range(s) /\ b \in Places!Range(t)
<1>1. \A x, y : Precedes(out, x, y) <=>
        \/ Precedes(s, x, y) \/ Precedes(t, x, y)
        \/ x \in Places!Range(s) /\ y \in Places!Range(t)
  BY GeoConcat, Zenon
<1> QED  BY <1>1

\* What is learned is the last that was used.
LEMMA GeoOrderLearn ==
    ASSUME NEW s, NEW t, GeoList(s), GeoList(t), GeoOrder(s, t), NEW ks, GeoList(ks),
           NEW new, new = Places!Without(ks, Places!Range(s)),
           NEW s2, s2 = Places!Put(s, ks),
           NEW t2, t2 = Places!Without(t, Places!Range(new)) \o new
    PROVE  GeoList(s2) /\ GeoList(t2) /\ GeoOrder(s2, t2)
<1>1. /\ GeoList(new)
      /\ \A x : x \in Places!Range(new) <=> x \in Places!Range(ks) /\ x \notin Places!Range(s)
  BY WithoutIs DEF GeoList
<1>2. PICK u : u = Places!Without(t, Places!Range(new))
  OBVIOUS
<1>3. /\ GeoList(u)
      /\ \A x : x \in Places!Range(u) <=> x \in Places!Range(t) /\ x \notin Places!Range(new)
      /\ \A a, b : Precedes(u, a, b) <=>
           Precedes(t, a, b) /\ a \notin Places!Range(new) /\ b \notin Places!Range(new)
  BY <1>2, WithoutIs DEF GeoList
<1>4. s2 = s \o new /\ t2 = u \o new
  BY <1>2 DEF Places!Put
<1>5. /\ Places!Range(s) \cap Places!Range(new) = {}
      /\ Places!Range(u) \cap Places!Range(new) = {}
  BY <1>1, <1>3
<1>6. /\ GeoList(s2)
      /\ \A x : x \in Places!Range(s2) <=> x \in Places!Range(s) \/ x \in Places!Range(new)
      /\ \A a, b : Precedes(s2, a, b) <=>
           \/ Precedes(s, a, b) \/ Precedes(new, a, b)
           \/ a \in Places!Range(s) /\ b \in Places!Range(new)
  <2>1. /\ GeoList(s) /\ GeoList(new) /\ s2 = s \o new
        /\ Places!Range(s) \cap Places!Range(new) = {}
    BY <1>1, <1>4, <1>5
  <2>2. GeoList(s2)
    BY <2>1, GeoConcat
  <2>3. \A x : x \in Places!Range(s2) <=> x \in Places!Range(s) \/ x \in Places!Range(new)
    BY <2>1, GeoConcat
  <2>4. ASSUME NEW a, NEW b
        PROVE  Precedes(s2, a, b) <=>
                 \/ Precedes(s, a, b) \/ Precedes(new, a, b)
                 \/ a \in Places!Range(s) /\ b \in Places!Range(new)
    BY <2>1, GeoConcatPair
  <2> QED  BY <2>2, <2>3, <2>4
<1>7. /\ GeoList(t2)
      /\ \A x : x \in Places!Range(t2) <=> x \in Places!Range(u) \/ x \in Places!Range(new)
      /\ \A a, b : Precedes(t2, a, b) <=>
           \/ Precedes(u, a, b) \/ Precedes(new, a, b)
           \/ a \in Places!Range(u) /\ b \in Places!Range(new)
  <2>1. /\ GeoList(u) /\ GeoList(new) /\ t2 = u \o new
        /\ Places!Range(u) \cap Places!Range(new) = {}
    BY <1>1, <1>3, <1>4, <1>5
  <2>2. GeoList(t2)
    BY <2>1, GeoConcat
  <2>3. \A x : x \in Places!Range(t2) <=> x \in Places!Range(u) \/ x \in Places!Range(new)
    BY <2>1, GeoConcat
  <2>4. ASSUME NEW a, NEW b
        PROVE  Precedes(t2, a, b) <=>
                 \/ Precedes(u, a, b) \/ Precedes(new, a, b)
                 \/ a \in Places!Range(u) /\ b \in Places!Range(new)
    BY <2>1, GeoConcatPair
  <2> QED  BY <2>2, <2>3, <2>4
<1>8. \A x \in Places!Range(s2) : x \in Places!Range(t2)
  BY <1>3, <1>6, <1>7 DEF GeoOrder
<1>9. ASSUME NEW a, NEW b, Precedes(s, a, b)
      PROVE  a \in Places!Range(s) /\ b \in Places!Range(s)
  <2>1. PICK i \in 1..Len(s), j \in 1..Len(s) : s[i] = a /\ s[j] = b
    BY <1>9 DEF Precedes
  <2> QED  BY <2>1, InSeq DEF GeoList
<1>10. ASSUME NEW a, NEW b, Precedes(s2, a, b) PROVE Precedes(t2, a, b)
  <2>1. CASE Precedes(s, a, b)
    <3>1. Precedes(t, a, b) /\ a \notin Places!Range(new) /\ b \notin Places!Range(new)
      BY <1>1, <1>9, <2>1 DEF GeoOrder
    <3> QED  BY <1>3, <1>7, <3>1
  <2>2. CASE Precedes(new, a, b)
    BY <1>7, <2>2
  <2>3. CASE a \in Places!Range(s) /\ b \in Places!Range(new)
    <3>1. a \in Places!Range(u)
      BY <1>1, <1>3, <2>3 DEF GeoOrder
    <3> QED  BY <1>7, <2>3, <3>1
  <2> QED  BY <1>6, <1>10, <2>1, <2>2, <2>3
<1>11. ASSUME NEW x \in Places!Range(t2), x \notin Places!Range(s2)
       PROVE  /\ x \notin OwnHosts
              /\ \A y \in Places!Range(s2) : y \notin OwnHosts => Precedes(t2, x, y)
  <2>1. /\ x \in Places!Range(u) /\ x \in Places!Range(t) /\ x \notin Places!Range(s)
        /\ x \notin Places!Range(new)
    BY <1>3, <1>6, <1>7, <1>11
  <2>2. x \notin OwnHosts /\ \A y \in Places!Range(s) : y \notin OwnHosts => Precedes(t, x, y)
    BY <2>1 DEF GeoOrder
  <2>3. ASSUME NEW y \in Places!Range(s2), y \notin OwnHosts PROVE Precedes(t2, x, y)
    <3>1. CASE y \in Places!Range(new)
      BY <1>7, <2>1, <3>1
    <3>2. CASE y \notin Places!Range(new)
      <4>1. y \in Places!Range(s) /\ Precedes(t, x, y)
        BY <1>6, <2>2, <2>3, <3>2
      <4> QED  BY <1>3, <1>7, <2>1, <3>2, <4>1
    <3> QED  BY <3>1, <3>2
  <2> QED  BY <2>2, <2>3
<1> QED  BY <1>6, <1>7, <1>8, <1>10, <1>11 DEF GeoOrder

\* The map is trimmed.
LEMMA GeoOrderTrim ==
    ASSUME NEW s, NEW t, GeoList(s), GeoList(t), GeoOrder(s, t), NEW s2, s2 = Places!TrimCache(s)
    PROVE  GeoList(s2) /\ GeoOrder(s2, t) /\ Len(s2) <= GeoCap
<1>1. /\ s2 \in Seq(GeoKeys) /\ Distinct(s2) /\ Len(s2) <= GeoCap
      /\ \A x \in Places!Range(s2) : x \in Places!Range(s)
      /\ \A a, b : Precedes(s2, a, b) => Precedes(s, a, b)
      /\ \A x \in Places!Range(s) : x \notin Places!Range(s2) =>
           /\ x \notin OwnHosts
           /\ \A y \in Places!Range(s2) : y \notin OwnHosts => Precedes(s, x, y)
  BY TrimIs DEF GeoList
<1>2. ASSUME NEW x \in Places!Range(t), x \notin Places!Range(s2)
      PROVE  /\ x \notin OwnHosts
             /\ \A y \in Places!Range(s2) : y \notin OwnHosts => Precedes(t, x, y)
  <2>1. CASE x \in Places!Range(s)
    BY <1>1, <1>2, <2>1 DEF GeoOrder
  <2>2. CASE x \notin Places!Range(s)
    BY <1>1, <1>2, <2>2 DEF GeoOrder
  <2> QED  BY <2>1, <2>2
<1> QED  BY <1>1, <1>2 DEF GeoList, GeoOrder

-----------------------------------------------------------------------------
\* What the invariant promises.
LEMMA GeoHolds ==
    GeoInv => Places!CapDropsOldest /\ Places!HostsStay /\ Places!CrashCostsAMinute
<1> SUFFICES ASSUME GeoInv
             PROVE  Places!CapDropsOldest /\ Places!HostsStay /\ Places!CrashCostsAMinute
  OBVIOUS
<1>1. Places!HostsStay
  BY DEF GeoInv, GeoOrder, Places!HostsStay, Places!Known
<1>2. Places!CrashCostsAMinute
  <2>1. v1 \in Nat /\ GeoDelay \in Nat /\ (v9 # None => v9 \in Nat /\ v4 \in Nat
        /\ v1 <= v4 /\ v4 <= v9 + GeoDelay)
    BY GeoAssumption DEF GeoInv, GeoTimed
  <2> QED  BY <2>1 DEF Places!CrashCostsAMinute
<1>3. ASSUME NEW i \in 1..Len(v8), NEW j \in 1..Len(v8), v8[i] \notin Places!Range(v3),
             v8[j] \in Places!Range(v3), v8[j] \notin OwnHosts
      PROVE  i < j
  <2>1. v8[i] \in Places!Range(v8)
    BY InSeq DEF GeoInv, GeoList
  <2>2. Precedes(v8, v8[i], v8[j])
    BY <1>3, <2>1 DEF GeoInv, GeoOrder
  <2>3. PICK k \in 1..Len(v8), l \in 1..Len(v8) : k < l /\ v8[k] = v8[i] /\ v8[l] = v8[j]
    BY <2>2 DEF Precedes
  <2>4. k = i /\ l = j
    BY <2>3 DEF GeoInv, GeoList, Distinct
  <2> QED  BY <2>3, <2>4
<1>4. Places!CapDropsOldest
  BY <1>3 DEF Places!CapDropsOldest, Places!Known, GeoInv
<1> QED  BY <1>1, <1>2, <1>4

\* A program that starts, with what was stored or nothing.
LEMMA GeoStart == Places!Init => GeoInv
<1> SUFFICES ASSUME Places!Init PROVE GeoInv
  OBVIOUS
<1>1. GeoList(v6) /\ Len(v6) <= GeoCap
  <2>1. CASE v6 = <<>>
    BY <2>1, GeoAssumption DEF GeoList, Distinct
  <2>2. ASSUME v6 \in [1..GeoCap -> PeerIps], Places!IsInjective(v6)
        PROVE  GeoList(v6) /\ Len(v6) <= GeoCap
    <3>1. v6 \in Seq(PeerIps) /\ Len(v6) = GeoCap
      BY <2>2, GeoAssumption
    <3>2. v6 \in Seq(GeoKeys)
      BY <3>1 DEF GeoKeys
    <3>3. Distinct(v6)
      BY <2>2, <3>1 DEF Distinct, Places!IsInjective
    <3> QED  BY <3>1, <3>2, <3>3, GeoAssumption DEF GeoList
  <2> QED  BY <2>1, <2>2 DEF Places!Init
<1>2. v3 = v6 /\ v8 = v6 /\ v5 = {} /\ v1 = 0 /\ v4 = None /\ v9 = None
  BY DEF Places!Init
<1> QED  BY <1>1, <1>2, GeoOrderFirst DEF GeoInv, GeoTimed

\* The clock and the timer stand still, or the timer is started.
LEMMA GeoTimedSame == ASSUME GeoTimed, UNCHANGED <<v1, v4, v9>> PROVE GeoTimed'
BY DEF GeoTimed

\* The map is trimmed and written.
LEMMA GeoWrites == ASSUME GeoInv, Places!WriteCache PROVE GeoInv'
<1>1. /\ v3' = Places!TrimCache(v3) /\ v6' \in {v6, v3'} /\ v4' = None /\ v9' = None
      /\ UNCHANGED <<v1, v5, v8>>
  BY DEF Places!WriteCache
<1>2. GeoList(v3') /\ GeoOrder(v3', v8) /\ Len(v3') <= GeoCap
  BY <1>1, GeoOrderTrim DEF GeoInv
<1>3. GeoTimed'
  BY <1>1 DEF GeoInv, GeoTimed
<1> QED  BY <1>1, <1>2, <1>3 DEF GeoInv

\* A request is sent, or answered with nothing.
LEMMA GeoAsks ==
    ASSUME GeoInv, \A c \in v5' : c \in v5 \/ GeoList(c.ask), UNCHANGED <<v1, v3, v4, v6, v8, v9>>
    PROVE  GeoInv'
<1>1. \A c \in v5' : GeoList(c.ask)
  BY DEF GeoInv
<1>2. GeoTimed'
  BY GeoTimedSame DEF GeoInv
<1> QED  BY <1>1, <1>2 DEF GeoInv

\* A peer is looked up, or waits for its turn.
LEMMA GeoLooksUp ==
    ASSUME GeoInv, Places!LookupGeoBatch \/ (\E h \in OwnHosts : Places!GetOwnLocation(h))
    PROVE  GeoInv'
<1>1. CASE Places!LookupGeoBatch
  <2>1. PICK p \in SUBSET (PeerIps \cup LocalIps) :
          LET need == {ip \in p : ~Places!Known(ip) /\ ip \notin LocalIps} IN
          /\ \E n \in {GeoBatch, Places!Cardinality(need)} :
               \E ask \in [1..n -> need] :
                 /\ Places!IsInjective(ask)
                 /\ v5' = v5 \cup {[kind |-> "batch", ask |-> ask]}
          /\ UNCHANGED <<v1, v3, v4, v6, v8, v9>>
    BY <1>1 DEF Places!LookupGeoBatch
  <2>2. PICK need \in SUBSET PeerIps :
          need = {ip \in p : ~Places!Known(ip) /\ ip \notin LocalIps}
    OBVIOUS
  <2>3. PICK n \in {GeoBatch, Cardinality(need)} : \E ask \in [1..n -> need] :
          Places!IsInjective(ask) /\ v5' = v5 \cup {[kind |-> "batch", ask |-> ask]}
    BY <2>1, <2>2, PlacesCount
  <2>4. PICK ask \in [1..n -> need] :
          Places!IsInjective(ask) /\ v5' = v5 \cup {[kind |-> "batch", ask |-> ask]}
    BY <2>3
  <2>5. n \in Nat
    BY GeoAssumption, FS_Subset, FS_CardinalityType
  <2>6. ask \in Seq(need) /\ Len(ask) = n
    BY <2>5
  <2>7. ask \in Seq(GeoKeys)
    BY <2>2, <2>6 DEF GeoKeys
  <2>8. GeoList(ask)
    BY <2>4, <2>6, <2>7 DEF GeoList, Distinct, Places!IsInjective
  <2> QED  BY <2>1, <2>4, <2>8, GeoAsks
<1>2. ASSUME NEW h \in OwnHosts, Places!GetOwnLocation(h) PROVE GeoInv'
  <2>1. /\ v5' = v5 \cup {[kind |-> "own", ask |-> <<h, HostIp[h]>>]}
        /\ UNCHANGED <<v1, v3, v4, v6, v8, v9>>
    BY <1>2 DEF Places!GetOwnLocation
  <2>2. h \in GeoKeys /\ HostIp[h] \in GeoKeys /\ h # HostIp[h]
    BY GeoAssumption DEF GeoKeys
  <2>3. GeoList(<<h, HostIp[h]>>)
    <3>1. PICK x \in GeoKeys, y \in GeoKeys : x = h /\ y = HostIp[h] /\ x # y
      BY <2>2
    <3>2. <<x, y>> \in Seq(GeoKeys) /\ Distinct(<<x, y>>)
      BY <3>1 DEF Distinct
    <3> QED  BY <3>1, <3>2 DEF GeoList
  <2> QED  BY <2>1, <2>3, GeoAsks
<1> QED  BY <1>1, <1>2

\* A hit while a map is painted.
LEMMA GeoHits == ASSUME GeoInv, NEW ip \in PeerIps, Places!GetCachedGeo(ip) PROVE GeoInv'
<1>1. /\ ip \in Places!Range(v3)
      /\ v3' = Places!ToEnd(v3, ip) /\ v8' = Places!ToEnd(v8, ip)
      /\ UNCHANGED <<v1, v4, v5, v6, v9>>
  BY DEF Places!GetCachedGeo, Places!Known
<1>2. GeoList(v3') /\ GeoList(v8') /\ GeoOrder(v3', v8')
  BY <1>1, GeoOrderUse DEF GeoInv
<1>3. GeoTimed'
  BY <1>1, GeoTimedSame DEF GeoInv
<1> QED  BY <1>1, <1>2, <1>3 DEF GeoInv

\* An answer is cached.
LEMMA GeoAnswers == ASSUME GeoInv, NEW c, Places!Answer(c) PROVE GeoInv'
<1>1. PICK found :
        /\ c \in v5 /\ v5' = v5 \ {c}
        /\ Places!Learn(Places!Without(c.ask, Places!Range(c.ask) \ found))
  BY DEF Places!Answer
<1>2. PICK ks : ks = Places!Without(c.ask, Places!Range(c.ask) \ found)
  OBVIOUS
<1>3. GeoList(ks)
  <2>1. GeoList(c.ask)
    BY <1>1 DEF GeoInv
  <2> QED  BY <1>2, <2>1, WithoutIs DEF GeoList
<1>4. PICK new : new = Places!Without(ks, Places!Range(v3))
  OBVIOUS
<1>5. /\ v3' = Places!Put(v3, ks)
      /\ v8' = Places!Without(v8, Places!Range(new)) \o new
      /\ v4' = (IF v4 = None THEN v1 + GeoDelay ELSE v4)
      /\ v9' = (IF v9 = None /\ new # <<>> THEN v1 ELSE v9)
      /\ UNCHANGED <<v1, v6>>
  BY <1>1, <1>2, <1>4 DEF Places!Learn
<1>6. GeoList(v3') /\ GeoList(v8') /\ GeoOrder(v3', v8')
  BY <1>3, <1>4, <1>5, GeoOrderLearn DEF GeoInv
<1>7. GeoTimed'
  <2>1. GeoTimed /\ GeoDelay \in Nat /\ None \notin Nat
    BY GeoAssumption DEF GeoInv
  <2>2. CASE v4 = None
    BY <1>5, <2>1, <2>2 DEF GeoTimed
  <2>3. CASE v4 # None
    BY <1>5, <2>1, <2>3 DEF GeoTimed
  <2> QED  BY <2>2, <2>3
<1> QED  BY <1>1, <1>5, <1>6, <1>7 DEF GeoInv

\* The program is closed, or dies, and starts again with what is stored.
LEMMA GeoLoads ==
    ASSUME GeoInv, NEW saved, saved = v6 \/ saved = Places!TrimCache(v3), Places!LoadCache(saved)
    PROVE  GeoInv'
<1>1. GeoList(saved) /\ Len(saved) <= GeoCap
  BY GeoOrderTrim DEF GeoInv
<1>2. v3' = saved /\ v6' = saved /\ v8' = saved /\ v5' = {} /\ v4' = None /\ v9' = None /\ v1' = v1
  BY DEF Places!LoadCache
<1>3. GeoTimed'
  BY <1>2 DEF GeoInv, GeoTimed
<1> QED  BY <1>1, <1>2, <1>3, GeoOrderFirst DEF GeoInv

\* The mode flips, or the program is closed or dies.
LEMMA GeoDisturbed == ASSUME GeoInv, Places!Disturbance PROVE GeoInv'
<1>1. CASE Places!LoadCache(Places!Flushed) \/ Places!LoadCache(v6)
  BY <1>1, GeoLoads DEF Places!Flushed
<1>2. CASE UNCHANGED <<v1, v3, v4, v5, v6, v8, v9>>
  BY <1>2, GeoAsks
<1> QED  BY <1>1, <1>2 DEF Places!Disturbance

\* Time passes, up to the timer.
LEMMA GeoTicks == ASSUME GeoInv, Places!Tick PROVE GeoInv'
<1>1. v1' = v1 + 1 /\ (v4 # None => v1 < v4) /\ UNCHANGED <<v3, v4, v5, v6, v8, v9>>
  BY DEF Places!Tick
<1>2. GeoTimed'
  BY <1>1, GeoAssumption DEF GeoInv, GeoTimed
<1> QED  BY <1>1, <1>2 DEF GeoInv

\* Every step.
LEMMA GeoNext == ASSUME GeoInv, Places!Next PROVE GeoInv'
<1>1. CASE Places!SaveTimerFires \/ Places!Hide
  BY <1>1, GeoWrites DEF Places!SaveTimerFires, Places!Hide
<1>2. CASE Places!BackToLive \/ \E c \in v5 : Places!NoAnswer(c)
  <2>1. (\A c \in v5' : c \in v5) /\ UNCHANGED <<v1, v3, v4, v6, v8, v9>>
    BY <1>2 DEF Places!BackToLive, Places!NoAnswer
  <2> QED  BY <2>1, GeoAsks
<1> QED  BY <1>1, <1>2, GeoLooksUp, GeoHits, GeoAnswers, GeoDisturbed, GeoTicks DEF Places!Next

-----------------------------------------------------------------------------
(* The marks of the mempool (MempoolPeaks).                                *)

PeakTop == Peaks!R2(PeakClamp)
IsReading(s) == s.t \in Nat /\ s.q \in 0..PeakClamp

\* Marks of some readings: one for each minute or bucket it has.
IsMark(p) ==
    /\ p # <<>> /\ p.all \in 0..PeakClamp /\ p.at \in Nat
    /\ \A k \in DOMAIN p.m : k \in Nat /\ p.m[k] \in 0..PeakTop
    /\ \A k \in DOMAIN p.b : k \in Nat /\ p.b[k] \in 0..PeakTop
Highest(p, S) ==
    /\ S = {} => p.all = 0
    /\ S # {} => [t |-> p.at, q |-> p.all] \in S
    /\ \A s \in S : s.q <= p.all
Marked(p, s) ==
    \/ Peaks!At(p.m, Peaks!MinuteOf(s.t)) >= Peaks!R2(s.q)
    \/ Peaks!At(p.b, Peaks!MinuteOf(s.t) \div PeakBucket) >= Peaks!R2(s.q)
MarksAll(p, S, T) == \A s \in S : Peaks!MinuteOf(s.t) >= Peaks!MinuteOf(T) - PeakDay => Marked(p, s)
MarksOnly(p, S) ==
    /\ \A k \in DOMAIN p.m : \E s \in S : Peaks!MinuteOf(s.t) = k /\ p.m[k] <= Peaks!R2(s.q)
    /\ \A k \in DOMAIN p.b :
         \E s \in S : Peaks!MinuteOf(s.t) \div PeakBucket = k /\ p.b[k] <= Peaks!R2(s.q)
PeaksOf(p, S, T) == IsMark(p) /\ Highest(p, S) /\ MarksAll(p, S, T) /\ MarksOnly(p, S)

Saved(p, s, T) ==
    /\ p # <<>> /\ p.all >= s.q
    /\ Peaks!MinuteOf(s.t) >= Peaks!MinuteOf(T) - PeakDay => Marked(p, s)

PeaksTyped ==
    /\ v1 \in Nat /\ v1 >= PeakStart /\ {v3, v5, v9, v13} \subseteq BOOLEAN
    /\ v6 \in Int /\ v6 <= v1 /\ v12 \in Nat
    /\ \A s \in v10 \cup v11 : IsReading(s)
    /\ v8 \in OldPeaks \cup {<<>>}
PeaksStored ==
    /\ v7 # <<>> => PeaksOf(v7, v11, v1)
    /\ v7 = <<>> => v11 = Peaks!OldReadings(v8)
PeaksLoaded ==
    /\ v3 => PeaksOf(v4, v10, v1)
    /\ ~v3 => v10 = v11 /\ ~v5
PeaksSaved ==
    v3 /\ ~v13 =>
        /\ v5 => v12 - v6 < PeakMinute
        /\ v8 = <<>> => \A s \in v10 : Saved(v7, s, v1) \/ (v5 /\ s.t > v6)
PeaksInv == PeaksTyped /\ PeaksStored /\ PeaksLoaded /\ PeaksSaved

\* A bounded set of numbers has a largest.
LEMMA LargestIs ==
    ASSUME NEW B \in Nat, NEW S, S \subseteq 0..B, S # {}
    PROVE  Peaks!Max(S) \in S /\ \A x \in S : Peaks!Max(S) >= x
<1> DEFINE U == {B - x : x \in S}
<1>1. \A x \in S : x \in Int /\ 0 <= x /\ x <= B
  OBVIOUS
<1>2. U \subseteq Nat /\ U # {}
  <2>1. \A x \in S : B - x \in Nat
    BY <1>1
  <2>2. \A u \in U : \E x \in S : u = B - x
    OBVIOUS
  <2>3. \A u \in U : u \in Nat
    BY <2>1, <2>2
  <2>4. PICK x : x \in S
    OBVIOUS
  <2>5. B - x \in U
    BY <2>4
  <2> QED  BY <2>3, <2>5
<1>3. PICK n \in U : \A m \in U : n <= m
  BY <1>2, Least
<1>4. PICK y \in S : n = B - y
  BY <1>3
<1>5. ASSUME NEW x \in S PROVE y >= x
  <2>1. B - x \in U
    OBVIOUS
  <2>2. n <= B - x
    BY <1>3, <2>1
  <2> QED  BY <1>1, <1>4, <2>2
<1>6. \E m \in S : \A x \in S : m >= x
  BY <1>5
<1> HIDE DEF U
<1> QED  BY <1>6, Zenon DEF Peaks!Max

LEMMA LargestOf ==
    ASSUME NEW B \in Nat, NEW S, S \subseteq 0..B
    PROVE  /\ Peaks!Largest(S) \in 0..B
           /\ \A x \in S : Peaks!Largest(S) >= x
           /\ S # {} => Peaks!Largest(S) \in S
           /\ S = {} => Peaks!Largest(S) = 0
<1>1. CASE S = {}
  BY <1>1 DEF Peaks!Largest
<1>2. CASE S # {}
  <2>1. Peaks!Largest(S) = Peaks!Max(S)
    BY <1>2 DEF Peaks!Largest
  <2>2. Peaks!Max(S) \in S /\ \A x \in S : Peaks!Max(S) >= x
    BY <1>2, LargestIs
  <2> QED  BY <1>2, <2>1, <2>2
<1> QED  BY <1>1, <1>2

\* Rounding is up, and the second time nothing.
LEMMA Rounded ==
    ASSUME NEW v \in Nat
    PROVE  /\ Peaks!R2(v) \in Nat /\ Peaks!R2(v) >= v /\ Peaks!R2(Peaks!R2(v)) = Peaks!R2(v)
           /\ v > 0 => Peaks!R2(v) > 0
           /\ \A w \in Nat : v <= w => Peaks!R2(v) <= Peaks!R2(w)
BY DEF Peaks!R2

LEMMA InMinute ==
    ASSUME NEW t \in Int
    PROVE  /\ Peaks!MinuteOf(t) \in Int
           /\ t >= 0 => Peaks!MinuteOf(t) \in Nat
           /\ \A u \in Int : t <= u => Peaks!MinuteOf(t) <= Peaks!MinuteOf(u)
           /\ Peaks!MinuteOf(t * PeakMinute) = t
BY PeakAssumption DEF Peaks!MinuteOf

LEMMA InBucket ==
    ASSUME NEW k \in Int
    PROVE  /\ k \div PeakBucket \in Int
           /\ k >= 0 => k \div PeakBucket \in Nat
           /\ Peaks!LastMinute(k \div PeakBucket) \in Int
           /\ Peaks!LastMinute(k \div PeakBucket) >= k
           /\ Peaks!LastMinute(k \div PeakBucket) <= k + PeakBucket - 1
BY PeakAssumption DEF Peaks!LastMinute

LEMMA AtIs ==
    ASSUME NEW f, NEW k
    PROVE  (k \in DOMAIN f => Peaks!At(f, k) = f[k]) /\ (k \notin DOMAIN f => Peaks!At(f, k) = 0)
BY DEF Peaks!At

LEMMA ReadingIs ==
    ASSUME NEW s, IsReading(s)
    PROVE  /\ s.t \in Nat /\ s.q \in Nat /\ s.q <= PeakClamp
           /\ Peaks!MinuteOf(s.t) \in Nat /\ Peaks!MinuteOf(s.t) \div PeakBucket \in Nat
           /\ Peaks!R2(s.q) \in 0..PeakTop
<1>1. s.t \in Nat /\ s.q \in Nat /\ s.q <= PeakClamp /\ PeakClamp \in Nat
  BY PeakAssumption DEF IsReading
<1>2. Peaks!R2(s.q) \in Nat /\ PeakTop \in Nat /\ Peaks!R2(s.q) <= PeakTop
  BY <1>1, Rounded DEF PeakTop
<1>3. Peaks!MinuteOf(s.t) \in Nat
  BY <1>1, InMinute
<1>4. Peaks!MinuteOf(s.t) \div PeakBucket \in Nat
  BY <1>3, InBucket
<1> QED  BY <1>1, <1>2, <1>3, <1>4

\* compactPeaks keeps the minutes of the last hour, folds older ones upward into their
\* bucket, and drops what ended before the day.
LEMMA Folded ==
    ASSUME NEW p, IsMark(p), NEW T \in Nat, NEW c, c = Peaks!CompactPeaks(p, T),
           NEW hour, hour = Peaks!MinuteOf(T) - PeakHour,
           NEW day, day = Peaks!MinuteOf(T) - PeakDay
    PROVE  /\ c # <<>> /\ c.all = p.all /\ c.at = p.at
           /\ \A k : k \in DOMAIN c.m <=> (k \in DOMAIN p.m /\ k >= hour)
           /\ \A k \in DOMAIN c.m : c.m[k] = p.m[k]
           /\ \A k \in DOMAIN p.m :
                k < hour /\ k >= day => k \div PeakBucket \in DOMAIN c.b /\ c.b[k \div PeakBucket] >= p.m[k]
           /\ \A k \in DOMAIN p.b :
                Peaks!LastMinute(k) >= day => k \in DOMAIN c.b /\ c.b[k] >= p.b[k]
           /\ \A k \in DOMAIN c.b :
                \/ k \in DOMAIN p.b /\ c.b[k] = p.b[k]
                \/ \E j \in DOMAIN p.m :
                     j \div PeakBucket = k /\ c.b[k] \in 0..PeakTop /\ c.b[k] <= Peaks!R2(p.m[j])
<1> DEFINE F == {k \in DOMAIN p.m : k < hour /\ k >= day}
           D == {k \in DOMAIN p.b \cup {j \div PeakBucket : j \in F} : Peaks!LastMinute(k) >= day}
           V(k) == {Peaks!At(p.b, k)} \cup
                   {Peaks!R2(p.m[j]) : j \in {i \in F : i \div PeakBucket = k}}
<1>0. hour \in Int /\ day \in Int /\ PeakTop \in Nat /\ PeakClamp \in Nat
  <2>1. PeakClamp \in Nat /\ PeakHour \in Nat /\ PeakDay \in Nat
    BY PeakAssumption
  <2>2. Peaks!MinuteOf(T) \in Int
    BY InMinute
  <2>3. PeakTop \in Nat
    BY <2>1, Rounded DEF PeakTop
  <2> QED  BY <2>1, <2>2, <2>3
<1>1. c = [all |-> p.all, at |-> p.at,
           m |-> Peaks!Restrict(p.m, {k \in DOMAIN p.m : k >= hour}),
           b |-> [k \in D |-> Peaks!Max(V(k))]]
  BY DEF Peaks!CompactPeaks
<1>2. /\ c # <<>> /\ c.all = p.all /\ c.at = p.at
      /\ c.m = [k \in {j \in DOMAIN p.m : j >= hour} |-> p.m[k]]
      /\ c.b = [k \in D |-> Peaks!Max(V(k))]
  BY <1>1 DEF Peaks!Restrict
<1>3. DOMAIN c.b = D /\ \A k \in D : c.b[k] = Peaks!Max(V(k))
  BY <1>2
<1>4. ASSUME NEW j \in DOMAIN p.m
      PROVE  /\ j \in Nat /\ p.m[j] \in Nat /\ Peaks!R2(p.m[j]) \in 0..PeakTop
             /\ Peaks!R2(p.m[j]) >= p.m[j]
  <2>1. j \in Nat /\ p.m[j] \in Nat /\ p.m[j] <= PeakTop
    BY <1>0 DEF IsMark
  <2>2. Peaks!R2(p.m[j]) \in Nat /\ Peaks!R2(p.m[j]) >= p.m[j]
        /\ Peaks!R2(p.m[j]) <= Peaks!R2(PeakTop)
    BY <1>0, <2>1, Rounded
  <2>3. Peaks!R2(PeakTop) = PeakTop
    BY <1>0, Rounded DEF PeakTop
  <2> QED  BY <1>0, <2>1, <2>2, <2>3
<1>5. ASSUME NEW k PROVE Peaks!At(p.b, k) \in 0..PeakTop
  BY <1>0 DEF IsMark, Peaks!At
<1>6. ASSUME NEW k PROVE V(k) \subseteq 0..PeakTop /\ V(k) # {}
  BY <1>4, <1>5
<1>7. ASSUME NEW k \in D
      PROVE c.b[k] \in V(k) /\ c.b[k] \in 0..PeakTop /\ \A x \in V(k) : c.b[k] >= x
  <2> HIDE DEF V
  <2>1. Peaks!Max(V(k)) \in V(k) /\ \A x \in V(k) : Peaks!Max(V(k)) >= x
    BY <1>0, <1>6, LargestIs
  <2> QED  BY <1>3, <1>6, <2>1
<1>8. \A k : k \in DOMAIN c.m <=> (k \in DOMAIN p.m /\ k >= hour)
  BY <1>2
<1>9. \A k \in DOMAIN c.m : c.m[k] = p.m[k]
  BY <1>2
<1>10. ASSUME NEW k \in DOMAIN p.m, k < hour, k >= day
       PROVE  k \div PeakBucket \in DOMAIN c.b /\ c.b[k \div PeakBucket] >= p.m[k]
  <2>1. Peaks!LastMinute(k \div PeakBucket) >= day
    BY <1>0, <1>4, <1>10, InBucket
  <2>2. k \in F /\ k \div PeakBucket \in D
    BY <1>10, <2>1
  <2>3. Peaks!R2(p.m[k]) \in V(k \div PeakBucket)
    BY <2>2
  <2>4. c.b[k \div PeakBucket] >= Peaks!R2(p.m[k]) /\ c.b[k \div PeakBucket] \in 0..PeakTop
    BY <1>7, <2>2, <2>3
  <2> QED  BY <1>0, <1>3, <1>4, <2>2, <2>4
<1>11. ASSUME NEW k \in DOMAIN p.b, Peaks!LastMinute(k) >= day
       PROVE  k \in DOMAIN c.b /\ c.b[k] >= p.b[k]
  <2>1. k \in D /\ p.b[k] \in V(k)
    BY <1>11 DEF Peaks!At
  <2> QED  BY <1>3, <1>7, <2>1
<1>12. ASSUME NEW k \in DOMAIN c.b, ~ (k \in DOMAIN p.b /\ c.b[k] = p.b[k])
       PROVE  \E j \in DOMAIN p.m :
                j \div PeakBucket = k /\ c.b[k] \in 0..PeakTop /\ c.b[k] <= Peaks!R2(p.m[j])
  <2>1. k \in D /\ c.b[k] \in V(k) /\ c.b[k] \in 0..PeakTop
    BY <1>3, <1>7
  <2>2. CASE c.b[k] = Peaks!At(p.b, k)
    <3>1. k \notin DOMAIN p.b /\ c.b[k] = 0
      BY <1>12, <2>2 DEF Peaks!At
    <3>2. PICK j \in F : j \div PeakBucket = k
      BY <2>1, <3>1
    <3> QED  BY <1>0, <1>4, <2>1, <3>1, <3>2
  <2>3. CASE c.b[k] # Peaks!At(p.b, k)
    <3>1. PICK j \in F : j \div PeakBucket = k /\ c.b[k] = Peaks!R2(p.m[j])
      BY <2>1, <2>3
    <3> QED  BY <1>0, <1>4, <2>1, <3>1
  <2> QED  BY <2>2, <2>3
<1> HIDE DEF F, D, V
<1> QED  BY <1>2, <1>8, <1>9, <1>10, <1>11, <1>12

\* What holds of marks holds of them later.
LEMMA MarksLast ==
    ASSUME NEW p, NEW S, NEW T \in Nat, NEW U \in Nat, T <= U,
           \A s \in S : IsReading(s), PeaksOf(p, S, T)
    PROVE  PeaksOf(p, S, U)
<1>1. Peaks!MinuteOf(T) \in Int /\ Peaks!MinuteOf(U) \in Int /\ PeakDay \in Nat
      /\ Peaks!MinuteOf(T) <= Peaks!MinuteOf(U)
  BY InMinute, PeakAssumption
<1>2. ASSUME NEW s \in S, Peaks!MinuteOf(s.t) >= Peaks!MinuteOf(U) - PeakDay PROVE Marked(p, s)
  <2>1. Peaks!MinuteOf(s.t) \in Nat
    BY ReadingIs
  <2> QED  BY <1>1, <1>2, <2>1 DEF PeaksOf, MarksAll
<1> QED  BY <1>2 DEF PeaksOf, MarksAll

LEMMA Compacted ==
    ASSUME NEW p, NEW S, NEW T \in Nat, \A s \in S : IsReading(s), PeaksOf(p, S, T),
           NEW c, c = Peaks!CompactPeaks(p, T)
    PROVE  /\ PeaksOf(c, S, T) /\ c.all = p.all
           /\ \A k : Peaks!At(c.m, k) <= Peaks!At(p.m, k)
<1> DEFINE hour == Peaks!MinuteOf(T) - PeakHour
           day == Peaks!MinuteOf(T) - PeakDay
<1>0. hour \in Int /\ day \in Int /\ PeakTop \in Nat
  <2>1. PeakClamp \in Nat /\ PeakHour \in Nat /\ PeakDay \in Nat
    BY PeakAssumption
  <2>2. Peaks!MinuteOf(T) \in Int
    BY InMinute
  <2>3. PeakTop \in Nat
    BY <2>1, Rounded DEF PeakTop
  <2> QED  BY <2>1, <2>2, <2>3
<1>1. IsMark(p) /\ Highest(p, S) /\ MarksAll(p, S, T) /\ MarksOnly(p, S)
  BY DEF PeaksOf
<1>2. /\ c # <<>> /\ c.all = p.all /\ c.at = p.at
      /\ \A k : k \in DOMAIN c.m <=> (k \in DOMAIN p.m /\ k >= hour)
      /\ \A k \in DOMAIN c.m : c.m[k] = p.m[k]
      /\ \A k \in DOMAIN p.m :
           k < hour /\ k >= day => k \div PeakBucket \in DOMAIN c.b /\ c.b[k \div PeakBucket] >= p.m[k]
      /\ \A k \in DOMAIN p.b :
           Peaks!LastMinute(k) >= day => k \in DOMAIN c.b /\ c.b[k] >= p.b[k]
      /\ \A k \in DOMAIN c.b :
           \/ k \in DOMAIN p.b /\ c.b[k] = p.b[k]
           \/ \E j \in DOMAIN p.m :
                j \div PeakBucket = k /\ c.b[k] \in 0..PeakTop /\ c.b[k] <= Peaks!R2(p.m[j])
  BY <1>1, Folded
<1> HIDE DEF hour, day
<1>3. \A k \in DOMAIN p.m : k \in Nat /\ p.m[k] \in 0..PeakTop
  BY <1>1 DEF IsMark
<1>4. \A k \in DOMAIN p.b : k \in Nat /\ p.b[k] \in 0..PeakTop
  BY <1>1 DEF IsMark
<1>5. \A k \in DOMAIN c.b : k \in Nat /\ c.b[k] \in 0..PeakTop
  <2> SUFFICES ASSUME NEW k \in DOMAIN c.b PROVE k \in Nat /\ c.b[k] \in 0..PeakTop
    OBVIOUS
  <2>1. CASE k \in DOMAIN p.b /\ c.b[k] = p.b[k]
    BY <1>4, <2>1
  <2>2. CASE \E j \in DOMAIN p.m : j \div PeakBucket = k /\ c.b[k] \in 0..PeakTop
    <3>1. PICK j \in DOMAIN p.m : j \div PeakBucket = k
      BY <2>2
    <3> QED  BY <1>3, <2>2, <3>1, InBucket
  <2> QED  BY <1>2, <2>1, <2>2
<1>6. IsMark(c)
  BY <1>1, <1>2, <1>3, <1>5 DEF IsMark
<1>7. Highest(c, S)
  BY <1>1, <1>2 DEF Highest
<1>8. ASSUME NEW s \in S, Peaks!MinuteOf(s.t) >= Peaks!MinuteOf(T) - PeakDay PROVE Marked(c, s)
  <2> DEFINE k == Peaks!MinuteOf(s.t)
             b == k \div PeakBucket
  <2>1. /\ k \in Nat /\ b \in Nat /\ Peaks!R2(s.q) \in Nat
        /\ Peaks!LastMinute(b) \in Int /\ Peaks!LastMinute(b) >= k
    BY <1>0, ReadingIs, InBucket
  <2>2. k >= day
    BY <1>8 DEF day
  <2>3. Peaks!At(p.m, k) >= Peaks!R2(s.q) \/ Peaks!At(p.b, b) >= Peaks!R2(s.q)
    BY <1>1, <1>8 DEF MarksAll, Marked
  <2>4. Marked(c, s) <=> Peaks!At(c.m, k) >= Peaks!R2(s.q) \/ Peaks!At(c.b, b) >= Peaks!R2(s.q)
    BY DEF Marked
  <2>5. k \in DOMAIN c.m => Peaks!At(c.m, k) = c.m[k]
    BY AtIs
  <2>6. b \in DOMAIN c.b => Peaks!At(c.b, b) = c.b[b]
    BY AtIs
  <2>7. \A x : Peaks!At(c.m, x) \in Nat /\ Peaks!At(c.b, x) \in Nat
    BY <1>0, <1>6 DEF IsMark, Peaks!At
  <2> HIDE DEF k, b
  <2>8. CASE Peaks!R2(s.q) = 0
    BY <2>4, <2>7, <2>8
  <2>9. CASE Peaks!R2(s.q) > 0 /\ Peaks!At(p.m, k) >= Peaks!R2(s.q)
    <3>1. k \in DOMAIN p.m /\ p.m[k] >= Peaks!R2(s.q)
      BY <2>1, <2>9 DEF Peaks!At
    <3>2. CASE k >= hour
      BY <1>2, <2>4, <2>5, <3>1, <3>2
    <3>3. CASE k < hour
      <4>1. b \in DOMAIN c.b /\ c.b[b] >= p.m[k]
        BY <1>2, <2>2, <3>1, <3>3 DEF b
      <4> QED  BY <1>3, <1>5, <2>1, <2>4, <2>6, <3>1, <4>1
    <3> QED  BY <1>0, <2>1, <3>2, <3>3
  <2>10. CASE Peaks!R2(s.q) > 0 /\ Peaks!At(p.b, b) >= Peaks!R2(s.q)
    <3>1. b \in DOMAIN p.b /\ p.b[b] >= Peaks!R2(s.q)
      BY <2>1, <2>10 DEF Peaks!At
    <3>2. Peaks!LastMinute(b) >= day
      BY <1>0, <2>1, <2>2
    <3>3. b \in DOMAIN c.b /\ c.b[b] >= p.b[b]
      BY <1>2, <3>1, <3>2
    <3> QED  BY <1>4, <1>5, <2>1, <2>4, <2>6, <3>1, <3>3
  <2> QED  BY <2>1, <2>3, <2>8, <2>9, <2>10
<1>9. MarksAll(c, S, T)
  BY <1>8 DEF MarksAll
<1>10. \A k \in DOMAIN c.m : \E s \in S : Peaks!MinuteOf(s.t) = k /\ c.m[k] <= Peaks!R2(s.q)
  BY <1>1, <1>2 DEF MarksOnly
<1>11. ASSUME NEW k \in DOMAIN c.b
       PROVE  \E s \in S : Peaks!MinuteOf(s.t) \div PeakBucket = k /\ c.b[k] <= Peaks!R2(s.q)
  <2>1. CASE k \in DOMAIN p.b /\ c.b[k] = p.b[k]
    BY <1>1, <2>1 DEF MarksOnly
  <2>2. CASE \E j \in DOMAIN p.m : j \div PeakBucket = k /\ c.b[k] <= Peaks!R2(p.m[j])
    <3>1. PICK j \in DOMAIN p.m : j \div PeakBucket = k /\ c.b[k] <= Peaks!R2(p.m[j])
      BY <2>2
    <3>2. PICK s \in S : Peaks!MinuteOf(s.t) = j /\ p.m[j] <= Peaks!R2(s.q)
      BY <1>1 DEF MarksOnly
    <3>3. s.q \in Nat /\ Peaks!R2(s.q) \in Nat /\ p.m[j] \in Nat /\ c.b[k] \in Nat
      BY <1>0, <1>3, <1>5, ReadingIs
    <3>4. Peaks!R2(p.m[j]) \in Nat /\ Peaks!R2(p.m[j]) <= Peaks!R2(Peaks!R2(s.q))
          /\ Peaks!R2(Peaks!R2(s.q)) = Peaks!R2(s.q)
      BY <3>2, <3>3, Rounded
    <3> QED  BY <3>1, <3>2, <3>3, <3>4
  <2> QED  BY <1>2, <2>1, <2>2
<1>12. MarksOnly(c, S)
  BY <1>10, <1>11 DEF MarksOnly
<1>13. ASSUME NEW k PROVE Peaks!At(c.m, k) <= Peaks!At(p.m, k)
  <2>1. CASE k \in DOMAIN c.m
    BY <1>0, <1>2, <1>3, <2>1, AtIs
  <2>2. CASE k \notin DOMAIN c.m
    BY <1>0, <1>3, <2>2 DEF Peaks!At
  <2> QED  BY <2>1, <2>2
<1> QED  BY <1>2, <1>6, <1>7, <1>9, <1>12, <1>13 DEF PeaksOf

LEMMA NoMarks == ASSUME NEW T PROVE PeaksOf(Peaks!EmptyPeaks, {}, T) /\ Peaks!EmptyPeaks.all = 0
<1>1. /\ Peaks!EmptyPeaks # <<>> /\ Peaks!EmptyPeaks.all = 0 /\ Peaks!EmptyPeaks.at = 0
      /\ DOMAIN Peaks!EmptyPeaks.m = {} /\ DOMAIN Peaks!EmptyPeaks.b = {}
  BY DEF Peaks!EmptyPeaks
<1> QED  BY <1>1, PeakAssumption DEF PeaksOf, IsMark, Highest, MarksAll, MarksOnly

LEMMA RaiseIs ==
    ASSUME NEW f, NEW k, NEW v \in Nat, \A j \in DOMAIN f : f[j] \in Nat,
           NEW g, g = Peaks!Raise(f, k, v)
    PROVE  /\ Peaks!At(g, k) >= v
           /\ \A j : Peaks!At(g, j) >= Peaks!At(f, j)
           /\ \A j \in DOMAIN g : (j \in DOMAIN f /\ g[j] = f[j]) \/ (j = k /\ g[j] = v)
<1>1. \A j : Peaks!At(f, j) \in Nat
  BY DEF Peaks!At
<1>2. CASE v > Peaks!At(f, k)
  <2>1. /\ DOMAIN g = DOMAIN f \cup {k} /\ g[k] = v
        /\ \A j \in DOMAIN f : j # k => g[j] = f[j]
    BY <1>2 DEF Peaks!Raise
  <2>2. Peaks!At(g, k) = v
    BY <2>1 DEF Peaks!At
  <2>3. ASSUME NEW j, j # k PROVE Peaks!At(g, j) = Peaks!At(f, j)
    BY <2>1, <2>3 DEF Peaks!At
  <2>4. ASSUME NEW j PROVE Peaks!At(g, j) >= Peaks!At(f, j)
    BY <1>1, <1>2, <2>2, <2>3
  <2> QED  BY <2>1, <2>2, <2>4
<1>3. CASE ~ (v > Peaks!At(f, k))
  <2>1. g = f
    BY <1>3 DEF Peaks!Raise
  <2> QED  BY <1>1, <1>3, <2>1
<1> QED  BY <1>2, <1>3

\* recordPeak: the reading is marked, and what was marked is.
LEMMA RecordedMarks ==
    ASSUME NEW p, NEW S, NEW T \in Nat, \A s \in S : IsReading(s), PeaksOf(p, S, T),
           NEW q \in 1..PeakClamp, NEW r, r = [t |-> T, q |-> q],
           NEW c, c = Peaks!Recorded(p, q, T)
    PROVE  PeaksOf(c, S \cup {r}, T) /\ IsReading(r)
<1> DEFINE k == Peaks!MinuteOf(T)
           v == Peaks!R2(q)
           m == Peaks!Raise(p.m, k, v)
           all == IF q > p.all THEN q ELSE p.all
           at == IF q > p.all THEN T ELSE p.at
           p1 == [all |-> all, at |-> at, m |-> m, b |-> p.b]
<1>0. PeakClamp \in Nat /\ q \in Nat /\ q <= PeakClamp
  BY PeakAssumption
<1>1. r.t = T /\ r.q = q /\ IsReading(r)
  BY <1>0 DEF IsReading
<1>2. k \in Nat /\ v \in 0..PeakTop /\ PeakTop \in Nat
  <2>1. v \in Nat /\ PeakTop \in Nat /\ v <= PeakTop
    BY <1>0, Rounded DEF PeakTop
  <2> QED  BY <2>1, InMinute
<1>3. IsMark(p) /\ Highest(p, S) /\ MarksAll(p, S, T) /\ MarksOnly(p, S)
  BY DEF PeaksOf
<1>4. \A j \in DOMAIN p.m : j \in Nat /\ p.m[j] \in 0..PeakTop
  BY <1>3 DEF IsMark
<1>5. /\ Peaks!At(m, k) >= v
      /\ \A j : Peaks!At(m, j) >= Peaks!At(p.m, j)
      /\ \A j \in DOMAIN m : (j \in DOMAIN p.m /\ m[j] = p.m[j]) \/ (j = k /\ m[j] = v)
  <2> HIDE DEF k, v
  <2>1. v \in Nat /\ \A j \in DOMAIN p.m : p.m[j] \in Nat
    BY <1>2, <1>4
  <2> QED  BY <2>1, RaiseIs
<1> HIDE DEF k, v, m, all, at
<1>6. p1 # <<>> /\ p1.all = all /\ p1.at = at /\ p1.m = m /\ p1.b = p.b
  OBVIOUS
<1>7. c = Peaks!CompactPeaks(p1, T)
  BY DEF Peaks!Recorded, k, v, m, all, at
<1> HIDE DEF p1
<1>8. /\ p.all \in 0..PeakClamp /\ p.at \in Nat
      /\ all \in 0..PeakClamp /\ at \in Nat /\ all >= p.all /\ all >= q
  BY <1>0, <1>3 DEF IsMark, all, at
<1>9. IsMark(p1)
  BY <1>2, <1>3, <1>4, <1>5, <1>6, <1>8 DEF IsMark
<1>10. Highest(p1, S \cup {r})
  <2>1. [t |-> at, q |-> all] \in S \cup {r}
    <3>1. CASE q > p.all
      BY <3>1 DEF all, at
    <3>2. CASE ~ (q > p.all)
      <4>1. S # {}
        BY <1>0, <1>3, <3>2 DEF Highest
      <4> QED  BY <1>3, <3>2, <4>1 DEF Highest, all, at
    <3> QED  BY <3>1, <3>2
  <2>2. ASSUME NEW s \in S \cup {r} PROVE s.q <= all
    <3>1. CASE s \in S
      <4>1. s.q <= p.all /\ s.q \in Nat
        BY <1>3, <3>1, ReadingIs DEF Highest
      <4> QED  BY <1>8, <4>1
    <3>2. CASE s = r
      BY <1>1, <1>8, <3>2
    <3> QED  BY <3>1, <3>2
  <2> QED  BY <1>6, <2>1, <2>2 DEF Highest
<1>11. ASSUME NEW s \in S \cup {r}, Peaks!MinuteOf(s.t) >= Peaks!MinuteOf(T) - PeakDay
       PROVE  Marked(p1, s)
  <2>1. CASE s \in S
    <3>1. Marked(p, s) /\ Peaks!R2(s.q) \in Nat
      BY <1>2, <1>3, <1>11, <2>1, ReadingIs DEF MarksAll
    <3>2. \A j : Peaks!At(m, j) \in Nat /\ Peaks!At(p.m, j) \in Nat
      <4>1. \A j \in DOMAIN m : m[j] \in Nat
        BY <1>2, <1>4, <1>5
      <4> QED  BY <1>2, <1>4, <4>1 DEF Peaks!At
    <3>3. Peaks!At(m, Peaks!MinuteOf(s.t)) >= Peaks!At(p.m, Peaks!MinuteOf(s.t))
      BY <1>5
    <3> QED  BY <1>6, <3>1, <3>2, <3>3 DEF Marked
  <2>2. CASE s = r
    BY <1>1, <1>5, <1>6, <2>2 DEF Marked, k, v
  <2> QED  BY <2>1, <2>2
<1>12. MarksAll(p1, S \cup {r}, T)
  BY <1>11 DEF MarksAll
<1>13. ASSUME NEW j \in DOMAIN m
       PROVE  \E s \in S \cup {r} : Peaks!MinuteOf(s.t) = j /\ m[j] <= Peaks!R2(s.q)
  <2>1. CASE j \in DOMAIN p.m /\ m[j] = p.m[j]
    BY <1>3, <2>1 DEF MarksOnly
  <2>2. CASE j = k /\ m[j] = v
    BY <1>1, <1>2, <2>2 DEF k, v
  <2> QED  BY <1>5, <2>1, <2>2
<1>14. MarksOnly(p1, S \cup {r})
  BY <1>3, <1>6, <1>13 DEF MarksOnly
<1>15. PeaksOf(p1, S \cup {r}, T) /\ \A s \in S \cup {r} : IsReading(s)
  BY <1>1, <1>9, <1>10, <1>12, <1>14 DEF PeaksOf
<1> QED  BY <1>1, <1>7, <1>15, Compacted

\* What an earlier release measured, in today's unit.
LEMMA WasIs ==
    ASSUME NEW o \in OldPeaks, o # <<>>, NEW v \in Nat, v <= o.all
    PROVE  /\ Peaks!Was(o, v) \in 0..PeakClamp /\ Peaks!Was(o, v) <= Peaks!Was(o, o.all)
           /\ Peaks!Was(o, v) = IF o.unit = "blocks" THEN v ELSE Peaks!Clamped(v * PeakPercent)
           /\ Peaks!Clamped(Peaks!Was(o, v)) = Peaks!Was(o, v)
<1>1. /\ o.unit \in {"percent", "blocks"} /\ o.all \in Nat
      /\ o.unit = "blocks" => o.all <= PeakClamp
      /\ PeakClamp \in Nat /\ PeakPercent \in Nat
  BY OldPeaksAssumption, PeakAssumption
<1>2. CASE o.unit = "blocks"
  BY <1>1, <1>2 DEF Peaks!Was, Peaks!Clamped
<1>3. CASE o.unit = "percent"
  <2>1. /\ v * PeakPercent \in Nat /\ o.all * PeakPercent \in Nat
        /\ v * PeakPercent <= o.all * PeakPercent
    BY <1>1
  <2>2. /\ Peaks!Was(o, v) = Peaks!Clamped(v * PeakPercent)
        /\ Peaks!Was(o, o.all) = Peaks!Clamped(o.all * PeakPercent)
    BY <1>3 DEF Peaks!Was
  <2> QED  BY <1>1, <1>3, <2>1, <2>2 DEF Peaks!Clamped
<1> QED  BY <1>1, <1>2, <1>3

LEMMA OldAre ==
    ASSUME NEW o \in OldPeaks, o # <<>>, NEW s \in Peaks!OldReadings(o)
    PROVE  /\ IsReading(s) /\ s.q <= Peaks!Was(o, o.all)
           /\ \/ \E k \in DOMAIN o.mins : k \in Nat /\ s = [t |-> k * PeakMinute, q |-> Peaks!Was(o, o.mins[k])]
              \/ s = [t |-> o.at, q |-> Peaks!Was(o, o.all)]
<1>1. /\ o.all \in Nat /\ o.at \in Nat
      /\ \A k \in DOMAIN o.mins : k \in Nat /\ o.mins[k] \in Nat /\ o.mins[k] <= o.all
  BY OldPeaksAssumption
<1>2. CASE \E k \in DOMAIN o.mins : s = [t |-> k * PeakMinute, q |-> Peaks!Was(o, o.mins[k])]
  <2>1. PICK k \in DOMAIN o.mins : s = [t |-> k * PeakMinute, q |-> Peaks!Was(o, o.mins[k])]
    BY <1>2
  <2>2. k \in Nat /\ k * PeakMinute \in Nat
    BY <1>1, PeakAssumption
  <2>3. /\ Peaks!Was(o, o.mins[k]) \in 0..PeakClamp
        /\ Peaks!Was(o, o.mins[k]) <= Peaks!Was(o, o.all)
    BY <1>1, WasIs
  <2> QED  BY <2>1, <2>2, <2>3 DEF IsReading
<1>3. CASE s = [t |-> o.at, q |-> Peaks!Was(o, o.all)]
  <2>1. Peaks!Was(o, o.all) \in 0..PeakClamp
    BY <1>1, WasIs
  <2>2. s.t = o.at /\ s.q = Peaks!Was(o, o.all)
    BY <1>3
  <2> QED  BY <1>1, <1>3, <2>1, <2>2, PeakAssumption DEF IsReading
<1> QED  BY <1>2, <1>3 DEF Peaks!OldReadings

\* migratePeaksV2 marks what was measured, and nothing else.
LEMMA MigratedMarks ==
    ASSUME NEW o \in OldPeaks, o # <<>>, NEW T \in Nat, T >= PeakStart,
           NEW c, c = Peaks!MigratePeaksV2(o, T)
    PROVE  PeaksOf(c, Peaks!OldReadings(o), T)
<1> DEFINE S == Peaks!OldReadings(o)
           W(v) == Peaks!Was(o, v)
           m == [k \in DOMAIN o.mins |-> Peaks!R2(W(o.mins[k]))]
           p == [all |-> W(o.all), at |-> o.at, b |-> <<>>, m |-> m]
<1>1. /\ o.all \in Nat /\ o.at \in Nat
      /\ \A k \in DOMAIN o.mins : k \in Nat /\ o.mins[k] \in Nat /\ o.mins[k] <= o.all
      /\ \/ o.at \div PeakMinute < PeakStart \div PeakMinute - PeakDay
         \/ \E k \in DOMAIN o.mins : k = o.at \div PeakMinute /\ o.mins[k] = o.all
  BY OldPeaksAssumption
<1>2. /\ W(o.all) \in 0..PeakClamp
      /\ W(o.all) = IF o.unit = "blocks" THEN o.all ELSE Peaks!Clamped(o.all * PeakPercent)
  BY <1>1, WasIs
<1>3. ASSUME NEW k \in DOMAIN o.mins
      PROVE  /\ W(o.mins[k]) \in 0..PeakClamp
             /\ W(o.mins[k]) = IF o.unit = "blocks" THEN o.mins[k]
                               ELSE Peaks!Clamped(o.mins[k] * PeakPercent)
             /\ Peaks!Clamped(W(o.mins[k])) = W(o.mins[k])
  BY <1>1, WasIs
<1>4. \A s \in S : IsReading(s) /\ s.q <= W(o.all)
  BY OldAre
<1>5. c = Peaks!CompactPeaks(p, T)
  <2>1. PICK out : out = Peaks!PeaksToBlocks(o)
    OBVIOUS
  <2>2. /\ out.all = W(o.all) /\ out.at = o.at /\ DOMAIN out.mins = DOMAIN o.mins
        /\ \A k \in DOMAIN o.mins : out.mins[k] = W(o.mins[k])
    <3> HIDE DEF W
    <3> QED  BY <1>2, <1>3, <2>1 DEF Peaks!PeaksToBlocks
  <2>3. [k \in DOMAIN out.mins |-> Peaks!R2(Peaks!Clamped(out.mins[k]))] = m
    <3> HIDE DEF W
    <3> QED  BY <1>3, <2>2
  <2>4. c = Peaks!CompactPeaks([all |-> out.all, at |-> out.at, b |-> <<>>,
              m |-> [k \in DOMAIN out.mins |-> Peaks!R2(Peaks!Clamped(out.mins[k]))]], T)
    BY <2>1 DEF Peaks!MigratePeaksV2
  <2> QED  BY <2>2, <2>3, <2>4
<1> HIDE DEF W
<1>6. /\ p # <<>> /\ p.all = W(o.all) /\ p.at = o.at /\ p.m = m /\ DOMAIN p.b = {}
      /\ DOMAIN m = DOMAIN o.mins
      /\ \A k \in DOMAIN o.mins : m[k] = Peaks!R2(W(o.mins[k]))
  OBVIOUS
<1>7. PeakClamp \in Nat
  BY PeakAssumption
<1>8. ASSUME NEW k \in DOMAIN o.mins PROVE m[k] \in 0..PeakTop
  <2>1. /\ Peaks!R2(W(o.mins[k])) \in Nat /\ PeakTop \in Nat
        /\ Peaks!R2(W(o.mins[k])) <= PeakTop
    BY <1>3, <1>7, Rounded DEF PeakTop
  <2> QED  BY <1>6, <2>1
<1> HIDE DEF p, m
<1>9. IsMark(p)
  BY <1>1, <1>2, <1>6, <1>8 DEF IsMark
<1>10. Highest(p, S)
  <2>1. [t |-> o.at, q |-> W(o.all)] \in S
    BY DEF Peaks!OldReadings, W
  <2> QED  BY <1>4, <1>6, <2>1 DEF Highest
<1>11. ASSUME NEW k \in DOMAIN o.mins
       PROVE  /\ [t |-> k * PeakMinute, q |-> W(o.mins[k])] \in S
              /\ Peaks!MinuteOf(k * PeakMinute) = k
  <2>1. k \in Int
    BY <1>1
  <2> QED  BY <2>1, InMinute DEF Peaks!OldReadings, W
<1>12. ASSUME NEW s \in S, Peaks!MinuteOf(s.t) >= Peaks!MinuteOf(T) - PeakDay
       PROVE  Marked(p, s)
  <2>1. CASE \E k \in DOMAIN o.mins : s = [t |-> k * PeakMinute, q |-> W(o.mins[k])]
    <3>1. PICK k \in DOMAIN o.mins : s = [t |-> k * PeakMinute, q |-> W(o.mins[k])]
      BY <2>1
    <3>2. Peaks!MinuteOf(s.t) = k /\ s.q = W(o.mins[k])
      BY <1>11, <3>1
    <3>3. Peaks!At(p.m, k) = Peaks!R2(s.q) /\ Peaks!R2(s.q) \in 0..PeakTop
      BY <1>6, <1>8, <3>2, AtIs
    <3> QED  BY <3>2, <3>3 DEF Marked
  <2>2. CASE s = [t |-> o.at, q |-> W(o.all)]
    <3>1. s.t = o.at /\ s.q = W(o.all)
      BY <2>2
    <3>2. /\ Peaks!MinuteOf(o.at) \in Int /\ Peaks!MinuteOf(T) \in Int
          /\ Peaks!MinuteOf(PeakStart) \in Int /\ PeakDay \in Nat
          /\ Peaks!MinuteOf(PeakStart) <= Peaks!MinuteOf(T)
      <4>1. o.at \in Int /\ T \in Int /\ PeakStart \in Int /\ PeakStart <= T /\ PeakDay \in Nat
        BY <1>1, PeakAssumption
      <4> QED  BY <4>1, InMinute
    <3>3. Peaks!MinuteOf(o.at) = o.at \div PeakMinute
          /\ Peaks!MinuteOf(PeakStart) = PeakStart \div PeakMinute
      BY DEF Peaks!MinuteOf
    <3>4. PICK k \in DOMAIN o.mins : k = o.at \div PeakMinute /\ o.mins[k] = o.all
      BY <1>1, <1>12, <3>1, <3>2, <3>3
    <3>5. Peaks!At(p.m, Peaks!MinuteOf(s.t)) = Peaks!R2(s.q) /\ Peaks!R2(s.q) \in 0..PeakTop
      BY <1>6, <1>8, <3>1, <3>3, <3>4, AtIs
    <3> QED  BY <3>5 DEF Marked
  <2> QED  BY <2>1, <2>2, OldAre DEF W
<1>13. MarksAll(p, S, T)
  BY <1>12 DEF MarksAll
<1>14. MarksOnly(p, S)
  <2>1. ASSUME NEW k \in DOMAIN p.m
        PROVE  \E s \in S : Peaks!MinuteOf(s.t) = k /\ p.m[k] <= Peaks!R2(s.q)
    <3>1. PICK s \in S : s = [t |-> k * PeakMinute, q |-> W(o.mins[k])]
      BY <1>6, <1>11
    <3>2. s.t = k * PeakMinute /\ s.q = W(o.mins[k])
      BY <3>1
    <3>3. k \in DOMAIN o.mins /\ p.m[k] = Peaks!R2(s.q) /\ p.m[k] \in 0..PeakTop
      BY <1>6, <1>8, <3>2
    <3>4. p.m[k] <= Peaks!R2(s.q)
      BY <3>3
    <3>5. Peaks!MinuteOf(s.t) = k
      BY <1>11, <3>2, <3>3
    <3> QED  BY <3>4, <3>5
  <2> QED  BY <1>6, <2>1 DEF MarksOnly
<1>15. PeaksOf(p, S, T)
  BY <1>9, <1>10, <1>13, <1>14 DEF PeaksOf
<1> QED  BY <1>4, <1>5, <1>15, Compacted

\* What is saved stays so, and marks save what they are of.
LEMMA SavedLasts ==
    ASSUME NEW p, NEW s, IsReading(s), NEW T \in Nat, NEW U \in Nat, T <= U, Saved(p, s, T)
    PROVE  Saved(p, s, U)
<1>1. Peaks!MinuteOf(T) \in Int /\ Peaks!MinuteOf(U) \in Int /\ PeakDay \in Nat
      /\ Peaks!MinuteOf(T) <= Peaks!MinuteOf(U) /\ Peaks!MinuteOf(s.t) \in Nat
  BY InMinute, ReadingIs, PeakAssumption
<1> QED  BY <1>1 DEF Saved

LEMMA MarksSave ==
    ASSUME NEW p, NEW S, NEW T, \A s \in S : IsReading(s), PeaksOf(p, S, T), NEW s \in S
    PROVE  Saved(p, s, T)
<1>1. p # <<>> /\ s.q <= p.all /\ s.q \in Nat /\ p.all \in Nat
  BY ReadingIs DEF PeaksOf, IsMark, Highest
<1>2. p.all >= s.q
  BY <1>1
<1> QED  BY <1>1, <1>2 DEF Saved, PeaksOf, MarksAll

\* A reading that is no news is saved where the others are.
LEMMA NoNews ==
    ASSUME NEW p, NEW S, NEW T \in Nat, \A s \in S : IsReading(s), PeaksOf(p, S, T),
           NEW x, \A s \in S : Saved(x, s, T), x # <<>> => IsMark(x),
           NEW q \in 1..PeakClamp, ~ Peaks!News(p, q, T), NEW r, r = [t |-> T, q |-> q]
    PROVE  Saved(x, r, T)
<1>0. PeakClamp \in Nat /\ PeakDay \in Nat /\ q \in Nat /\ q > 0 /\ r.t = T /\ r.q = q
      /\ Peaks!MinuteOf(T) \in Int /\ Peaks!R2(q) \in Nat /\ Peaks!R2(q) > 0
      /\ PeakTop \in Nat
  <2>1. PeakClamp \in Nat /\ PeakDay \in Nat /\ q \in Nat /\ q > 0
    BY PeakAssumption
  <2>2. Peaks!R2(q) \in Nat /\ Peaks!R2(q) > 0
    BY <2>1, Rounded
  <2>3. PeakTop \in Nat
    BY <2>1, Rounded DEF PeakTop
  <2>4. Peaks!MinuteOf(T) \in Int
    BY InMinute
  <2> QED  BY <2>1, <2>2, <2>3, <2>4
<1>1. IsMark(p) /\ Highest(p, S) /\ MarksOnly(p, S)
  BY DEF PeaksOf
<1>2. /\ p.all \in 0..PeakClamp /\ PeakTop \in Nat
      /\ \A k \in DOMAIN p.m : k \in Nat /\ p.m[k] \in 0..PeakTop
  BY <1>0, <1>1 DEF IsMark
<1>3. q <= p.all
  BY <1>0, <1>2 DEF Peaks!News
<1>4. x # <<>> /\ x.all >= q
  <2>1. S # {}
    BY <1>0, <1>1, <1>2, <1>3 DEF Highest
  <2>2. PICK s \in S : s = [t |-> p.at, q |-> p.all]
    BY <1>1, <2>1 DEF Highest
  <2>3. x # <<>> /\ x.all >= p.all /\ x.all \in Nat
    BY <1>0, <2>2 DEF Saved, IsMark
  <2> QED  BY <1>0, <1>2, <1>3, <2>3
<1>5. Marked(x, r)
  <2> DEFINE k == Peaks!MinuteOf(T)
  <2>1. Peaks!At(p.m, k) >= Peaks!R2(q)
    <3>1. Peaks!At(p.m, k) \in Nat
      BY <1>2 DEF Peaks!At
    <3> QED  BY <1>0, <3>1 DEF Peaks!News
  <2>2. k \in DOMAIN p.m /\ p.m[k] >= Peaks!R2(q)
    BY <1>0, <2>1 DEF Peaks!At
  <2>3. PICK s \in S : Peaks!MinuteOf(s.t) = k /\ p.m[k] <= Peaks!R2(s.q)
    BY <1>1, <2>2 DEF MarksOnly
  <2>4. Peaks!R2(s.q) \in Nat /\ Peaks!R2(s.q) >= Peaks!R2(q)
    BY <1>0, <1>2, <2>2, <2>3, ReadingIs
  <2>5. Marked(x, s)
    BY <1>0, <2>3 DEF Saved
  <2>6. \/ Peaks!At(x.m, k) >= Peaks!R2(s.q)
        \/ Peaks!At(x.b, k \div PeakBucket) >= Peaks!R2(s.q)
    BY <2>3, <2>5 DEF Marked
  <2>7. \A j : Peaks!At(x.m, j) \in Nat /\ Peaks!At(x.b, j) \in Nat
    <3>1. /\ \A j \in DOMAIN x.m : x.m[j] \in Nat
          /\ \A j \in DOMAIN x.b : x.b[j] \in Nat
      BY <1>0, <1>4 DEF IsMark
    <3> QED  BY <3>1 DEF Peaks!At
  <2> QED  BY <1>0, <2>4, <2>6, <2>7 DEF Marked
<1> QED  BY <1>0, <1>4, <1>5 DEF Saved

LEMMA PeaksStart == Peaks!Init => PeaksInv
<1> SUFFICES ASSUME Peaks!Init PROVE PeaksInv
  OBVIOUS
<1>1. /\ v1 = PeakStart /\ v3 = FALSE /\ v5 = FALSE /\ v6 = -PeakMinute /\ v7 = <<>>
      /\ v8 \in OldPeaks /\ v9 = FALSE /\ v10 = Peaks!OldReadings(v8) /\ v11 = v10
      /\ v12 = PeakStart /\ v13 = FALSE
  BY DEF Peaks!Init
<1>2. \A s \in Peaks!OldReadings(v8) : IsReading(s)
  <2>1. CASE v8 = <<>>
    BY <2>1 DEF Peaks!OldReadings
  <2>2. CASE v8 # <<>>
    <3> SUFFICES ASSUME NEW s \in Peaks!OldReadings(v8) PROVE IsReading(s)
      OBVIOUS
    <3> QED  BY <1>1, <2>2, OldAre
  <2> QED  BY <2>1, <2>2
<1>3. PeaksTyped
  <2>1. PeakStart \in Nat /\ PeakMinute \in Nat
    BY PeakAssumption
  <2>2. v6 \in Int /\ v6 <= v1
    BY <1>1, <2>1
  <2>3. {v3, v5, v9, v13} \subseteq BOOLEAN
    BY <1>1
  <2>4. v1 \in Nat /\ v1 >= PeakStart /\ v12 \in Nat
    BY <1>1, <2>1
  <2> QED  BY <1>1, <1>2, <2>2, <2>3, <2>4 DEF PeaksTyped
<1> QED  BY <1>1, <1>3 DEF PeaksInv, PeaksStored, PeaksLoaded, PeaksSaved

\* loadPeaks: whatever it loads marks the readings that are not lost, and those that are
\* neither stored nor waiting to be are none.
LEMMA PeaksLoads ==
    ASSUME PeaksInv, NEW T \in Nat, T >= v1, NEW p, p = Peaks!LoadedPeaks(T)
    PROVE  /\ PeaksOf(p, v10, T)
           /\ v8 = <<>> /\ (v3 => ~v13) => \A s \in v10 : Saved(v7, s, T) \/ (v5 /\ s.t > v6)
           /\ Peaks!Migrates => p = Peaks!MigratePeaksV2(v8, T) /\ v11 = v10
<1>1. /\ v1 \in Nat /\ v1 >= PeakStart /\ PeakStart \in Nat /\ v3 \in BOOLEAN
      /\ v8 \in OldPeaks \cup {<<>>}
  BY PeakAssumption DEF PeaksInv, PeaksTyped
<1>2. \A s \in v10 \cup v11 : IsReading(s)
  BY DEF PeaksInv, PeaksTyped
<1>3. CASE v3
  <2>1. p = v4 /\ ~Peaks!Migrates /\ PeaksOf(v4, v10, v1)
    BY <1>3 DEF Peaks!LoadedPeaks, Peaks!Migrates, PeaksInv, PeaksLoaded
  <2>2. PeaksOf(p, v10, T)
    BY <1>1, <1>2, <2>1, MarksLast
  <2>3. ASSUME v8 = <<>>, ~v13, NEW s \in v10 PROVE Saved(v7, s, T) \/ (v5 /\ s.t > v6)
    <3>1. Saved(v7, s, v1) \/ (v5 /\ s.t > v6)
      BY <1>3, <2>3 DEF PeaksInv, PeaksSaved
    <3>2. Saved(v7, s, v1) => Saved(v7, s, T)
      BY <1>1, <1>2, SavedLasts
    <3> QED  BY <3>1, <3>2
  <2> QED  BY <1>3, <2>1, <2>2, <2>3
<1>4. CASE ~v3 /\ v7 # <<>>
  <2>1. /\ v10 = v11 /\ ~Peaks!Migrates /\ PeaksOf(v7, v11, v1)
        /\ p = Peaks!CompactPeaks(v7, T)
    BY <1>4 DEF Peaks!LoadedPeaks, Peaks!Migrates, PeaksInv, PeaksLoaded, PeaksStored
  <2>2. PeaksOf(v7, v10, T)
    BY <1>1, <1>2, <2>1, MarksLast
  <2>3. PeaksOf(p, v10, T)
    BY <1>2, <2>1, <2>2, Compacted
  <2>4. \A s \in v10 : Saved(v7, s, T)
    BY <1>2, <2>2, MarksSave
  <2> QED  BY <2>1, <2>3, <2>4
<1>5. CASE ~v3 /\ v7 = <<>>
  <2>1. v10 = v11 /\ v11 = Peaks!OldReadings(v8)
    BY <1>5 DEF PeaksInv, PeaksLoaded, PeaksStored
  <2>2. CASE v8 = <<>>
    <3>1. p = Peaks!EmptyPeaks /\ v10 = {} /\ ~Peaks!Migrates
      BY <1>5, <2>1, <2>2 DEF Peaks!LoadedPeaks, Peaks!Migrates, Peaks!OldReadings
    <3>2. PeaksOf(p, v10, T)
      BY <3>1, NoMarks
    <3> QED  BY <3>1, <3>2
  <2>3. CASE v8 # <<>>
    <3>1. p = Peaks!MigratePeaksV2(v8, T)
      BY <1>5, <2>3 DEF Peaks!LoadedPeaks, Peaks!Migrates
    <3>2. PeaksOf(p, Peaks!OldReadings(v8), T)
      BY <1>1, <2>3, <3>1, MigratedMarks
    <3> QED  BY <2>1, <2>3, <3>1, <3>2
  <2> QED  BY <2>2, <2>3
<1> QED  BY <1>1, <1>3, <1>4, <1>5

\* The panel is drawn: what a writing succeeds or fails in, or what is left for later.
LEMMA PeaksRead ==
    ASSUME PeaksInv, NEW n \in PeakReadings, Peaks!Read(n) PROVE PeaksInv'
<1> DEFINE T == v1 + 1
           p == Peaks!LoadedPeaks(T)
           counts == v2 = "live" /\ n > 0
           q == Peaks!Clamped(n)
           r == [t |-> T, q |-> q]
           w == IF counts THEN Peaks!Recorded(p, q, T) ELSE p
           news == counts /\ (v5 \/ Peaks!News(p, q, T))
           due == T - v6 >= PeakMinute
<1>0. /\ v1 \in Nat /\ v1 >= PeakStart /\ PeakStart \in Nat /\ T \in Nat /\ T >= v1
      /\ T >= PeakStart /\ v6 \in Int /\ v6 <= v1 /\ v12 \in Nat /\ PeakMinute \in Nat
      /\ {v3, v5, v9, v13} \subseteq BOOLEAN /\ v8 \in OldPeaks \cup {<<>>}
  BY PeakAssumption DEF PeaksInv, PeaksTyped
<1>1. \A s \in v10 \cup v11 : IsReading(s)
  BY DEF PeaksInv, PeaksTyped
<1>2. counts => q \in 1..PeakClamp
  <2>1. n \in Nat /\ PeakClamp \in Nat \ {0}
    BY PeakAssumption
  <2> QED  BY <2>1 DEF Peaks!Clamped
<1>3. /\ v1' = T /\ v3' = TRUE /\ v9' = v9
      /\ v10' = (IF counts THEN v10 \cup {r} ELSE v10) /\ v12' = (IF counts THEN T ELSE v12)
      /\ v4' = w
  BY DEF Peaks!Read
<1>4. IF news /\ due
      THEN Peaks!Write(w, T) /\ v8' = IF Peaks!Migrates /\ ~v9 THEN <<>> ELSE v8
      ELSE /\ v5' = (v5 \/ news) /\ v6' = v6
           /\ IF Peaks!Migrates THEN Peaks!Migrated(T) /\ v13' = v9
              ELSE UNCHANGED <<v7, v8, v11, v13>>
  BY DEF Peaks!Read, Peaks!SaveIfDue
<1> HIDE DEF p, q, w, news, due
<1>5. \/ /\ news /\ due /\ v9 = FALSE /\ v6' = T /\ v5' = FALSE /\ v13' = FALSE /\ v7' = w
         /\ v11' = v10' /\ v8' = IF Peaks!Migrates THEN <<>> ELSE v8
      \/ /\ news /\ due /\ v6' = T /\ v5' = TRUE /\ v13' = TRUE /\ UNCHANGED <<v7, v8, v11>>
      \/ /\ ~ (news /\ due) /\ Peaks!Migrates /\ v6' = v6 /\ v5' = (v5 \/ news)
         /\ v13' = FALSE /\ v7' = Peaks!MigratePeaksV2(v8, T) /\ v8' = <<>> /\ v11' = v10
      \/ /\ ~ (news /\ due) /\ Peaks!Migrates /\ v6' = v6 /\ v5' = (v5 \/ news)
         /\ v13' = TRUE /\ UNCHANGED <<v7, v8, v11>>
      \/ /\ ~ (news /\ due) /\ ~Peaks!Migrates /\ v6' = v6 /\ v5' = (v5 \/ news)
         /\ UNCHANGED <<v7, v8, v11, v13>>
  <2>1. v9 = TRUE \/ v9 = FALSE
    BY <1>0
  <2>2. CASE news /\ due
    BY <1>4, <2>1, <2>2 DEF Peaks!Write
  <2>3. CASE ~ (news /\ due)
    BY <1>4, <2>1, <2>3 DEF Peaks!Migrated
  <2> QED  BY <2>2, <2>3
<1>6. v5' \in BOOLEAN /\ v13' \in BOOLEAN
  BY <1>0, <1>5
<1>7. /\ PeaksOf(p, v10, T)
      /\ v8 = <<>> /\ (v3 => ~v13) => \A s \in v10 : Saved(v7, s, T) \/ (v5 /\ s.t > v6)
      /\ Peaks!Migrates => p = Peaks!MigratePeaksV2(v8, T) /\ v11 = v10
  BY <1>0, PeaksLoads DEF p
<1> USE DEF w, news, due
<1>8. PeaksOf(w, v10', T) /\ \A s \in v10' : IsReading(s)
  <2>1. CASE counts
    <3>1. w = Peaks!Recorded(p, q, T) /\ v10' = v10 \cup {r} /\ q \in 1..PeakClamp
      BY <1>2, <1>3, <2>1
    <3>2. T \in Nat /\ PeaksOf(p, v10, T) /\ \A s \in v10 : IsReading(s)
      BY <1>0, <1>1, <1>7
    <3>3. PICK c : c = Peaks!Recorded(p, q, T)
      OBVIOUS
    <3>4. PICK x : x = r
      OBVIOUS
    <3>5. PeaksOf(c, v10 \cup {x}, T) /\ IsReading(x)
      BY <3>1, <3>2, <3>3, <3>4, RecordedMarks
    <3>6. w = c
      BY <3>1, <3>3
    <3> QED  BY <1>1, <3>1, <3>4, <3>5, <3>6
  <2>2. CASE ~counts
    BY <1>1, <1>3, <1>7, <2>2
  <2> QED  BY <2>1, <2>2
<1>9. (v5 => v3) /\ (Peaks!Migrates => ~v3 /\ v7 = <<>> /\ v8 # <<>>)
  BY <1>0 DEF PeaksInv, PeaksLoaded, Peaks!Migrates
<1>10. PeaksTyped'
  <2>1. v8' \in OldPeaks \cup {<<>>}
    BY <1>0, <1>5
  <2>2. \A s \in v11' : IsReading(s)
    BY <1>1, <1>5, <1>8
  <2>3. v6' \in Int /\ v6' <= v1' /\ v12' \in Nat
    BY <1>0, <1>3, <1>5
  <2> QED  BY <1>0, <1>3, <1>6, <1>8, <2>1, <2>2, <2>3 DEF PeaksTyped
<1>11. PeaksLoaded'
  BY <1>3, <1>8 DEF PeaksLoaded
<1>12. PeaksStored'
  <2>1. v7 # <<>> => PeaksOf(v7, v11, T)
    BY <1>0, <1>1, MarksLast DEF PeaksInv, PeaksStored
  <2>2. v7 = <<>> => v11 = Peaks!OldReadings(v8)
    BY DEF PeaksInv, PeaksStored
  <2>3. w # <<>> /\ p # <<>>
    BY <1>7, <1>8 DEF PeaksOf, IsMark
  <2>4. CASE v7' = w /\ v11' = v10'
    BY <1>3, <1>8, <2>3, <2>4 DEF PeaksStored
  <2>5. CASE UNCHANGED <<v7, v8, v11>>
    BY <1>3, <2>1, <2>2, <2>5 DEF PeaksStored
  <2>6. CASE v7' = p /\ v11' = v10
    BY <1>3, <1>7, <2>3, <2>6 DEF PeaksStored
  <2> QED  BY <1>5, <1>7, <2>4, <2>5, <2>6
<1>13. PeaksSaved'
  <2> SUFFICES ASSUME ~v13'
               PROVE  /\ v5' => v12' - v6' < PeakMinute
                      /\ v8' = <<>> => \A s \in v10' : Saved(v7', s, T) \/ (v5' /\ s.t > v6')
    BY <1>3 DEF PeaksSaved
  <2>1. CASE /\ news /\ due /\ ~v5' /\ v7' = w
    <3>1. \A s \in v10' : Saved(w, s, T)
      BY <1>8, MarksSave
    <3> QED  BY <2>1, <3>1
  <2>2. CASE ~ (news /\ due) /\ v6' = v6 /\ v5' = (v5 \/ news) /\ (UNCHANGED <<v7, v8, v13>> \/ (~v3 /\ v7' = p))
    <3>1. v5' => v12' - v6' < PeakMinute
      <4>1. CASE counts
        BY <1>0, <1>3, <2>2, <4>1
      <4>2. CASE ~counts
        <5>1. v5' = v5 /\ v12' = v12
          BY <1>0, <1>3, <2>2, <4>2
        <5>2. CASE ~v5
          BY <5>1, <5>2
        <5>3. CASE v5
          <6>1. v3 /\ ~v13
            BY <1>0, <1>9, <2>2, <5>3
          <6> QED  BY <2>2, <5>1, <5>3, <6>1 DEF PeaksInv, PeaksSaved
        <5> QED  BY <1>0, <5>2, <5>3
      <4> QED  BY <4>1, <4>2
    <3>2. ASSUME v8' = <<>> PROVE \A s \in v10 : Saved(v7', s, T) \/ (v5 /\ s.t > v6)
      <4>1. CASE UNCHANGED <<v7, v8, v13>>
        BY <1>7, <3>2, <4>1
      <4>2. CASE v7' = p
        BY <1>1, <1>7, <4>2, MarksSave
      <4> QED  BY <2>2, <4>1, <4>2
    <3>3. ASSUME v8' = <<>>, counts PROVE Saved(v7', r, T) \/ (v5' /\ r.t > v6')
      <4>1. CASE news
        <5>1. v5'
          BY <2>2, <4>1
        <5>2. r.t = T /\ T > v6
          BY <1>0
        <5> QED  BY <2>2, <5>1, <5>2
      <4>2. CASE ~news
        <5>1. ~v5 /\ ~Peaks!News(p, q, T)
          BY <3>3, <4>2
        <5>2. \A s \in v10 : Saved(v7', s, T)
          BY <3>2, <3>3, <5>1
        <5>3. v7' # <<>> => IsMark(v7')
          BY <1>7, <2>2 DEF PeaksOf, PeaksInv, PeaksStored
        <5> QED  BY <1>0, <1>1, <1>2, <1>7, <3>3, <5>1, <5>2, <5>3, NoNews
      <4> QED  BY <4>1, <4>2
    <3>4. (v5 => v5') /\ v6' = v6
      BY <1>0, <2>2
    <3>5. CASE counts
      <4>1. v10' = v10 \cup {r}
        BY <1>3, <3>5
      <4> QED  BY <3>1, <3>2, <3>3, <3>4, <3>5, <4>1
    <3>6. CASE ~counts
      BY <1>3, <3>1, <3>2, <3>4, <3>6
    <3> QED  BY <3>5, <3>6
  <2> QED  BY <1>5, <1>7, <1>9, <2>1, <2>2
<1> QED  BY <1>10, <1>11, <1>12, <1>13 DEF PeaksInv

LEMMA PeaksAway == ASSUME PeaksInv, Peaks!Away PROVE PeaksInv'
<1>1. /\ v1' = v1 + 1 /\ UNCHANGED <<v2, v3, v4, v5, v6, v7, v8, v9, v10, v11, v12, v13>>
  BY DEF Peaks!Away, Peaks!memory, Peaks!store, Peaks!hist
<1>2. v1 \in Nat /\ v1' \in Nat /\ v1 <= v1' /\ \A s \in v10 \cup v11 : IsReading(s)
  BY <1>1 DEF PeaksInv, PeaksTyped
<1>3. PeaksTyped'
  <2>1. v1' >= PeakStart /\ v6 <= v1'
    BY <1>1, PeakAssumption DEF PeaksInv, PeaksTyped
  <2> QED  BY <1>1, <1>2, <2>1 DEF PeaksInv, PeaksTyped
<1>4. \A p, S : S \in {v10, v11} /\ PeaksOf(p, S, v1) => PeaksOf(p, S, v1')
  BY <1>2, MarksLast
<1>5. \A s \in v10 : Saved(v7, s, v1) => Saved(v7, s, v1')
  BY <1>2, SavedLasts
<1>6. PeaksStored' /\ PeaksLoaded'
  BY <1>1, <1>4 DEF PeaksInv, PeaksStored, PeaksLoaded
<1>7. PeaksSaved'
  BY <1>1, <1>5 DEF PeaksInv, PeaksSaved
<1> QED  BY <1>3, <1>6, <1>7 DEF PeaksInv

LEMMA PeaksHide == ASSUME PeaksInv, Peaks!Hide PROVE PeaksInv'
<1>1. /\ v3 /\ v5 /\ UNCHANGED <<v1, v3, v4, v8, v9, v10, v12>> /\ v6' = v1
      /\ v5' = v9 /\ v13' = v9
      /\ v7' = (IF v9 THEN v7 ELSE v4) /\ v11' = (IF v9 THEN v11 ELSE v10)
  BY DEF Peaks!Hide, Peaks!Write
<1>2. \A s \in v10 \cup v11 : IsReading(s)
  BY DEF PeaksInv, PeaksTyped
<1>3. PeaksTyped'
  BY <1>1 DEF PeaksInv, PeaksTyped
<1>4. PeaksLoaded'
  BY <1>1 DEF PeaksInv, PeaksLoaded
<1>5. PeaksOf(v4, v10, v1) /\ v4 # <<>>
  BY <1>1 DEF PeaksInv, PeaksLoaded, PeaksOf, IsMark
<1>6. \A s \in v10 : Saved(v4, s, v1)
  BY <1>2, <1>5, MarksSave
<1>7. CASE v9
  BY <1>1, <1>3, <1>4, <1>7 DEF PeaksInv, PeaksStored, PeaksSaved
<1>8. CASE ~v9
  BY <1>1, <1>3, <1>4, <1>5, <1>6, <1>8 DEF PeaksInv, PeaksStored, PeaksSaved
<1> QED  BY <1>7, <1>8

\* The program ends: what is stored is what its next start will know of.
LEMMA PeaksEnd ==
    ASSUME PeaksInv, NEW p, NEW saves \in BOOLEAN, Peaks!Restart(p, saves),
           saves => v3 /\ p = v4
    PROVE  PeaksInv'
<1>1. /\ ~v3' /\ v3' = FALSE /\ v5' = FALSE /\ v6' = -PeakMinute /\ v13' = FALSE /\ v12' = v1
      /\ v7' = (IF saves THEN p ELSE v7) /\ v10' = (IF saves THEN v10 ELSE v11) /\ v11' = v10'
      /\ UNCHANGED <<v1, v8, v9>>
  BY DEF Peaks!Restart
<1>2. PeaksTyped'
  <2>1. v1 \in Nat /\ PeakMinute \in Nat /\ \A s \in v10 \cup v11 : IsReading(s)
    BY PeakAssumption DEF PeaksInv, PeaksTyped
  <2>2. v6' \in Int /\ v6' <= v1'
    BY <1>1, <2>1
  <2>3. \A s \in v10' \cup v11' : IsReading(s)
    BY <1>1, <2>1
  <2>4. {v3', v5', v9', v13'} \subseteq BOOLEAN
    BY <1>1 DEF PeaksInv, PeaksTyped
  <2> QED  BY <1>1, <2>1, <2>2, <2>3, <2>4 DEF PeaksInv, PeaksTyped
<1>3. PeaksLoaded' /\ PeaksSaved'
  BY <1>1 DEF PeaksLoaded, PeaksSaved
<1>4. PeaksStored'
  <2>1. CASE saves
    <3>1. PeaksOf(v4, v10, v1) /\ v4 # <<>>
      BY <2>1 DEF PeaksInv, PeaksLoaded, PeaksOf, IsMark
    <3> QED  BY <1>1, <2>1, <3>1 DEF PeaksStored
  <2>2. CASE ~saves
    BY <1>1, <2>2 DEF PeaksInv, PeaksStored
  <2> QED  BY <2>1, <2>2
<1> QED  BY <1>2, <1>3, <1>4 DEF PeaksInv

LEMMA PeaksNext == ASSUME PeaksInv, Peaks!Next PROVE PeaksInv'
<1>1. CASE \E n \in PeakReadings : Peaks!Read(n)
  BY <1>1, PeaksRead
<1>2. CASE Peaks!Away
  BY <1>2, PeaksAway
<1>3. CASE Peaks!Hide
  BY <1>3, PeaksHide
<1>4. CASE Peaks!Close
  <2>1. v3 \in BOOLEAN /\ v5 \in BOOLEAN /\ v9 \in BOOLEAN
    BY DEF PeaksInv, PeaksTyped
  <2>2. Peaks!Restart(v4, v3 /\ v5 /\ ~v9)
    BY <1>4 DEF Peaks!Close
  <2> QED  BY <2>1, <2>2, PeaksEnd
<1>5. CASE Peaks!Crash
  <2>1. Peaks!Restart(v4, FALSE)
    BY <1>5 DEF Peaks!Crash
  <2> QED  BY <2>1, PeaksEnd
<1>6. CASE Peaks!Fill
  <2>1. UNCHANGED <<v1, v3, v4, v5, v6, v7, v8, v10, v11, v12, v13>> /\ v9' \in BOOLEAN
    BY <1>6 DEF Peaks!Fill, Peaks!memory, Peaks!hist
  <2> QED  BY <2>1 DEF PeaksInv, PeaksTyped, PeaksStored, PeaksLoaded, PeaksSaved
<1>7. CASE Peaks!Flip
  <2>1. UNCHANGED <<v1, v3, v4, v5, v6, v7, v8, v9, v10, v11, v12, v13>>
    BY <1>7 DEF Peaks!Flip, Peaks!memory, Peaks!store, Peaks!hist
  <2> QED  BY <2>1 DEF PeaksInv, PeaksTyped, PeaksStored, PeaksLoaded, PeaksSaved
<1> QED  BY <1>1, <1>2, <1>3, <1>4, <1>5, <1>6, <1>7 DEF Peaks!Next

\* The marks a column looks at, the readings it must show, and those it may show.
MarksSince(p, cut) ==
    {p.m[k] : k \in {j \in DOMAIN p.m : j >= cut}}
    \cup {p.b[k] : k \in {j \in DOMAIN p.b : Peaks!LastMinute(j) >= cut}}
ReadSince(S, T, cut) ==
    {Peaks!R2(s.q) : s \in {r \in S : /\ Peaks!MinuteOf(r.t) >= cut
                                     /\ Peaks!MinuteOf(r.t) >= Peaks!MinuteOf(T) - PeakDay}}
ReadAbout(S, cut) ==
    {Peaks!R2(s.q) : s \in {r \in S : Peaks!MinuteOf(r.t) >= cut - (PeakBucket - 1)}}

LEMMA WindowsShow ==
    ASSUME NEW p, NEW S, NEW T \in Nat, \A s \in S : IsReading(s), PeaksOf(p, S, T), NEW cut \in Int
    PROVE  /\ Peaks!Largest(MarksSince(p, cut)) >= Peaks!Largest(ReadSince(S, T, cut))
           /\ Peaks!Largest(MarksSince(p, cut)) <= Peaks!Largest(ReadAbout(S, cut))
<1> DEFINE X == MarksSince(p, cut)
           Y == ReadSince(S, T, cut)
           Z == ReadAbout(S, cut)
<1>1. PeakTop \in Nat /\ PeakBucket \in Nat \ {0}
  BY Rounded, PeakAssumption DEF PeakTop
<1>2. IsMark(p) /\ MarksAll(p, S, T) /\ MarksOnly(p, S)
  BY DEF PeaksOf
<1>3. \A s \in S : /\ Peaks!R2(s.q) \in 0..PeakTop /\ Peaks!MinuteOf(s.t) \in Nat
                   /\ Peaks!MinuteOf(s.t) \div PeakBucket \in Nat
  BY ReadingIs
<1>4. X \subseteq 0..PeakTop /\ Y \subseteq 0..PeakTop /\ Z \subseteq 0..PeakTop
  <2>1. X \subseteq 0..PeakTop
    BY <1>2 DEF IsMark, MarksSince
  <2> QED  BY <1>3, <2>1 DEF ReadSince, ReadAbout
<1> HIDE DEF X, Y, Z
<1>5. /\ Peaks!Largest(X) \in 0..PeakTop /\ \A x \in X : Peaks!Largest(X) >= x
      /\ X # {} => Peaks!Largest(X) \in X
      /\ X = {} => Peaks!Largest(X) = 0
  BY <1>1, <1>4, LargestOf
<1>6. /\ Peaks!Largest(Y) \in 0..PeakTop
      /\ Y # {} => Peaks!Largest(Y) \in Y
      /\ Y = {} => Peaks!Largest(Y) = 0
  BY <1>1, <1>4, LargestOf
<1>7. Peaks!Largest(Z) \in 0..PeakTop /\ \A x \in Z : Peaks!Largest(Z) >= x
  BY <1>1, <1>4, LargestOf
<1>8. ASSUME NEW y \in Y PROVE Peaks!Largest(X) >= y
  <2>1. PICK s \in S : /\ y = Peaks!R2(s.q) /\ Peaks!MinuteOf(s.t) >= cut
                       /\ Peaks!MinuteOf(s.t) >= Peaks!MinuteOf(T) - PeakDay
    BY <1>8 DEF Y, ReadSince
  <2> DEFINE k == Peaks!MinuteOf(s.t)
             b == k \div PeakBucket
  <2>2. k \in Nat /\ b \in Nat /\ y \in 0..PeakTop
    BY <1>3, <2>1
  <2>3. Peaks!At(p.m, k) >= y \/ Peaks!At(p.b, b) >= y
    BY <1>2, <2>1 DEF MarksAll, Marked
  <2>4. Peaks!LastMinute(b) >= cut
    <3>1. Peaks!LastMinute(b) \in Int /\ Peaks!LastMinute(b) >= k
      BY <2>2, InBucket
    <3> QED  BY <2>1, <2>2, <3>1
  <2> HIDE DEF k, b
  <2>5. CASE y = 0
    BY <1>5, <2>5
  <2>6. CASE y > 0 /\ Peaks!At(p.m, k) >= y
    <3>1. k \in DOMAIN p.m /\ p.m[k] >= y
      BY <2>2, <2>6 DEF Peaks!At
    <3>2. p.m[k] \in X
      BY <2>1, <3>1 DEF k, X, MarksSince
    <3>3. p.m[k] \in 0..PeakTop /\ Peaks!Largest(X) >= p.m[k]
      BY <1>4, <1>5, <3>2
    <3> QED  BY <1>1, <1>5, <2>2, <3>1, <3>3
  <2>7. CASE y > 0 /\ Peaks!At(p.b, b) >= y
    <3>1. b \in DOMAIN p.b /\ p.b[b] >= y
      BY <2>2, <2>7 DEF Peaks!At
    <3>2. p.b[b] \in X
      BY <2>4, <3>1 DEF X, MarksSince
    <3>3. p.b[b] \in 0..PeakTop /\ Peaks!Largest(X) >= p.b[b]
      BY <1>4, <1>5, <3>2
    <3> QED  BY <1>1, <1>5, <2>2, <3>1, <3>3
  <2> QED  BY <2>2, <2>3, <2>5, <2>6, <2>7
<1>9. Peaks!Largest(X) >= Peaks!Largest(Y)
  <2>1. CASE Y = {}
    <3>1. Peaks!Largest(Y) = 0 /\ Peaks!Largest(X) \in Nat
      BY <1>1, <1>5, <1>6, <2>1
    <3> QED  BY <3>1
  <2>2. CASE Y # {}
    <3>1. Peaks!Largest(Y) \in Y
      BY <1>6, <2>2
    <3> QED  BY <1>8, <3>1
  <2> QED  BY <2>1, <2>2
<1>10. ASSUME NEW s \in S, Peaks!MinuteOf(s.t) >= cut - (PeakBucket - 1)
       PROVE  Peaks!Largest(Z) >= Peaks!R2(s.q)
  <2>1. Peaks!R2(s.q) \in Z
    BY <1>10 DEF Z, ReadAbout
  <2> QED  BY <1>7, <2>1
<1>11. ASSUME NEW x \in X PROVE x <= Peaks!Largest(Z)
  <2>1. CASE \E k \in DOMAIN p.m : k >= cut /\ x = p.m[k]
    <3>1. PICK k \in DOMAIN p.m : k >= cut /\ x = p.m[k]
      BY <2>1
    <3>2. PICK s \in S : Peaks!MinuteOf(s.t) = k /\ p.m[k] <= Peaks!R2(s.q)
      BY <1>2 DEF MarksOnly
    <3>3. Peaks!MinuteOf(s.t) >= cut - (PeakBucket - 1)
      BY <1>1, <1>3, <3>1, <3>2
    <3> QED  BY <1>3, <1>4, <1>7, <1>10, <3>1, <3>2, <3>3
  <2>2. CASE \E k \in DOMAIN p.b : Peaks!LastMinute(k) >= cut /\ x = p.b[k]
    <3>1. PICK k \in DOMAIN p.b : Peaks!LastMinute(k) >= cut /\ x = p.b[k]
      BY <2>2
    <3>2. PICK s \in S : Peaks!MinuteOf(s.t) \div PeakBucket = k /\ p.b[k] <= Peaks!R2(s.q)
      BY <1>2 DEF MarksOnly
    <3>3. /\ Peaks!MinuteOf(s.t) \in Int /\ Peaks!LastMinute(k) \in Int
          /\ Peaks!LastMinute(k) <= Peaks!MinuteOf(s.t) + PeakBucket - 1
      BY <1>3, <3>2, InBucket
    <3>4. Peaks!MinuteOf(s.t) >= cut - (PeakBucket - 1)
      BY <1>1, <3>1, <3>3
    <3> QED  BY <1>3, <1>4, <1>7, <1>10, <3>1, <3>2, <3>4
  <2> QED  BY <2>1, <2>2 DEF X, MarksSince
<1>12. Peaks!Largest(X) <= Peaks!Largest(Z)
  BY <1>5, <1>7, <1>11
<1> QED  BY <1>9, <1>12 DEF X, Y, Z

LEMMA PeaksAreWindows == PeaksInv => Peaks!WindowsAreHonest
<1> SUFFICES ASSUME PeaksInv, v3, NEW w \in PeakWindows
             PROVE  /\ Peaks!MaxOver(v4, w, v1) >= Peaks!Largest({Peaks!R2(s.q) : s \in
                         {r \in Peaks!Within(w, 0) : Peaks!MinuteOf(r.t) >= Peaks!MinuteOf(v1) - PeakDay}})
                    /\ Peaks!MaxOver(v4, w, v1)
                         <= Peaks!Largest({Peaks!R2(s.q) : s \in Peaks!Within(w, PeakBucket - 1)})
  BY DEF Peaks!WindowsAreHonest
<1>1. v1 \in Nat /\ PeaksOf(v4, v10, v1) /\ \A s \in v10 : IsReading(s)
  BY DEF PeaksInv, PeaksTyped, PeaksLoaded
<1>2. PICK cut \in Int : cut = Peaks!MinuteOf(v1 - w * PeakMinute)
  <2>1. v1 - w * PeakMinute \in Int
    BY <1>1, PeakAssumption
  <2> QED  BY <2>1, InMinute
<1>3. Peaks!MaxOver(v4, w, v1) = Peaks!Largest(MarksSince(v4, cut))
  BY <1>2 DEF Peaks!MaxOver, MarksSince
<1>4. {Peaks!R2(s.q) : s \in
         {r \in Peaks!Within(w, 0) : Peaks!MinuteOf(r.t) >= Peaks!MinuteOf(v1) - PeakDay}}
        = ReadSince(v10, v1, cut)
  <2>1. cut - 0 = cut
    OBVIOUS
  <2>2. Peaks!Within(w, 0) = {s \in v10 : Peaks!MinuteOf(s.t) >= cut}
    BY <1>2, <2>1 DEF Peaks!Within
  <2> QED  BY <2>2 DEF ReadSince
<1>5. {Peaks!R2(s.q) : s \in Peaks!Within(w, PeakBucket - 1)} = ReadAbout(v10, cut)
  BY <1>2 DEF Peaks!Within, ReadAbout
<1>6. /\ Peaks!Largest(MarksSince(v4, cut)) >= Peaks!Largest(ReadSince(v10, v1, cut))
      /\ Peaks!Largest(MarksSince(v4, cut)) <= Peaks!Largest(ReadAbout(v10, cut))
  BY <1>1, WindowsShow
<1> QED  BY <1>3, <1>4, <1>5, <1>6

LEMMA PeaksAreExact == PeaksInv => Peaks!AllTimeIsExact
<1> SUFFICES ASSUME PeaksInv, v3 PROVE /\ v4.all = Peaks!Largest({s.q : s \in v10})
                                       /\ v10 # {} => [t |-> v4.at, q |-> v4.all] \in v10
  BY DEF Peaks!AllTimeIsExact
<1>1. Highest(v4, v10) /\ v4.all \in 0..PeakClamp /\ PeakClamp \in Nat
  BY PeakAssumption DEF PeaksInv, PeaksLoaded, PeaksOf, IsMark
<1>2. {s.q : s \in v10} \subseteq 0..PeakClamp
  BY DEF PeaksInv, PeaksTyped, IsReading
<1>3. PICK top : top = Peaks!Largest({s.q : s \in v10})
  OBVIOUS
<1>4. /\ top \in 0..PeakClamp /\ \A x \in {s.q : s \in v10} : top >= x
      /\ {s.q : s \in v10} # {} => top \in {s.q : s \in v10}
      /\ {s.q : s \in v10} = {} => top = 0
  BY <1>1, <1>2, <1>3, LargestOf
<1>5. CASE v10 = {}
  BY <1>1, <1>3, <1>4, <1>5 DEF Highest
<1>6. CASE v10 # {}
  <2>1. PICK s \in v10 : s = [t |-> v4.at, q |-> v4.all]
    BY <1>1, <1>6 DEF Highest
  <2>2. top >= v4.all
    BY <1>4, <2>1
  <2>3. top <= v4.all
    BY <1>1, <1>4, <1>6 DEF Highest
  <2> QED  BY <1>1, <1>3, <1>4, <2>1, <2>2, <2>3
<1> QED  BY <1>5, <1>6

LEMMA PeaksAreSaved == PeaksInv => Peaks!CrashCostsAMinute
<1> SUFFICES ASSUME PeaksInv, v3, ~v13, v8 = <<>>, NEW s \in v10, v12 - s.t >= PeakMinute
             PROVE  Peaks!Covers(v7, s)
  BY DEF Peaks!CrashCostsAMinute
<1>1. /\ v5 => v12 - v6 < PeakMinute
      /\ Saved(v7, s, v1) \/ (v5 /\ s.t > v6)
      /\ v6 \in Int /\ v12 \in Nat /\ PeakMinute \in Nat /\ v1 \in Nat /\ IsReading(s)
  BY PeakAssumption DEF PeaksInv, PeaksSaved, PeaksTyped
<1>2. s.t \in Nat /\ Peaks!MinuteOf(s.t) \in Nat /\ Peaks!MinuteOf(v1) \in Int /\ PeakDay \in Nat
  BY <1>1, ReadingIs, InMinute, PeakAssumption
<1>3. Saved(v7, s, v1)
  BY <1>1, <1>2
<1> QED  BY <1>2, <1>3 DEF Saved, Marked, Peaks!Covers

-----------------------------------------------------------------------------
(* The gaps and the boundaries of epochs (Propagation).                    *)

GapInv ==
    /\ v1 \in Nat /\ v3 \in Int /\ v5 \subseteq Nat /\ v11 \subseteq Nat /\ v8 \in v11 \cup {0}
    /\ v10 \in Seq(Nat) /\ v12 \in Seq([epoch : Int, ts : Int])
    /\ \A b \in v11 : b <= v1
    /\ \A t \in v5 : \E b \in v11 : t - GapBeat < b /\ b <= t
    /\ \A i, j \in DOMAIN v12 : v12[i].epoch = v12[j].epoch => i = j

LEMMA GapStart == Gaps!Init => GapInv
<1> SUFFICES ASSUME Gaps!Init PROVE GapInv
  OBVIOUS
<1>1. v1 = 1 /\ v3 = 1 /\ v5 = {} /\ v8 = 0 /\ v10 = <<>> /\ v11 = {} /\ v12 = <<>>
  BY DEF Gaps!Init
<1> QED  BY <1>1 DEF GapInv

\* What an instant of capture leaves: it is within a beat's reach, and no epoch is noted a
\* second time.
LEMMA GapCaptures ==
    ASSUME GapInv, NEW block, v1' = v1 + 1, v3' = v3, Gaps!Capture(v1 + 1, block)
    PROVE  GapInv'
<1> DEFINE t == v1 + 1
<1>0. /\ v1 \in Nat /\ v3 \in Int /\ v5 \subseteq Nat /\ v11 \subseteq Nat /\ v8 \in v11 \cup {0}
      /\ v10 \in Seq(Nat) /\ v12 \in Seq([epoch : Int, ts : Int])
      /\ \A b \in v11 : b <= v1
      /\ \A x \in v5 : \E b \in v11 : x - GapBeat < b /\ b <= x
      /\ \A i, j \in DOMAIN v12 : v12[i].epoch = v12[j].epoch => i = j
  BY DEF GapInv
<1>1. CASE UNCHANGED <<v5, v7, v8, v9, v10, v11, v12>>
  <2>1. \A b \in v11 : b <= v1 + 1
    BY <1>0
  <2> QED  BY <1>0, <1>1, <2>1 DEF GapInv
<1>2. CASE /\ v5' = v5 \cup {t} /\ Gaps!NoteEpochBoundary(t) /\ Gaps!CaptureHeartbeat(t)
           /\ Gaps!CaptureBlock(t, block)
  <2>1. t \in Nat
    BY <1>0
  <2>2. v10' \in Seq(Nat)
    <3>1. v10' = v10 \/ v10' = Append(v10, t)
      BY <1>2 DEF Gaps!CaptureBlock
    <3>2. v10 \in Seq(Nat)
      BY <1>0
    <3>3. PICK x \in Nat : x = t
      BY <2>1
    <3>4. Append(v10, x) \in Seq(Nat)
      BY <3>2, <3>3
    <3> QED  BY <3>1, <3>2, <3>3, <3>4
  <2>3. /\ v11' \subseteq Nat /\ v8' \in v11' \cup {0} /\ v11 \subseteq v11'
        /\ \A b \in v11' : b <= t
        /\ \E b \in v11' : t - GapBeat < b /\ b <= t
    <3>1. CASE Gaps!BeatDue(t)
      <4>1. v8' = t /\ v11' = v11 \cup {t}
        BY <1>2, <3>1 DEF Gaps!CaptureHeartbeat
      <4> QED  BY <1>0, <2>1, <4>1, GapAssumption
    <3>2. CASE ~Gaps!BeatDue(t)
      <4>1. v8' = v8 /\ v11' = v11 /\ v8 \in v11 /\ t - v8 < GapBeat
        BY <1>0, <1>2, <3>2, GapAssumption DEF Gaps!CaptureHeartbeat, Gaps!BeatDue
      <4> QED  BY <1>0, <2>1, <4>1, GapAssumption
    <3> QED  BY <3>1, <3>2
  <2>4. \A x \in v5' : \E b \in v11' : x - GapBeat < b /\ b <= x
    BY <1>0, <1>2, <2>3
  <2>5. /\ v12' \in Seq([epoch : Int, ts : Int])
        /\ \A i, j \in DOMAIN v12' : v12'[i].epoch = v12'[j].epoch => i = j
    <3>1. CASE v12' = v12
      BY <1>0, <3>1
    <3>2. CASE /\ ~Gaps!NotedBefore(v3)
               /\ v12' = Gaps!LastOf(Append(v12, [epoch |-> v3, ts |-> t]), GapEpochs)
      <4>1. PICK s : s = Append(v12, [epoch |-> v3, ts |-> t])
        OBVIOUS
      <4>2. [epoch |-> v3, ts |-> t] \in [epoch : Int, ts : Int]
        BY <1>0, <2>1
      <4>3. /\ s \in Seq([epoch : Int, ts : Int]) /\ Len(s) = Len(v12) + 1 /\ Len(v12) \in Nat
            /\ \A i \in 1..Len(v12) : s[i] = v12[i]
            /\ s[Len(v12) + 1] = [epoch |-> v3, ts |-> t]
        BY <1>0, <4>1, <4>2
      <4>4. \A i \in 1..Len(v12) : v12[i].epoch # v3
        BY <1>0, <3>2 DEF Gaps!NotedBefore
      <4>5. \A i, j \in 1..Len(s) : s[i].epoch = s[j].epoch => i = j
        <5> SUFFICES ASSUME NEW i \in 1..Len(s), NEW j \in 1..Len(s), s[i].epoch = s[j].epoch
                     PROVE  i = j
          OBVIOUS
        <5>1. s[Len(v12) + 1].epoch = v3
          BY <4>3
        <5>2. CASE i \in 1..Len(v12) /\ j \in 1..Len(v12)
          <6>0. DOMAIN v12 = 1..Len(v12)
            BY <1>0
          <6>1. i \in DOMAIN v12 /\ j \in DOMAIN v12 /\ s[i] = v12[i] /\ s[j] = v12[j]
            BY <4>3, <5>2, <6>0
          <6>2. v12[i].epoch = v12[j].epoch
            BY <6>1
          <6>3. \A x, y \in DOMAIN v12 : v12[x].epoch = v12[y].epoch => x = y
            BY <1>0
          <6> QED  BY <6>1, <6>2, <6>3
        <5>3. CASE i = Len(v12) + 1 /\ j \in 1..Len(v12)
          BY <4>3, <4>4, <5>1, <5>3
        <5>4. CASE j = Len(v12) + 1 /\ i \in 1..Len(v12)
          BY <4>3, <4>4, <5>1, <5>4
        <5> QED  BY <4>3, <5>2, <5>3, <5>4
      <4>6. CASE Len(s) > GapEpochs
        <5>1. v12' = SubSeq(s, Len(s) - GapEpochs + 1, Len(s))
          BY <3>2, <4>1, <4>6 DEF Gaps!LastOf
        <5>2. /\ v12' \in Seq([epoch : Int, ts : Int]) /\ Len(v12') = GapEpochs
              /\ \A i \in 1..GapEpochs : v12'[i] = s[Len(s) - GapEpochs + i]
          <6>1. PICK m, n \in Nat : n = Len(s) /\ m = n - GapEpochs + 1
            <7>1. GapEpochs \in Nat /\ Len(s) \in Nat
              BY <4>3, GapAssumption
            <7>2. Len(s) - GapEpochs + 1 \in Nat
              BY <4>6, <7>1
            <7> QED  BY <7>1, <7>2
          <6>2. 1 <= m /\ m <= n + 1 /\ n - m + 1 = GapEpochs
            BY <4>3, <4>6, <6>1, GapAssumption
          <6>3. v12' = SubSeq(s, m, n)
            BY <5>1, <6>1
          <6>4. /\ SubSeq(s, m, n) \in Seq([epoch : Int, ts : Int])
                /\ Len(SubSeq(s, m, n)) = n - m + 1
                /\ \A i \in 1..(n - m + 1) : SubSeq(s, m, n)[i] = s[m + i - 1]
            <7>1. \A i \in m..n : s[i] \in [epoch : Int, ts : Int]
              <8>1. m..n \subseteq 1..Len(s)
                BY <6>1, <6>2
              <8>2. \A i \in 1..Len(s) : s[i] \in [epoch : Int, ts : Int]
                <9>1. PICK R : R = [epoch : Int, ts : Int]
                  OBVIOUS
                <9>2. s \in Seq(R)
                  BY <4>3, <9>1
                <9>3. \A i \in 1..Len(s) : s[i] \in R
                  BY <9>2
                <9> QED  BY <9>1, <9>3
              <8> QED  BY <8>1, <8>2
            <7>2. m \in Int /\ n \in Int /\ (m <= n => n - m + 1 = n - m + 1)
                  /\ (~ (m <= n) => n - m + 1 = 0)
              BY <6>1, <6>2
            <7> QED  BY <7>1, <7>2, SubSeqProperties
          <6>5. \A i \in 1..GapEpochs : s[m + i - 1] = s[Len(s) - GapEpochs + i]
            <7>1. \A i \in 1..GapEpochs : m + i - 1 = Len(s) - GapEpochs + i
              BY <4>3, <6>1, GapAssumption
            <7> QED  BY <7>1
          <6>6. n - m + 1 = GapEpochs /\ GapEpochs \in Nat
            BY <6>2, GapAssumption
          <6>7. \A i \in 1..GapEpochs : SubSeq(s, m, n)[i] = s[m + i - 1]
            BY <6>4, <6>6
          <6>8. Len(SubSeq(s, m, n)) = GapEpochs
            BY <6>4, <6>6
          <6>9. \A i \in 1..GapEpochs : v12'[i] = s[Len(s) - GapEpochs + i]
            BY <6>3, <6>5, <6>7
          <6>10. v12' \in Seq([epoch : Int, ts : Int])
            BY <6>3, <6>4, Zenon
          <6>11. Len(v12') = GapEpochs
            BY <6>3, <6>8, Zenon
          <6> QED  BY <6>9, <6>10, <6>11, Zenon
        <5>3. \A i \in 1..GapEpochs : Len(s) - GapEpochs + i \in 1..Len(s)
          <6>1. PICK n \in Nat : n = Len(s)
            BY <4>3
          <6>2. n > GapEpochs /\ GapEpochs \in Nat
            BY <4>6, <6>1, GapAssumption
          <6>3. \A i \in 1..GapEpochs : n - GapEpochs + i \in 1..n
            BY <6>2
          <6> QED  BY <6>1, <6>3
        <5>4. ASSUME NEW i \in 1..GapEpochs, NEW j \in 1..GapEpochs,
                     v12'[i].epoch = v12'[j].epoch
              PROVE  i = j
          <6>1. PICK x, y \in 1..Len(s) : x = Len(s) - GapEpochs + i /\ y = Len(s) - GapEpochs + j
            BY <5>3
          <6>2. s[x].epoch = s[y].epoch
            BY <5>2, <5>4, <6>1
          <6>3. x = y
            BY <4>5, <6>2
          <6> QED  BY <4>3, <6>1, <6>3, GapAssumption
        <5>5. DOMAIN v12' = 1..GapEpochs
          BY <5>2
        <5> QED  BY <5>2, <5>4, <5>5
      <4>7. CASE ~ (Len(s) > GapEpochs)
        <5>1. v12' = s
          BY <3>2, <4>1, <4>7 DEF Gaps!LastOf
        <5> QED  BY <4>3, <4>5, <5>1
      <4> QED  BY <4>6, <4>7
    <3> QED  BY <1>2, <3>1, <3>2 DEF Gaps!NoteEpochBoundary
  <2>6. v5' \subseteq Nat /\ v1' \in Nat /\ v1' = t /\ v3' \in Int
    BY <1>0, <1>2, <2>1
  <2> QED  BY <2>2, <2>3, <2>4, <2>5, <2>6 DEF GapInv
<1> QED  BY <1>1, <1>2 DEF Gaps!Capture

LEMMA GapNext == GapInv /\ Gaps!Next => GapInv'
<1> SUFFICES ASSUME GapInv, Gaps!Next PROVE GapInv'
  OBVIOUS
<1>1. ASSUME NEW forged \in BOOLEAN, Gaps!Tick(forged) PROVE GapInv'
  <2>1. v1' = v1 + 1 /\ v3' = v3 /\ Gaps!Capture(v1 + 1, v6')
    BY <1>1 DEF Gaps!Tick
  <2> QED  BY <2>1, GapCaptures
<1>2. ASSUME NEW forged \in BOOLEAN, Gaps!TickUnscraped(forged) PROVE GapInv'
  <2>1. v1' = v1 + 1 /\ v3' = v3 /\ Gaps!Capture(v1 + 1, v6)
    BY <1>2 DEF Gaps!TickUnscraped
  <2> QED  BY <2>1, GapCaptures
<1>3. CASE Gaps!Connect \/ Gaps!Close \/ Gaps!Disconnect \/ Gaps!NewEpoch
  <2>1. /\ UNCHANGED <<v1, v5, v10, v11, v12>> /\ v8' \in {v8, 0}
        /\ v3' \in {v3, v3 + 1} \/ v3' \in 1..GapEpoch
    BY <1>3 DEF Gaps!Connect, Gaps!Close, Gaps!Disconnect, Gaps!NewEpoch, Gaps!NextNode
  <2>2. v3' \in Int
    BY <2>1, GapAssumption DEF GapInv
  <2> QED  BY <2>1, <2>2 DEF GapInv
<1> QED  BY <1>1, <1>2, <1>3 DEF Gaps!Next

\* In the middle of a watched gap, a margin before its end, the loop was within a beat's
\* reach, which is wider than the other margin.
LEMMA GapsAreTheChains == GapInv => Gaps!WatchedGapIsTheChains
<1> SUFFICES ASSUME GapInv, NEW since \in {0, v1 \div 2},
                    NEW g \in Gaps!Gaps(Gaps!PropagationHistory(since)), (g.from..g.to) \subseteq v5
             PROVE  ~Gaps!Offline(Gaps!PropagationHistory(since), g)
  BY DEF Gaps!WatchedGapIsTheChains
<1> DEFINE h == Gaps!PropagationHistory(since)
<1>0. v1 \in Nat /\ v5 \subseteq Nat /\ v10 \in Seq(Nat) /\ v11 \subseteq Nat /\ since \in Nat
  BY DEF GapInv
<1>1. /\ h.series = {t \in Gaps!Range(v10) : t >= since} /\ h.heartbeats = {b \in v11 : b >= since}
  BY DEF Gaps!PropagationHistory
<1>2. Gaps!Range(v10) \subseteq Nat
  BY <1>0 DEF Gaps!Range
<1>3. g.from \in h.series /\ g.to \in h.series /\ g.to - g.from >= GapLength
  BY DEF Gaps!Gaps
<1>4. g.from \in Nat /\ g.to \in Nat /\ g.from >= since
  BY <1>1, <1>2, <1>3
<1> DEFINE t == g.to - GapMargin - 1
<1>5. t \in g.from..g.to
  BY <1>3, <1>4, GapAssumption
<1>6. PICK b \in v11 : t - GapBeat < b /\ b <= t
  BY <1>5 DEF GapInv
<1>7. b > g.from + GapMargin /\ b < g.to - GapMargin /\ b >= since
  BY <1>0, <1>3, <1>4, <1>6, GapAssumption
<1>8. b \in h.heartbeats
  BY <1>1, <1>6, <1>7
<1> HIDE DEF h
<1> QED  BY <1>7, <1>8 DEF Gaps!Offline, Gaps!HasBeat, h

LEMMA GapsNotedOnce == GapInv => Gaps!BoundaryOnce
<1>1. Gaps!PropagationHistory(0).boundaries \subseteq DOMAIN v12
  BY DEF Gaps!PropagationHistory
<1> QED  BY <1>1 DEF GapInv, Gaps!BoundaryOnce

-----------------------------------------------------------------------------
(* The slow blocks (SlowBlocks).                                           *)

\* A record with a live height is of the block of that height of the chain c, but for
\* the heights F, where a fork replaced it.
IsOf(r, c, F) ==
    /\ r.htLive \in BOOLEAN
    /\ r.htLive => /\ r.blockNo \in 1..Len(c)
                   /\ r.blockNo \notin F => r.block = c[r.blockNo]
\* It names the producer of the height beside it, and no producer without a height.
IsTrue(r, c, F) ==
    /\ r.resolved =>
         /\ r.blockNo \in 1..Len(c)
         /\ r.blockNo \notin F => r.pool = c[r.blockNo].pool
         /\ r.had => r.pool = r.block.pool
    /\ ~r.resolved => r.had = FALSE /\ (~r.htLive => r.blockNo = None)
SlowChain ==
    /\ v2 \in Seq(SlowBlock) /\ v3 \in Seq(SlowBlock)
    /\ 1 <= Len(v3) /\ Len(v3) <= Len(v2)
    /\ \A n \in 1..Len(v3) : n \notin v10 => v3[n] = v2[n]
    /\ v1 \in Int /\ v6 \in BOOLEAN
SlowLog ==
    /\ v5 \in Seq(SlowRecord)
    /\ \A i \in DOMAIN v5 :
         IsOf(v5[i], v2, v10) /\ (v6 \/ v5[i].htLive => IsTrue(v5[i], v2, v10))
SlowRun(w, c, F, p) ==
    w.step # "idle" =>
        /\ p = TRUE
        /\ w \in [step : {"heights", "times"}, arr : Seq(SlowRecord), pending : SUBSET Nat]
        /\ \A i \in DOMAIN w.arr : IsOf(w.arr[i], c, F) /\ IsTrue(w.arr[i], c, F)
        /\ w.pending \subseteq DOMAIN w.arr
        /\ w.step = "heights" => \A i \in w.pending : ~w.arr[i].resolved
SlowInv ==
    /\ SlowChain /\ SlowLog
    /\ DOMAIN v8 = SlowViewers /\ \A v \in SlowViewers : SlowRun(v8[v], v2, v10, v6)

LEMMA SlowStart == Slow!Init => SlowInv
<1> SUFFICES ASSUME Slow!Init PROVE SlowInv
  OBVIOUS
<1>1. /\ v1 = SlowGenesis.slot /\ v2 = <<SlowGenesis>> /\ v3 = <<SlowGenesis>>
      /\ v5 \in SlowLegacy /\ v6 = FALSE /\ v10 = {}
      /\ v8 = [v \in SlowViewers |-> [step |-> "idle"]]
  BY DEF Slow!Init, Slow!Idle
<1>2. SlowGenesis \in SlowBlock /\ SlowGenesis.slot \in Int
  BY SlowAssumption DEF SlowBlock
<1>3. SlowChain
  <2>1. \A g \in SlowBlock : <<g>> \in Seq(SlowBlock) /\ Len(<<g>>) = 1 /\ <<g>>[1] = g
    OBVIOUS
  <2>2. <<SlowGenesis>> \in Seq(SlowBlock) /\ Len(<<SlowGenesis>>) = 1 /\ <<SlowGenesis>>[1] = SlowGenesis
    BY <1>2, <2>1
  <2>3. v2 \in Seq(SlowBlock) /\ Len(v2) = 1 /\ v2[1] = SlowGenesis /\ v3 = v2
    BY <1>1, <2>2
  <2>4. v1 \in Int /\ v6 \in BOOLEAN
    BY <1>1, <1>2
  <2>5. /\ v3 \in Seq(SlowBlock) /\ 1 <= Len(v3) /\ Len(v3) <= Len(v2)
        /\ \A n \in 1..Len(v3) : v3[n] = v2[n]
    <3>1. 1 <= Len(v2) /\ Len(v2) <= Len(v2)
      BY <2>3
    <3> QED  BY <2>3, <3>1, Zenon
  <2> QED  BY <2>3, <2>4, <2>5 DEF SlowChain
<1>4. SlowLog
  <2>1. v5 \in Seq(SlowRecord)
    BY <1>1, SlowAssumption
  <2>2. ASSUME NEW i \in DOMAIN v5
        PROVE  IsOf(v5[i], v2, v10) /\ (v6 \/ v5[i].htLive => IsTrue(v5[i], v2, v10))
    <3>1. v5[i].htLive = FALSE
      BY <1>1, <2>2, SlowAssumption
    <3> QED  BY <1>1, <3>1 DEF IsOf
  <2> QED  BY <2>1, <2>2 DEF SlowLog
<1>5. DOMAIN v8 = SlowViewers /\ \A v \in SlowViewers : SlowRun(v8[v], v2, v10, v6)
  BY <1>1 DEF SlowRun
<1> QED  BY <1>3, <1>4, <1>5 DEF SlowInv

\* A record stays what it is as the chain grows and forks.
LEMMA SlowGrows ==
    ASSUME NEW r, NEW c, NEW d, NEW F, NEW G, F \subseteq G,
           Len(c) \in Nat, Len(d) \in Nat, Len(c) <= Len(d),
           \A n \in 1..Len(c) : n \notin G => c[n] = d[n]
    PROVE  /\ IsOf(r, c, F) => IsOf(r, d, G)
           /\ IsTrue(r, c, F) => IsTrue(r, d, G)
<1>1. \A n \in 1..Len(c) : n \in 1..Len(d)
  OBVIOUS
<1>2. ASSUME IsOf(r, c, F) PROVE IsOf(r, d, G)
  <2>1. r.htLive => /\ r.blockNo \in 1..Len(d)
                    /\ r.blockNo \notin G => r.block = d[r.blockNo]
    BY <1>1, <1>2 DEF IsOf
  <2> QED  BY <1>2, <2>1 DEF IsOf
<1>3. ASSUME IsTrue(r, c, F) PROVE IsTrue(r, d, G)
  <2>1. r.resolved => /\ r.blockNo \in 1..Len(d)
                      /\ r.blockNo \notin G => r.pool = d[r.blockNo].pool
    BY <1>1, <1>3 DEF IsTrue
  <2> QED  BY <1>3, <2>1 DEF IsTrue
<1> QED  BY <1>2, <1>3

LEMMA SlowExtends ==
    ASSUME SlowInv, UNCHANGED <<v5, v6, v8>>, v1' \in Int, v2' \in Seq(SlowBlock),
           v3' \in Seq(SlowBlock), Len(v2) <= Len(v2'), v10 \subseteq v10',
           \A n \in 1..Len(v2) : n \notin v10' => v2[n] = v2'[n],
           1 <= Len(v3'), Len(v3') <= Len(v2'),
           \A n \in 1..Len(v3') : n \notin v10' => v3'[n] = v2'[n]
    PROVE  SlowInv'
<1>1. Len(v2) \in Nat /\ Len(v2') \in Nat /\ v6 \in BOOLEAN
  <2>1. v2 \in Seq(SlowBlock) /\ v6 \in BOOLEAN
    BY DEF SlowInv, SlowChain
  <2> QED  BY <2>1
<1>2. \A r : /\ IsOf(r, v2, v10) => IsOf(r, v2', v10')
             /\ IsTrue(r, v2, v10) => IsTrue(r, v2', v10')
  BY <1>1, SlowGrows
<1>3. SlowChain'
  BY <1>1 DEF SlowChain
<1>4. SlowLog'
  BY <1>2 DEF SlowInv, SlowLog
<1>5. ASSUME NEW v \in SlowViewers PROVE SlowRun(v8[v], v2, v10, v6)'
  <2>1. SlowRun(v8[v], v2, v10, v6)
    BY DEF SlowInv
  <2> QED  BY <1>2, <2>1 DEF SlowRun
<1>6. DOMAIN v8' = SlowViewers
  BY DEF SlowInv
<1> QED  BY <1>3, <1>4, <1>5, <1>6 DEF SlowInv

LEMMA SlowGoesOn ==
    ASSUME SlowInv, NEW p \in SlowPools,
           Slow!Forge(p) \/ Slow!Fork(p) \/ Slow!Pass \/ Slow!Index
    PROVE  SlowInv'
<1>1. /\ v1 \in Int /\ v2 \in Seq(SlowBlock) /\ v3 \in Seq(SlowBlock)
      /\ Len(v2) \in Nat /\ Len(v3) \in Nat
      /\ 1 <= Len(v3) /\ Len(v3) <= Len(v2)
      /\ \A n \in 1..Len(v3) : n \notin v10 => v3[n] = v2[n]
  BY DEF SlowInv, SlowChain
<1>2. CASE Slow!Forge(p)
  <2>1. PICK b : b = [slot |-> v1 + 1, pool |-> p]
    OBVIOUS
  <2>2. v1' = v1 + 1 /\ v2' = Append(v2, b) /\ UNCHANGED <<v3, v5, v6, v8, v10>>
    BY <1>2, <2>1 DEF Slow!Forge
  <2>3. b \in SlowBlock
    BY <1>1, <2>1 DEF SlowBlock
  <2>4. /\ v2' \in Seq(SlowBlock) /\ Len(v2') = Len(v2) + 1
        /\ \A n \in 1..Len(v2) : v2[n] = v2'[n]
    BY <1>1, <2>2, <2>3
  <2>5. Len(v2) <= Len(v2') /\ Len(v3') <= Len(v2') /\ 1 <= Len(v3') /\ v1' \in Int
        /\ v3' \in Seq(SlowBlock) /\ v10 \subseteq v10' /\ UNCHANGED <<v5, v6, v8>>
    BY <1>1, <2>2, <2>4
  <2>6. \A n \in 1..Len(v3') : n \notin v10' => v3'[n] = v2'[n]
    BY <1>1, <2>2, <2>4
  <2> QED  BY <2>4, <2>5, <2>6, SlowExtends
<1>3. CASE Slow!Pass
  <2>1. v1' = v1 + 1 /\ UNCHANGED <<v2, v3, v5, v6, v8, v10>>
    BY <1>3 DEF Slow!Pass
  <2>2. v1' \in Int /\ Len(v2) <= Len(v2') /\ \A n \in 1..Len(v2) : v2[n] = v2'[n]
    BY <1>1, <2>1
  <2> QED  BY <1>1, <2>1, <2>2, SlowExtends
<1>4. CASE Slow!Index
  <2>1. PICK n \in DOMAIN v2 : v3' = SubSeq(v2, 1, n) /\ n >= Len(v3)
    BY <1>4 DEF Slow!Index
  <2>2. UNCHANGED <<v1, v2, v5, v6, v8, v10>>
    BY <1>4 DEF Slow!Index
  <2>3. n \in Nat /\ 1 <= n /\ n <= Len(v2)
    BY <1>1, <2>1
  <2>4. \A i \in 1..n : v2[i] \in SlowBlock
    BY <1>1, <2>3
  <2>5. /\ SubSeq(v2, 1, n) \in Seq(SlowBlock) /\ Len(SubSeq(v2, 1, n)) = n
        /\ \A i \in 1..n : SubSeq(v2, 1, n)[i] = v2[i]
    <3>1. n - 1 + 1 = n /\ \A i \in 1..n : 1 + i - 1 = i
      BY <2>3
    <3> QED  BY <2>3, <2>4, <3>1, SubSeqProperties
  <2>6. v3' \in Seq(SlowBlock) /\ Len(v3') = n /\ \A i \in 1..Len(v3') : v3'[i] = v2'[i]
    BY <2>1, <2>2, <2>5
  <2>7. 1 <= Len(v3') /\ Len(v3') <= Len(v2') /\ v1' \in Int /\ v2' \in Seq(SlowBlock)
        /\ Len(v2) <= Len(v2') /\ \A i \in 1..Len(v2) : v2[i] = v2'[i]
    BY <1>1, <2>2, <2>3, <2>6
  <2> QED  BY <2>2, <2>6, <2>7, SlowExtends
<1>5. CASE Slow!Fork(p)
  <2>1. PICK b : b = [slot |-> v1 + 1, pool |-> p]
    OBVIOUS
  <2>2. PICK k : k = Len(v2) - 1
    OBVIOUS
  <2>3. PICK q : q = SubSeq(v2, 1, k)
    OBVIOUS
  <2>4. /\ v1' = v1 + 1 /\ v2' = Append(q, b) /\ v10' = v10 \cup {Len(v2)}
        /\ UNCHANGED <<v3, v5, v6, v8>>
    BY <1>5, <2>1, <2>2, <2>3 DEF Slow!Fork
  <2>5. b \in SlowBlock
    BY <1>1, <2>1 DEF SlowBlock
  <2>6. k \in Nat /\ 1 <= k + 1 /\ k + 1 = Len(v2) /\ \A i \in 1..k : v2[i] \in SlowBlock
    BY <1>1, <2>2
  <2>7. q \in Seq(SlowBlock) /\ Len(q) = k /\ \A i \in 1..k : q[i] = v2[i]
    BY <1>1, <2>3, <2>6
  <2>8. /\ v2' \in Seq(SlowBlock) /\ Len(v2') = k + 1
        /\ \A n \in 1..k : v2'[n] = q[n]
    BY <2>4, <2>5, <2>6, <2>7
  <2>9. Len(v2) <= Len(v2') /\ v1' \in Int /\ v10 \subseteq v10'
    BY <1>1, <2>4, <2>6, <2>8
  <2>10. \A n \in 1..Len(v2) : n \notin v10' => n \in 1..k
    BY <2>4, <2>6
  <2>11. \A n \in 1..Len(v2) : n \notin v10' => v2[n] = v2'[n]
    BY <2>7, <2>8, <2>10
  <2>12. \A n \in 1..Len(v3') : n \notin v10' => v3'[n] = v2'[n]
    BY <1>1, <2>4, <2>9, <2>11
  <2>13. 1 <= Len(v3') /\ Len(v3') <= Len(v2') /\ v3' \in Seq(SlowBlock)
    BY <1>1, <2>4, <2>6, <2>8
  <2> QED  BY <2>4, <2>8, <2>9, <2>11, <2>12, <2>13, SlowExtends
<1> QED  BY <1>2, <1>3, <1>4, <1>5

\* What a record is when it is made, and once it is stripped or names a producer.
LEMMA SlowRecords ==
    ASSUME NEW r \in SlowRecord
    PROVE  /\ Slow!Stripped(r) \in SlowRecord
           /\ Slow!Stripped(r).htLive = r.htLive /\ Slow!Stripped(r).block = r.block
           /\ Slow!Stripped(r).ts = r.ts
           /\ r.htLive => Slow!Stripped(r) = r
           /\ ~r.htLive => /\ Slow!Stripped(r).blockNo = None /\ Slow!Stripped(r).resolved = FALSE
                           /\ Slow!Stripped(r).had = FALSE
BY DEF Slow!Stripped, SlowRecord

LEMMA SlowNames ==
    ASSUME NEW r \in SlowRecord, NEW p \in SlowPools
    PROVE  LET s == Slow!Named(r, p) IN
           /\ s \in SlowRecord /\ s.htLive = r.htLive /\ s.block = r.block /\ s.ts = r.ts
           /\ s.blockNo = r.blockNo /\ s.resolved = TRUE /\ s.pool = p /\ s.had = r.had
BY DEF Slow!Named, SlowRecord

\* A record that is named after the block at its height.
LEMMA SlowIsNamed ==
    ASSUME NEW r \in SlowRecord, NEW c, NEW F, IsOf(r, c, F), r.had = FALSE,
           NEW p \in SlowPools, r.blockNo \in 1..Len(c),
           r.blockNo \notin F => p = c[r.blockNo].pool
    PROVE  /\ IsOf(Slow!Named(r, p), c, F) /\ IsTrue(Slow!Named(r, p), c, F)
           /\ Slow!Named(r, p) \in SlowRecord
<1> DEFINE s == Slow!Named(r, p)
<1>1. /\ s \in SlowRecord /\ s.htLive = r.htLive /\ s.block = r.block /\ s.ts = r.ts
      /\ s.blockNo = r.blockNo /\ s.resolved = TRUE /\ s.pool = p /\ s.had = r.had
  BY SlowNames
<1> HIDE DEF s
<1>2. IsOf(s, c, F)
  BY <1>1 DEF IsOf
<1>3. IsTrue(s, c, F)
  BY <1>1 DEF IsTrue
<1> QED  BY <1>1, <1>2, <1>3 DEF s

\* What the records of a log have to be.
LEMMA SlowKept ==
    ASSUME NEW s \in Seq(SlowRecord)
    PROVE  /\ Slow!Keep(s) \in Seq(SlowRecord)
           /\ \A i \in DOMAIN Slow!Keep(s) : \E j \in DOMAIN s : Slow!Keep(s)[i] = s[j]
<1>1. Len(s) \in Nat /\ SlowCap \in Nat /\ DOMAIN s = 1..Len(s)
  BY SlowAssumption
<1>2. CASE Len(s) <= SlowCap
  <2>1. Slow!Keep(s) = s
    BY <1>1, <1>2 DEF Slow!Keep
  <2> QED  BY <2>1
<1>3. CASE Len(s) > SlowCap
  <2>1. PICK m : m = Len(s) - SlowCap + 1
    OBVIOUS
  <2>2. Slow!Keep(s) = SubSeq(s, m, Len(s))
    BY <1>1, <1>3, <2>1 DEF Slow!Keep
  <2>3. m \in Int /\ 1 <= m /\ m <= Len(s) + 1
    BY <1>1, <1>3, <2>1
  <2>4. \A i \in m..Len(s) : s[i] \in SlowRecord
    BY <1>1, <2>3
  <2>5. /\ SubSeq(s, m, Len(s)) \in Seq(SlowRecord)
        /\ Len(SubSeq(s, m, Len(s))) = IF m <= Len(s) THEN Len(s) - m + 1 ELSE 0
        /\ \A i \in 1..(Len(s) - m + 1) : SubSeq(s, m, Len(s))[i] = s[m + i - 1]
    BY <1>1, <2>3, <2>4, SubSeqProperties
  <2>6. PICK k : k = SubSeq(s, m, Len(s))
    OBVIOUS
  <2>7. /\ k \in Seq(SlowRecord) /\ Slow!Keep(s) = k
        /\ Len(k) = IF m <= Len(s) THEN Len(s) - m + 1 ELSE 0
        /\ \A i \in 1..(Len(s) - m + 1) : k[i] = s[m + i - 1]
    BY <2>2, <2>5, <2>6
  <2>8. ASSUME NEW i \in DOMAIN k PROVE \E j \in DOMAIN s : k[i] = s[j]
    <3>1. i \in Nat /\ 1 <= i /\ i <= Len(k)
      BY <2>7, <2>8
    <3>2. i \in 1..(Len(s) - m + 1) /\ m + i - 1 \in 1..Len(s)
      BY <1>1, <2>3, <2>7, <3>1
    <3> QED  BY <1>1, <2>7, <3>2
  <2> QED  BY <2>7, <2>8
<1> QED  BY <1>1, <1>2, <1>3

\* A record of the newest block comes on.
LEMMA SlowAppends ==
    ASSUME SlowInv, NEW r \in SlowRecord, IsOf(r, v2, v10), IsTrue(r, v2, v10),
           v5' = Slow!Keep(Append(v5, r)), UNCHANGED <<v1, v2, v3, v6, v8, v10>>
    PROVE  SlowInv'
<1>1. v5 \in Seq(SlowRecord)
  BY DEF SlowInv, SlowLog
<1>2. PICK s : s = Append(v5, r)
  OBVIOUS
<1>3. s \in Seq(SlowRecord) /\ \A j \in DOMAIN s : s[j] = r \/ (j \in DOMAIN v5 /\ s[j] = v5[j])
  BY <1>1, <1>2
<1>4. \A j \in DOMAIN s :
        IsOf(s[j], v2, v10) /\ (v6 \/ s[j].htLive => IsTrue(s[j], v2, v10))
  BY <1>3 DEF SlowInv, SlowLog
<1>5. v5' \in Seq(SlowRecord) /\ \A i \in DOMAIN v5' : \E j \in DOMAIN s : v5'[i] = s[j]
  BY <1>2, <1>3, SlowKept
<1>6. SlowLog'
  <2>1. \A i \in DOMAIN v5' :
          IsOf(v5'[i], v2', v10') /\ (v6' \/ v5'[i].htLive => IsTrue(v5'[i], v2', v10'))
    BY <1>4, <1>5
  <2> QED  BY <1>5, <2>1 DEF SlowLog
<1>7. SlowChain'
  BY DEF SlowInv, SlowChain
<1>8. DOMAIN v8' = SlowViewers /\ \A v \in SlowViewers : SlowRun(v8[v], v2, v10, v6)'
  BY DEF SlowInv, SlowRun
<1> QED  BY <1>6, <1>7, <1>8 DEF SlowInv

\* The tick, whether the node tells the height or not.
LEMMA SlowCaptures ==
    ASSUME SlowInv, Slow!CaptureSlow \/ Slow!CaptureUnnumbered
    PROVE  SlowInv'
<1>1. v2 \in Seq(SlowBlock) /\ v3 \in Seq(SlowBlock) /\ 1 <= Len(v3) /\ Len(v3) <= Len(v2)
      /\ v1 \in Int
  BY DEF SlowInv, SlowChain
<1>2. PICK n : n = Len(v2)
  OBVIOUS
<1>3. PICK b : b = Slow!Newest
  OBVIOUS
<1>4. n \in Nat /\ n \in 1..Len(v2) /\ b = v2[n] /\ b \in SlowBlock
  BY <1>1, <1>2, <1>3 DEF Slow!Newest
<1>5. UNCHANGED <<v1, v2, v3, v6, v8, v10>>
  BY DEF Slow!CaptureSlow, Slow!CaptureUnnumbered
<1>6. CASE Slow!CaptureSlow
  <2>1. PICK r : r = Slow!Record(n, v1, b)
    OBVIOUS
  <2>2. n # None
    BY <1>4, SlowAssumption
  <2>3. /\ r \in SlowRecord /\ r.htLive = TRUE /\ r.blockNo = n /\ r.block = b
        /\ r.resolved = FALSE /\ r.had = FALSE
    <3>1. r = [blockNo |-> n, htLive |-> TRUE, ts |-> v1, pool |-> None, resolved |-> FALSE,
               block |-> b, had |-> FALSE]
      BY <2>1, <2>2 DEF Slow!Record
    <3> QED  BY <1>1, <1>4, <3>1 DEF SlowRecord
  <2>4. IsOf(r, v2, v10) /\ IsTrue(r, v2, v10)
    BY <1>4, <2>3 DEF IsOf, IsTrue
  <2>5. v5' = Slow!Keep(Append(v5, r))
    BY <1>2, <1>3, <1>6, <2>1 DEF Slow!CaptureSlow
  <2> QED  BY <1>5, <2>3, <2>4, <2>5, SlowAppends
<1>7. CASE Slow!CaptureUnnumbered
  <2>1. PICK r : r = Slow!Record(None, v1, b)
    OBVIOUS
  <2>2. /\ r \in SlowRecord /\ r.htLive = FALSE /\ r.blockNo = None
        /\ r.resolved = FALSE /\ r.had = FALSE
    BY <1>1, <1>4, <2>1 DEF Slow!Record, SlowRecord
  <2>3. IsOf(r, v2, v10) /\ IsTrue(r, v2, v10)
    BY <2>2 DEF IsOf, IsTrue
  <2>4. v5' = Slow!Keep(Append(v5, r))
    BY <1>3, <1>7, <2>1 DEF Slow!CaptureUnnumbered
  <2> QED  BY <1>5, <2>2, <2>3, <2>4, SlowAppends
<1> QED  BY <1>6, <1>7

\* What the purge leaves names nobody it has not been told of.
LEMMA SlowPurges ==
    ASSUME SlowInv
    PROVE  /\ Slow!Purge \in Seq(SlowRecord)
           /\ \A i \in DOMAIN Slow!Purge : IsOf(Slow!Purge[i], v2, v10) /\ IsTrue(Slow!Purge[i], v2, v10)
<1>1. /\ v5 \in Seq(SlowRecord) /\ v6 \in BOOLEAN
      /\ \A i \in DOMAIN v5 : IsOf(v5[i], v2, v10) /\ (v6 \/ v5[i].htLive => IsTrue(v5[i], v2, v10))
  BY DEF SlowInv, SlowChain, SlowLog
<1>2. CASE v6
  <2>1. Slow!Purge = v5
    BY <1>2 DEF Slow!Purge
  <2> QED  BY <1>1, <1>2, <2>1
<1>3. CASE ~v6
  <2>1. PICK s : s = Slow!Purge
    OBVIOUS
  <2>2. s = [i \in DOMAIN v5 |-> Slow!Stripped(v5[i])]
    BY <1>3, <2>1 DEF Slow!Purge
  <2>3. DOMAIN s = DOMAIN v5 /\ \A i \in DOMAIN v5 : s[i] = Slow!Stripped(v5[i])
    BY <2>2
  <2>4. ASSUME NEW i \in DOMAIN v5
        PROVE  s[i] \in SlowRecord /\ IsOf(s[i], v2, v10) /\ IsTrue(s[i], v2, v10)
    <3>1. v5[i] \in SlowRecord
      BY <1>1, <2>4
    <3>2. PICK r : r = v5[i]
      OBVIOUS
    <3>3. PICK q : q = Slow!Stripped(r)
      OBVIOUS
    <3>4. r \in SlowRecord /\ IsOf(r, v2, v10) /\ (r.htLive => IsTrue(r, v2, v10)) /\ s[i] = q
      BY <1>1, <2>3, <3>1, <3>2, <3>3
    <3>5. /\ q \in SlowRecord /\ q.htLive = r.htLive /\ q.block = r.block /\ q.ts = r.ts
          /\ r.htLive => q = r
          /\ ~r.htLive => q.blockNo = None /\ q.resolved = FALSE /\ q.had = FALSE
      BY <3>3, <3>4, SlowRecords
    <3>6. IsOf(q, v2, v10)
      BY <3>4, <3>5 DEF IsOf
    <3>7. IsTrue(q, v2, v10)
      BY <3>4, <3>5 DEF IsTrue
    <3> QED  BY <3>4, <3>5, <3>6, <3>7
  <2>5. s \in Seq(SlowRecord)
    <3>1. DOMAIN v5 = 1..Len(v5) /\ Len(v5) \in Nat
      BY <1>1
    <3>2. s = [i \in 1..Len(v5) |-> s[i]]
      BY <2>2, <2>3, <3>1, Zenon
    <3>3. s \in [1..Len(v5) -> SlowRecord]
      BY <2>4, <3>1, <3>2
    <3> QED  BY <3>1, <3>3, SeqDef
  <2> QED  BY <2>1, <2>3, <2>4, <2>5
<1> QED  BY <1>1, <1>2, <1>3

\* A run or the log is set to what is true of the same chain.
LEMMA SlowSets ==
    ASSUME SlowInv, UNCHANGED <<v1, v2, v3, v10>>, v6' = TRUE,
           v5' \in Seq(SlowRecord),
           \A i \in DOMAIN v5' : IsOf(v5'[i], v2, v10) /\ IsTrue(v5'[i], v2, v10),
           NEW v \in SlowViewers, NEW w,
           SlowRun(w, v2, v10, TRUE), v8' = v8 \/ v8' = [v8 EXCEPT ![v] = w]
    PROVE  SlowInv'
<1>1. SlowChain'
  BY DEF SlowInv, SlowChain
<1>2. SlowLog'
  BY DEF SlowLog
<1>3. DOMAIN v8 = SlowViewers /\ \A u \in SlowViewers : SlowRun(v8[u], v2, v10, v6)
  BY DEF SlowInv
<1>4. \A x : SlowRun(x, v2, v10, v6) => SlowRun(x, v2', v10', v6')
  BY DEF SlowRun
<1>5. DOMAIN v8' = SlowViewers /\ \A u \in SlowViewers : v8'[u] = v8[u] \/ v8'[u] = w
  BY <1>3
<1>6. SlowRun(w, v2', v10', v6')
  OBVIOUS
<1>7. \A u \in SlowViewers : SlowRun(v8'[u], v2', v10', v6')
  BY <1>3, <1>4, <1>5, <1>6
<1> QED  BY <1>1, <1>2, <1>5, <1>7 DEF SlowInv

LEMMA SlowOpens ==
    ASSUME SlowInv, NEW v \in SlowViewers, Slow!Open(v)
    PROVE  SlowInv'
<1>1. v5' = Slow!Purge /\ v6' = TRUE /\ UNCHANGED <<v1, v2, v3, v10>> /\ Slow!Enrich(v, v5')
  BY DEF Slow!Open
<1>2. /\ v5' \in Seq(SlowRecord)
      /\ \A i \in DOMAIN v5' : IsOf(v5'[i], v2, v10) /\ IsTrue(v5'[i], v2, v10)
  BY <1>1, SlowPurges
<1>3. PICK q : q = Slow!Pending(v5')
  OBVIOUS
<1>4. PICK w : w = [step |-> "heights", arr |-> v5', pending |-> q]
  OBVIOUS
<1>5. v8' = v8 \/ v8' = [v8 EXCEPT ![v] = w]
  BY <1>1, <1>3, <1>4 DEF Slow!Enrich
<1>6. q \subseteq DOMAIN v5' /\ \A i \in q : ~v5'[i].resolved
  BY <1>3 DEF Slow!Pending
<1>7. w.step = "heights" /\ w.arr = v5' /\ w.pending = q
  BY <1>4
<1>8. w \in [step : {"heights", "times"}, arr : Seq(SlowRecord), pending : SUBSET Nat]
  <2>1. q \in SUBSET Nat
    BY <1>2, <1>6
  <2> QED  BY <1>2, <1>4, <2>1
<1>9. SlowRun(w, v2, v10, TRUE)
  BY <1>1, <1>2, <1>6, <1>7, <1>8 DEF SlowRun
<1> QED  BY <1>1, <1>2, <1>5, <1>9, SlowSets

\* A sequence whose elements are put right one by one.
LEMMA SlowRewrites ==
    ASSUME NEW s \in Seq(SlowRecord), NEW t, DOMAIN t = DOMAIN s,
           t = [i \in DOMAIN s |-> t[i]], \A i \in DOMAIN s : t[i] \in SlowRecord
    PROVE  t \in Seq(SlowRecord)
<1>1. DOMAIN s = 1..Len(s) /\ Len(s) \in Nat
  OBVIOUS
<1>2. t = [i \in 1..Len(s) |-> t[i]]
  BY <1>1, Zenon
<1>3. t \in [1..Len(s) -> SlowRecord]
  BY <1>1, <1>2
<1> QED  BY <1>1, <1>3, SeqDef

\* By its height: the node's block is db-sync's.
LEMMA SlowAnswersHeights ==
    ASSUME SlowInv, NEW v \in SlowViewers, Slow!AnswerHeights(v)
    PROVE  SlowInv'
<1>1. PICK w : w = v8[v]
  OBVIOUS
<1>2. w.step = "heights" /\ SlowRun(w, v2, v10, v6)
  BY <1>1 DEF SlowInv, Slow!AnswerHeights
<1>3. /\ v6 = TRUE /\ w \in [step : {"heights", "times"}, arr : Seq(SlowRecord), pending : SUBSET Nat]
      /\ w.pending \subseteq DOMAIN w.arr
      /\ \A i \in DOMAIN w.arr : IsOf(w.arr[i], v2, v10) /\ IsTrue(w.arr[i], v2, v10)
      /\ \A i \in w.pending : ~w.arr[i].resolved
  BY <1>2 DEF SlowRun
<1>4. PICK a : a = w.arr
  OBVIOUS
<1>5. PICK H : H = Slow!HeightsOf(v)
  OBVIOUS
<1>6. PICK f : f = Slow!Producers({a[i].blockNo : i \in H})
  OBVIOUS
<1>7. PICK hits : hits = {i \in H : a[i].blockNo \in DOMAIN f}
  OBVIOUS
<1>8. PICK t : t = [i \in DOMAIN a |-> IF i \in hits THEN Slow!Named(a[i], f[a[i].blockNo]) ELSE a[i]]
  OBVIOUS
<1>9. PICK u : u = [w EXCEPT !.step = "times", !.arr = t]
  OBVIOUS
<1>10. UNCHANGED <<v1, v2, v3, v5, v6, v10>> /\ v8' = [v8 EXCEPT ![v] = u]
  BY <1>1, <1>4, <1>5, <1>6, <1>7, <1>8, <1>9 DEF Slow!AnswerHeights
<1>11. H \subseteq DOMAIN a /\ \A i \in H : a[i].blockNo # None /\ ~a[i].resolved
  BY <1>1, <1>3, <1>4, <1>5 DEF Slow!HeightsOf
<1>12. a \in Seq(SlowRecord)
  BY <1>3, <1>4
<1>13. \A n \in DOMAIN f : n \in {a[i].blockNo : i \in H} /\ n <= Len(v3) /\ f[n] = v3[n].pool
  BY <1>6 DEF Slow!Producers
<1>14. ASSUME NEW i \in DOMAIN a
       PROVE  t[i] \in SlowRecord /\ IsOf(t[i], v2, v10) /\ IsTrue(t[i], v2, v10)
  <2>1. PICK r : r = a[i]
    OBVIOUS
  <2>2. r \in SlowRecord /\ IsOf(r, v2, v10) /\ IsTrue(r, v2, v10)
    BY <1>3, <1>4, <1>12, <1>14, <2>1
  <2>3. CASE i \notin hits
    BY <1>8, <1>14, <2>1, <2>2, <2>3
  <2>4. CASE i \in hits
    <3>1. i \in H /\ r.blockNo \in DOMAIN f
      BY <1>7, <2>1, <2>4
    <3>2. r.blockNo # None /\ ~r.resolved
      BY <1>11, <2>1, <3>1
    <3>3. r.htLive = TRUE /\ r.had = FALSE
      BY <2>2, <3>2 DEF IsOf, IsTrue
    <3>4. r.blockNo \in 1..Len(v2)
      BY <2>2, <3>3 DEF IsOf
    <3>5. r.blockNo <= Len(v3) /\ f[r.blockNo] = v3[r.blockNo].pool
      BY <1>13, <3>1
    <3>6. v3[r.blockNo] \in SlowBlock /\ (r.blockNo \notin v10 => v3[r.blockNo] = v2[r.blockNo])
      <4>1. /\ Len(v2) \in Nat /\ Len(v3) \in Nat /\ v3 \in Seq(SlowBlock)
            /\ \A n \in 1..Len(v3) : n \notin v10 => v3[n] = v2[n]
        BY DEF SlowInv, SlowChain
      <4>2. r.blockNo \in 1..Len(v3)
        BY <3>4, <3>5, <4>1
      <4> QED  BY <4>1, <4>2
    <3>7. PICK p : p = f[r.blockNo]
      OBVIOUS
    <3>8. p \in SlowPools /\ (r.blockNo \notin v10 => p = v2[r.blockNo].pool)
      BY <3>5, <3>6, <3>7 DEF SlowBlock
    <3>9. t[i] = Slow!Named(r, p)
      BY <1>8, <1>14, <2>1, <2>4, <3>7
    <3> QED  BY <2>2, <3>3, <3>4, <3>8, <3>9, SlowIsNamed
  <2> QED  BY <2>3, <2>4
<1>15. DOMAIN t = DOMAIN a /\ t = [i \in DOMAIN a |-> t[i]]
  BY <1>8
<1>16. t \in Seq(SlowRecord)
  BY <1>12, <1>14, <1>15, SlowRewrites
<1>17. /\ u.step = "times" /\ u.arr = t /\ u.pending = w.pending
       /\ u \in [step : {"heights", "times"}, arr : Seq(SlowRecord), pending : SUBSET Nat]
  BY <1>3, <1>9, <1>16
<1>18. u.pending \subseteq DOMAIN u.arr
  BY <1>3, <1>4, <1>15, <1>17
<1>19. SlowRun(u, v2, v10, TRUE)
  BY <1>3, <1>10, <1>14, <1>15, <1>17, <1>18 DEF SlowRun
<1>20. /\ v5' \in Seq(SlowRecord)
       /\ \A i \in DOMAIN v5' : IsOf(v5'[i], v2, v10) /\ IsTrue(v5'[i], v2, v10)
  BY <1>3, <1>10 DEF SlowInv, SlowLog
<1> QED  BY <1>3, <1>10, <1>19, <1>20, SlowSets

LEMMA SlowCounts == \A T : Slow!Cardinality(T) = Cardinality(T)
BY DEF Slow!Cardinality, Cardinality

\* By its time: the one block of db-sync's that is in the window.
LEMMA SlowByTime ==
    ASSUME SlowInv, NEW r \in SlowRecord, IsOf(r, v2, v10), Slow!TimeHit(r)
    PROVE  /\ Slow!ByTimeNamed(r) \in SlowRecord
           /\ IsOf(Slow!ByTimeNamed(r), v2, v10) /\ IsTrue(Slow!ByTimeNamed(r), v2, v10)
<1>1. r.blockNo = None /\ Cardinality(Slow!InWindow(r.ts)) = 1
  BY SlowCounts DEF Slow!TimeHit
<1>2. /\ v2 \in Seq(SlowBlock) /\ v3 \in Seq(SlowBlock) /\ Len(v2) \in Nat /\ Len(v3) \in Nat
      /\ DOMAIN v3 = 1..Len(v3) /\ Len(v3) <= Len(v2)
      /\ \A n \in 1..Len(v3) : n \notin v10 => v3[n] = v2[n]
  BY DEF SlowInv, SlowChain
<1>3. r.htLive = FALSE
  <2>1. r.htLive => r.blockNo \in Int
    BY <1>2 DEF IsOf
  <2> QED  BY <1>1, <2>1, SlowAssumption DEF IsOf
<1>4. PICK S : S = Slow!InWindow(r.ts)
  OBVIOUS
<1>5. S \subseteq 1..Len(v3)
  BY <1>2, <1>4 DEF Slow!InWindow
<1>6. IsFiniteSet(S)
  <2>1. IsFiniteSet(1..Len(v3))
    BY <1>2, 1 \in Int, FS_Interval
  <2> QED  BY <1>5, <2>1, FS_Subset
<1>7. PICK m : S = {m}
  BY <1>1, <1>4, <1>6, FS_Singleton
<1>8. PICK n : n = CHOOSE k \in S : TRUE
  OBVIOUS
<1>9. n = m /\ n \in 1..Len(v3) /\ n \in 1..Len(v2) /\ n \in Int
  BY <1>2, <1>5, <1>7, <1>8
<1>10. PICK p : p = v3[n].pool
  OBVIOUS
<1>11. p \in SlowPools /\ (n \notin v10 => p = v2[n].pool)
  <2>1. v3[n] \in SlowBlock
    BY <1>2, <1>9
  <2>2. n \notin v10 => v3[n] = v2[n]
    BY <1>2, <1>9
  <2> QED  BY <1>10, <2>1, <2>2 DEF SlowBlock
<1> DEFINE h == r.block \in {v3[j] : j \in S}
<1>12. h \in BOOLEAN
  OBVIOUS
<1>13. h => p = r.block.pool
  BY <1>7, <1>9, <1>10
<1>14. PICK q : q = Slow!ByTimeNamed(r)
  OBVIOUS
<1>15. PICK k : k = Slow!Named(r, p)
  OBVIOUS
<1>16. q = [k EXCEPT !.blockNo = n, !.had = h]
  BY <1>4, <1>8, <1>10, <1>14, <1>15 DEF Slow!ByTimeNamed
<1> HIDE DEF h
<1>17. /\ k \in SlowRecord /\ k.htLive = r.htLive /\ k.block = r.block
       /\ k.resolved = TRUE /\ k.pool = p
  BY <1>11, <1>15, SlowNames
<1>18. /\ q \in SlowRecord /\ q.htLive = r.htLive /\ q.block = r.block
       /\ q.resolved = TRUE /\ q.pool = p /\ q.blockNo = n /\ q.had = h
  <2>1. PICK b \in BOOLEAN : b = h
    BY <1>12
  <2>2. q = [k EXCEPT !.blockNo = n, !.had = b]
    BY <1>16, <2>1
  <2>3. /\ q \in SlowRecord /\ q.htLive = k.htLive /\ q.block = k.block
        /\ q.resolved = k.resolved /\ q.pool = k.pool /\ q.blockNo = n /\ q.had = b
    BY <1>9, <1>17, <2>1, <2>2 DEF SlowRecord
  <2> QED  BY <1>17, <2>1, <2>3
<1>19. IsOf(q, v2, v10)
  BY <1>3, <1>18 DEF IsOf
<1>20. IsTrue(q, v2, v10)
  BY <1>9, <1>11, <1>13, <1>18 DEF IsTrue
<1> QED  BY <1>14, <1>18, <1>19, <1>20

LEMMA SlowAnswersTimes ==
    ASSUME SlowInv, NEW v \in SlowViewers, Slow!AnswerTimes(v)
    PROVE  SlowInv'
<1>1. PICK w : w = v8[v]
  OBVIOUS
<1>2. w.step = "times" /\ SlowRun(w, v2, v10, v6)
  BY <1>1 DEF SlowInv, Slow!AnswerTimes
<1>3. /\ v6 = TRUE /\ w \in [step : {"heights", "times"}, arr : Seq(SlowRecord), pending : SUBSET Nat]
      /\ w.pending \subseteq DOMAIN w.arr
      /\ \A i \in DOMAIN w.arr : IsOf(w.arr[i], v2, v10) /\ IsTrue(w.arr[i], v2, v10)
  BY <1>2 DEF SlowRun
<1>4. PICK a : a = w.arr
  OBVIOUS
<1>5. PICK hits : hits = {i \in w.pending \ Slow!HeightsOf(v) : Slow!TimeHit(a[i])}
  OBVIOUS
<1>6. PICK t : t = [i \in DOMAIN a |-> IF i \in hits THEN Slow!ByTimeNamed(a[i]) ELSE a[i]]
  OBVIOUS
<1>7. UNCHANGED <<v1, v2, v3, v6, v10>> /\ v8' = [v8 EXCEPT ![v] = Slow!Idle]
  BY DEF Slow!AnswerTimes
<1>8. v5' = t \/ v5' = v5
  BY <1>1, <1>4, <1>5, <1>6 DEF Slow!AnswerTimes, Slow!Written
<1>9. a \in Seq(SlowRecord)
  BY <1>3, <1>4
<1>10. ASSUME NEW i \in DOMAIN a
       PROVE  t[i] \in SlowRecord /\ IsOf(t[i], v2, v10) /\ IsTrue(t[i], v2, v10)
  <2>1. PICK r : r = a[i]
    OBVIOUS
  <2>2. r \in SlowRecord /\ IsOf(r, v2, v10) /\ IsTrue(r, v2, v10)
    BY <1>3, <1>4, <1>9, <1>10, <2>1
  <2>3. CASE i \notin hits
    BY <1>6, <1>10, <2>1, <2>2, <2>3
  <2>4. CASE i \in hits
    <3>1. t[i] = Slow!ByTimeNamed(r)
      BY <1>6, <1>10, <2>1, <2>4
    <3>2. Slow!TimeHit(r)
      BY <1>5, <2>1, <2>4
    <3> QED  BY <2>2, <3>1, <3>2, SlowByTime
  <2> QED  BY <2>3, <2>4
<1>11. DOMAIN t = DOMAIN a /\ t = [i \in DOMAIN a |-> t[i]]
  BY <1>6
<1>12. t \in Seq(SlowRecord)
  BY <1>9, <1>10, <1>11, SlowRewrites
<1>13. /\ v5 \in Seq(SlowRecord)
       /\ \A i \in DOMAIN v5 : IsOf(v5[i], v2, v10) /\ IsTrue(v5[i], v2, v10)
  BY <1>3 DEF SlowInv, SlowLog
<1>14. /\ v5' \in Seq(SlowRecord)
       /\ \A i \in DOMAIN v5' : IsOf(v5'[i], v2, v10) /\ IsTrue(v5'[i], v2, v10)
  BY <1>8, <1>10, <1>11, <1>12, <1>13
<1>15. SlowRun(Slow!Idle, v2, v10, TRUE)
  BY DEF SlowRun, Slow!Idle
<1> QED  BY <1>3, <1>7, <1>14, <1>15, SlowSets

LEMMA SlowNext ==
    ASSUME SlowInv, Slow!Next
    PROVE  SlowInv'
<1>1. ASSUME NEW p \in SlowPools, Slow!Forge(p) PROVE SlowInv'
  BY <1>1, SlowGoesOn
<1>2. ASSUME NEW p \in SlowPools, Slow!Fork(p) PROVE SlowInv'
  BY <1>2, SlowGoesOn
<1>3. CASE Slow!Pass \/ Slow!Index
  <2>1. SlowGenesis.pool \in SlowPools
    BY SlowAssumption DEF SlowBlock
  <2> QED  BY <1>3, <2>1, SlowGoesOn
<1>4. CASE Slow!Restart
  <2>1. UNCHANGED <<v1, v2, v3, v5, v6, v10>> /\ v8' = [v \in SlowViewers |-> Slow!Idle]
    BY <1>4 DEF Slow!Restart
  <2>2. SlowChain' /\ SlowLog'
    BY <2>1 DEF SlowInv, SlowChain, SlowLog
  <2>3. DOMAIN v8' = SlowViewers /\ \A v \in SlowViewers : SlowRun(v8[v], v2, v10, v6)'
    BY <2>1 DEF SlowRun, Slow!Idle
  <2> QED  BY <2>2, <2>3 DEF SlowInv
<1>5. ASSUME NEW v \in SlowViewers,
             Slow!Open(v) \/ Slow!AnswerHeights(v) \/ Slow!AnswerTimes(v)
      PROVE  SlowInv'
  BY <1>5, SlowOpens, SlowAnswersHeights, SlowAnswersTimes
<1> QED  BY <1>1, <1>2, <1>3, <1>4, <1>5, SlowCaptures DEF Slow!Next

LEMMA SlowIsTold == ASSUME SlowInv PROVE Slow!NamesAreKnown
<1>1. v2 \in Seq(SlowBlock) /\ DOMAIN v2 = 1..Len(v2)
  BY DEF SlowInv, SlowChain
<1>2. SUFFICES ASSUME v6, NEW i \in DOMAIN v5, v5[i].resolved
               PROVE  /\ v5[i].blockNo \in DOMAIN v2
                      /\ v5[i].blockNo \notin v10 => v5[i].pool = v2[v5[i].blockNo].pool
                      /\ v5[i].htLive /\ v5[i].blockNo \notin v10 =>
                           v5[i].pool = v5[i].block.pool
                      /\ v5[i].had => v5[i].pool = v5[i].block.pool
  BY DEF Slow!NamesAreKnown
<1>3. IsOf(v5[i], v2, v10) /\ IsTrue(v5[i], v2, v10)
  BY <1>2 DEF SlowInv, SlowLog
<1> QED  BY <1>1, <1>2, <1>3 DEF IsOf, IsTrue

-----------------------------------------------------------------------------
(* Our blocks (BlockProduction).                                           *)

\* Of the slots of the pool p in the epoch e: those on chain that Koios reports at t,
\* and those whose block never came.
Known(m, p, e, t) ==
    {x \in Blocks!Times : <<p, x>> \in m /\ Blocks!EpochOf(x) = e /\ x <= t - ForgeLag}
Lost(n, l, m, p, e) ==
    {x \in l[p] : Blocks!EpochOf(x) = e /\ x <= n /\ <<p, x>> \notin m}
\* The count n, asked for at time t by a run that began in epoch e.
IsCount(n, m, p, e, t) ==
    /\ \E b \in Nat : b <= t /\ t - b <= ForgeQuery /\ e = Blocks!EpochOf(b)
    /\ n >= Cardinality(Known(m, p, e, t))
AtMost(n, lost) == n \in Nat /\ n <= Cardinality(lost)
ForgeTyped ==
    /\ v1 \in 0..ForgeTime /\ v2 \in ForgeLeads
    /\ \A p \in ForgePools : \A t : <<p, t>> \in v3 => t \in v2[p] /\ t <= v1
    /\ v4 \in ForgePools \cup {None} /\ v18 \in BOOLEAN
    /\ v6 \in ForgePools \cup {None}
    /\ v8 = None \/ v8 \in [pool : ForgePools, epoch : Int, open : BOOLEAN]
    /\ v11 \in Int /\ v11 <= v1 /\ v12 \in Nat /\ v13 \in BOOLEAN /\ DOMAIN v16 = ForgePools
    /\ \A p \in ForgePools : DOMAIN v16[p] = Blocks!Epochs
ForgeCall ==
    v14 # None =>
        /\ v14 \in ForgeRun /\ v14.open = (v4 # None)
        /\ v14.since <= v1 /\ v1 - v14.since <= ForgeQuery
        /\ \E b \in Nat : /\ b <= v14.since /\ v14.since - b <= ForgeQuery
                          /\ v14.epoch = Blocks!EpochOf(b)
                          /\ v14.stage = "schedule" => b = v14.since
        /\ v4 # None => v14.pool = v4 /\ v9 = v14.epoch
        /\ v14.stage = "count" => v4 = None \/ v11 = v14.since
ForgeCount ==
    /\ v5 = None \/ v5 = v4
    /\ v4 = None => v10 = None /\ v12 = 0
    /\ v10 # None => v10.pool = v4 /\ v10.epoch \in Int /\ v10.epoch <= Blocks!EpochOf(v1)
    /\ v10 # None /\ (v14 = None \/ v14.stage = "count") => v10.epoch >= v9
    /\ (v14 = None \/ v14.stage = "schedule") /\ v12 > 0 =>
         \E e \in Nat : IsCount(v12, v3, v4, e, v11)
ForgeTold ==
    /\ v15 # None /\ v15.pool # None /\ v15.lost # None =>
         /\ v15.pool \in ForgePools
         /\ AtMost(v15.lost, Lost(v1, v2, v3, v15.pool, v15.epoch))
    /\ \A p \in ForgePools, e \in Blocks!Epochs :
         v16[p][e] # None /\ v16[p][e].lost # None =>
           AtMost(v16[p][e].lost, Lost(v1, v2, v3, p, e))
ForgeInv == ForgeTyped /\ (~v18 => ForgeCall /\ ForgeCount /\ ForgeTold)

LEMMA ForgeCounts == \A T : Blocks!Cardinality(T) = Cardinality(T)
BY DEF Blocks!Cardinality, Cardinality

LEMMA ForgeEpochs ==
    ASSUME NEW a \in Nat, NEW b \in Nat
    PROVE  /\ Blocks!EpochOf(a) \in Nat /\ Blocks!EpochOf(b) \in Nat
           /\ a <= b => Blocks!EpochOf(a) <= Blocks!EpochOf(b)
<1>1. ForgeEpoch \in Nat \ {0}
  BY ForgeAssumption
<1>2. a \div ForgeEpoch \in Nat /\ b \div ForgeEpoch \in Nat
  BY <1>1
<1>3. a <= b => a \div ForgeEpoch <= b \div ForgeEpoch
  BY <1>1
<1> QED  BY <1>2, <1>3 DEF Blocks!EpochOf

LEMMA ForgeFinite ==
    ASSUME ForgeTyped, NEW p, NEW e
    PROVE  /\ IsFiniteSet(Blocks!Minted(p, e)) /\ Cardinality(Blocks!Minted(p, e)) \in Nat
           /\ \A t : /\ IsFiniteSet(Known(v3, p, e, t)) /\ Cardinality(Known(v3, p, e, t)) \in Nat
                     /\ Cardinality(Known(v3, p, e, t)) <= Cardinality(Blocks!Minted(p, e))
<1>1. IsFiniteSet(0..ForgeTime)
  <2>1. ForgeTime \in Int /\ 0 \in Int
    BY ForgeAssumption
  <2> QED  BY <2>1, FS_Interval
<1>2. Blocks!Minted(p, e) \in SUBSET (0..ForgeTime)
  BY DEF Blocks!Minted, Blocks!Times
<1>3. IsFiniteSet(Blocks!Minted(p, e))
  BY <1>1, <1>2, FS_Subset
<1>4. Cardinality(Blocks!Minted(p, e)) \in Nat
  BY <1>3, FS_CardinalityType
<1>5. ASSUME NEW t
      PROVE  /\ IsFiniteSet(Known(v3, p, e, t)) /\ Cardinality(Known(v3, p, e, t)) \in Nat
             /\ Cardinality(Known(v3, p, e, t)) <= Cardinality(Blocks!Minted(p, e))
  <2>1. Known(v3, p, e, t) \in SUBSET Blocks!Minted(p, e)
    BY DEF Known, Blocks!Minted
  <2>2. /\ IsFiniteSet(Known(v3, p, e, t))
        /\ Cardinality(Known(v3, p, e, t)) <= Cardinality(Blocks!Minted(p, e))
    BY <1>3, <2>1, FS_Subset
  <2> QED  BY <2>2, FS_CardinalityType
<1> QED  BY <1>3, <1>4, <1>5

LEMMA ForgeLosses ==
    ASSUME NEW n \in Nat, NEW l \in ForgeLeads, NEW m, NEW p \in ForgePools, NEW e
    PROVE  /\ IsFiniteSet(Lost(n, l, m, p, e))
           /\ Cardinality(Lost(n, l, m, p, e)) \in Nat
<1>1. l[p] \subseteq Nat
  BY ForgeAssumption
<1>2. IsFiniteSet(0..n)
  BY 0 \in Int, FS_Interval
<1>3. Lost(n, l, m, p, e) \in SUBSET (0..n)
  <2>1. \A t \in Lost(n, l, m, p, e) : t \in l[p] /\ t <= n
    BY DEF Lost
  <2> QED  BY <1>1, <2>1
<1>4. IsFiniteSet(Lost(n, l, m, p, e))
  BY <1>2, <1>3, FS_Subset
<1> QED  BY <1>4, FS_CardinalityType

\* What Koios answers: nothing, or no fewer than it has for sure.
LEMMA ForgeReported ==
    ASSUME ForgeTyped, NEW p, NEW e, NEW n \in Blocks!Reported(p, e)
    PROVE  n \in Nat /\ (n = 0 \/ n >= Cardinality(Known(v3, p, e, v1)))
<1>1. PICK k : k = Cardinality(Known(v3, p, e, v1))
  OBVIOUS
<1>2. PICK m : m = Cardinality(Blocks!Minted(p, e))
  OBVIOUS
<1>3. k \in Nat /\ m \in Nat
  BY <1>1, <1>2, ForgeFinite
<1>4. {t \in Blocks!Minted(p, e) : t <= v1 - ForgeLag} = Known(v3, p, e, v1)
  BY DEF Known, Blocks!Minted
<1>5. n \in {0} \cup k..m
  BY <1>1, <1>2, <1>4, ForgeCounts, Zenon DEF Blocks!Reported
<1> QED  BY <1>1, <1>3, <1>5

\* The slots of s that are past their grace, and how many are called lost for them.
LEMMA ForgeSettled ==
    ASSUME ForgeTyped, NEW s, s.pool \in ForgePools
    PROVE  /\ IsFiniteSet(Blocks!Settled(s)) /\ Cardinality(Blocks!Settled(s)) \in Nat
           /\ \A t \in Blocks!Settled(s) :
                t \in v2[s.pool] /\ t \in Nat /\ Blocks!EpochOf(t) = s.epoch /\ v1 - t > ForgeGrace
<1>1. v1 \in Nat /\ v2[s.pool] \subseteq Nat /\ ForgeGrace \in Nat
  BY ForgeAssumption DEF ForgeTyped
<1>2. \A t \in Blocks!Settled(s) :
        t \in v2[s.pool] /\ t \in Nat /\ Blocks!EpochOf(t) = s.epoch /\ v1 - t > ForgeGrace
  BY <1>1 DEF Blocks!Settled, Blocks!Slots
<1>3. Blocks!Settled(s) \in SUBSET (0..v1)
  BY <1>1, <1>2
<1>4. IsFiniteSet(0..v1)
  BY <1>1, 0 \in Int, FS_Interval
<1>5. IsFiniteSet(Blocks!Settled(s))
  BY <1>3, <1>4, FS_Subset
<1> QED  BY <1>2, <1>5, FS_CardinalityType

\* No slot of a later epoch than that of b is past its grace if b is not.
LEMMA ForgeUnsettled ==
    ASSUME ForgeTyped, NEW s, s.pool \in ForgePools, NEW b \in Nat,
           Blocks!EpochOf(b) < s.epoch, v1 - b <= ForgeGrace
    PROVE  Blocks!Settled(s) = {}
<1> SUFFICES ASSUME NEW t \in Blocks!Settled(s) PROVE FALSE
  OBVIOUS
<1>1. t \in Nat /\ Blocks!EpochOf(t) = s.epoch /\ v1 - t > ForgeGrace
  BY ForgeSettled
<1>2. Blocks!EpochOf(t) \in Nat /\ Blocks!EpochOf(b) \in Nat
      /\ (t <= b => Blocks!EpochOf(t) <= Blocks!EpochOf(b))
  BY <1>1, ForgeEpochs
<1>3. t > b
  BY <1>1, <1>2
<1>4. v1 \in Nat /\ ForgeGrace \in Nat
  BY ForgeAssumption DEF ForgeTyped
<1> QED  BY <1>1, <1>3, <1>4

\* A count asked for no longer ago than a refresh has all that is past its grace.
LEMMA ForgeKnows ==
    ASSUME ForgeTyped, NEW s, s.pool \in ForgePools, NEW t \in Int, v1 - t <= ForgeRefresh
    PROVE  Cardinality(Blocks!Settled(s)) <=
             Cardinality(Known(v3, s.pool, s.epoch, t)) + Cardinality(Lost(v1, v2, v3, s.pool, s.epoch))
<1>1. /\ v1 \in 0..ForgeTime /\ ForgeTime \in Nat /\ ForgeGrace \in Nat /\ ForgeLag \in Nat
      /\ ForgeRefresh \in Nat /\ ForgeRefresh + ForgeLag <= ForgeGrace
  BY ForgeAssumption DEF ForgeTyped
<1>2. PICK K : K = Known(v3, s.pool, s.epoch, t)
  OBVIOUS
<1>3. PICK M : M = Lost(v1, v2, v3, s.pool, s.epoch)
  OBVIOUS
<1>4. PICK S : S = Blocks!Settled(s)
  OBVIOUS
<1>5. ASSUME NEW x \in S PROVE x \in K \cup M
  <2>1. /\ x \in v2[s.pool] /\ x \in Nat /\ Blocks!EpochOf(x) = s.epoch
        /\ v1 - x > ForgeGrace
    BY <1>4, <1>5, ForgeSettled
  <2>2. x <= v1 /\ x <= ForgeTime /\ x <= t - ForgeLag /\ x \in 0..ForgeTime
    BY <1>1, <2>1
  <2>3. CASE <<s.pool, x>> \in v3
    <3>1. x \in Known(v3, s.pool, s.epoch, t)
      BY <2>1, <2>2, <2>3 DEF Known, Blocks!Times
    <3> QED  BY <1>2, <3>1
  <2>4. CASE <<s.pool, x>> \notin v3
    BY <1>3, <2>1, <2>2, <2>4 DEF Lost
  <2> QED  BY <2>3, <2>4
<1>6. /\ IsFiniteSet(K) /\ IsFiniteSet(M) /\ Cardinality(K) \in Nat /\ Cardinality(M) \in Nat
  <2>1. v1 \in Nat /\ v2 \in ForgeLeads
    BY <1>1 DEF ForgeTyped
  <2> QED  BY <1>2, <1>3, <2>1, ForgeFinite, ForgeLosses
<1>7. IsFiniteSet(S) /\ Cardinality(S) \in Nat
  BY <1>4, ForgeSettled
<1>8. /\ IsFiniteSet(K \cup M)
      /\ Cardinality(K \cup M) = Cardinality(K) + Cardinality(M) - Cardinality(K \cap M)
  BY <1>6, FS_Union
<1>9. Cardinality(K \cap M) \in Nat
  <2>1. K \cap M \in SUBSET K
    OBVIOUS
  <2>2. IsFiniteSet(K \cap M)
    BY <1>6, <2>1, FS_Subset
  <2> QED  BY <2>2, FS_CardinalityType
<1>10. Cardinality(S) <= Cardinality(K \cup M)
  <2>1. S \in SUBSET (K \cup M)
    BY <1>5
  <2> QED  BY <1>8, <2>1, FS_Subset
<1>11. Cardinality(S) <= Cardinality(K) + Cardinality(M)
  BY <1>6, <1>7, <1>8, <1>9, <1>10
<1> QED  BY <1>2, <1>3, <1>4, <1>11

\* The count n goes with the schedule s on a card of the epoch e.
ForgeFair(n, s, e) ==
    s # None =>
        /\ s.pool = v4 /\ v4 \in ForgePools
        /\ \/ n = 0
           \/ Blocks!Settled(s) = {}
           \/ /\ s.epoch = e
              /\ \E t \in Int : v1 - t <= ForgeRefresh /\ n >= Cardinality(Known(v3, v4, e, t))

LEMMA ForgeTells ==
    ASSUME ForgeTyped, NEW n \in Nat, NEW s, NEW e, NEW l, ForgeFair(n, s, e),
           Blocks!LostOf(n, l, s) # None
    PROVE  v4 \in ForgePools /\ AtMost(Blocks!LostOf(n, l, s), Lost(v1, v2, v3, v4, e))
<1>1. s # None /\ l
  BY DEF Blocks!LostOf
<1>2. s.pool = v4 /\ v4 \in ForgePools
  BY <1>1 DEF ForgeFair
<1>3. PICK k : k = Cardinality(Blocks!Settled(s))
  OBVIOUS
<1>4. k \in Nat
  BY <1>2, <1>3, ForgeSettled
<1>5. PICK m : m = Cardinality(Lost(v1, v2, v3, v4, e))
  OBVIOUS
<1>6. m \in Nat
  <2>1. v1 \in Nat /\ v2 \in ForgeLeads
    BY ForgeAssumption DEF ForgeTyped
  <2> QED  BY <1>2, <1>5, <2>1, ForgeLosses
<1>7. PICK lost : lost = Blocks!LostOf(n, l, s)
  OBVIOUS
<1>8. lost = IF k > 0 /\ n = 0 THEN None ELSE IF k > n THEN k - n ELSE 0
  BY <1>1, <1>3, <1>7, ForgeCounts DEF Blocks!LostOf
<1>9. ~(k > 0 /\ n = 0)
  BY <1>7, <1>8
<1>10. lost = IF k > n THEN k - n ELSE 0
  BY <1>8, <1>9
<1>11. ASSUME n = 0
       PROVE  lost \in Nat /\ lost <= m
  BY <1>4, <1>6, <1>9, <1>10, <1>11
<1>12. ASSUME Blocks!Settled(s) = {}
       PROVE  lost \in Nat /\ lost <= m
  <2>1. k = 0
    BY <1>3, <1>12, FS_EmptySet
  <2> QED  BY <1>4, <1>6, <1>10, <2>1
<1>13. ASSUME s.epoch = e, \E t \in Int : v1 - t <= ForgeRefresh /\ n >= Cardinality(Known(v3, v4, e, t))
       PROVE  lost \in Nat /\ lost <= m
  <2>1. PICK t \in Int : v1 - t <= ForgeRefresh /\ n >= Cardinality(Known(v3, v4, e, t))
    BY <1>13
  <2>2. PICK j : j = Cardinality(Known(v3, v4, e, t))
    OBVIOUS
  <2>3. j \in Nat
    BY <1>2, <2>2, ForgeFinite
  <2>4. k <= j + m
    BY <1>2, <1>3, <1>5, <1>13, <2>1, <2>2, ForgeKnows
  <2>5. n >= j
    BY <2>1, <2>2
  <2> QED  BY <1>4, <1>6, <1>10, <2>3, <2>4, <2>5
<1>14. lost \in Nat /\ lost <= m
  <2>1. n = 0 \/ Blocks!Settled(s) = {} \/ (s.epoch = e /\ \E t \in Int : v1 - t <= ForgeRefresh /\ n >= Cardinality(Known(v3, v4, e, t)))
    BY <1>1 DEF ForgeFair
  <2> QED  BY <1>11, <1>12, <1>13, <2>1
<1> QED  BY <1>2, <1>5, <1>7, <1>14, ForgeCounts DEF AtMost

\* A run that ends tells no more lost than were.
LEMMA ForgePublishes ==
    ASSUME ForgeTyped, ForgeTold, UNCHANGED <<v1, v2, v3, v4>>,
           NEW n \in Nat, NEW s, NEW c, NEW l, NEW dirty, ForgeFair(n, s, c.epoch),
           Blocks!Publish(c, n, l, s, dirty)
    PROVE  ForgeTold' /\ v14' = None /\ DOMAIN v16' = ForgePools
           /\ \A p \in ForgePools : DOMAIN v16'[p] = Blocks!Epochs
<1>1. PICK lost : lost = Blocks!LostOf(n, l, s)
  OBVIOUS
<1>2. lost # None => v4 \in ForgePools /\ AtMost(lost, Lost(v1, v2, v3, v4, c.epoch))
  BY <1>1, ForgeTells
<1>3. /\ v15' = Blocks!Card(c.epoch, c.ideal, n, l, s) /\ v14' = None
      /\ v16' = IF dirty /\ v4 # None
                THEN [v16 EXCEPT ![v4][c.epoch] =
                        [lost |-> Blocks!Card(c.epoch, c.ideal, n, l, s).lost, ideal |-> c.ideal]]
                ELSE v16
  BY Zenon DEF Blocks!Publish
<1>4. v15'.epoch = c.epoch /\ v15'.pool = v4 /\ v15'.lost = lost
      /\ Blocks!Card(c.epoch, c.ideal, n, l, s).lost = lost
  BY <1>1, <1>3 DEF Blocks!Card
<1>5. PICK r : r = [lost |-> lost, ideal |-> c.ideal]
  OBVIOUS
<1>6. v16' = v16 \/ v16' = [v16 EXCEPT ![v4][c.epoch] = r]
  BY <1>3, <1>4, <1>5
<1>7. r.lost = lost
  BY <1>5
<1>10. DOMAIN v16 = ForgePools /\ \A p \in ForgePools : DOMAIN v16[p] = Blocks!Epochs
  BY DEF ForgeTyped
<1>11. DOMAIN v16' = ForgePools /\ \A p \in ForgePools : DOMAIN v16'[p] = Blocks!Epochs
  BY <1>6, <1>10
<1>12. \A p \in ForgePools, e \in Blocks!Epochs :
         v16'[p][e] = v16[p][e] \/ (p = v4 /\ e = c.epoch /\ v16'[p][e] = r)
  BY <1>6, <1>10
<1>13. ASSUME NEW p \in ForgePools, NEW e \in Blocks!Epochs,
              v16'[p][e] # None, v16'[p][e].lost # None
       PROVE  AtMost(v16'[p][e].lost, Lost(v1, v2, v3, p, e))
  <2>1. CASE v16'[p][e] = v16[p][e]
    BY <1>13, <2>1 DEF ForgeTold
  <2>2. CASE p = v4 /\ e = c.epoch /\ v16'[p][e] = r
    BY <1>2, <1>7, <1>13, <2>2
  <2> QED  BY <1>12, <2>1, <2>2
<1>14. v15'.lost # None => v15'.pool \in ForgePools /\ AtMost(v15'.lost, Lost(v1, v2, v3, v15'.pool, v15'.epoch))
  BY <1>2, <1>4
<1>15. ForgeTold'
  BY <1>13, <1>14 DEF ForgeTold
<1> QED  BY <1>3, <1>11, <1>15

\* What a step may do to what is typed.
LEMMA ForgeKeepsTypes ==
    ASSUME ForgeTyped, UNCHANGED <<v1, v2, v3>>, v4' \in ForgePools \cup {None},
           v18' \in BOOLEAN, v11' \in {v11, v1, -1}, v12' \in Nat, v13' \in BOOLEAN,
           v6' \in ForgePools \cup {None},
           v8' = None \/ v8' \in [pool : ForgePools, epoch : Int, open : BOOLEAN],
           DOMAIN v16' = ForgePools, \A p \in ForgePools : DOMAIN v16'[p] = Blocks!Epochs
    PROVE  ForgeTyped'
<1>1. v11' \in Int /\ v11' <= v1'
  BY DEF ForgeTyped
<1> QED  BY <1>1 DEF ForgeTyped

LEMMA ForgeWrites ==
    ASSUME ForgeTyped, NEW c, NEW n, NEW l, NEW s, NEW dirty, Blocks!Publish(c, n, l, s, dirty)
    PROVE  DOMAIN v16' = ForgePools /\ \A p \in ForgePools : DOMAIN v16'[p] = Blocks!Epochs
<1>1. PICK r : r = [lost |-> Blocks!Card(c.epoch, c.ideal, n, l, s).lost, ideal |-> c.ideal]
  OBVIOUS
<1>2. v16' = v16 \/ v16' = [v16 EXCEPT ![v4][c.epoch] = r]
  BY <1>1 DEF Blocks!Publish
<1> QED  BY <1>2 DEF ForgeTyped

LEMMA ForgeReads ==
    ASSUME ForgeTyped, NEW c, NEW s, NEW dirty, Blocks!CountOrPublish(c, s, dirty)
    PROVE  /\ v11' \in {v11, v1} /\ UNCHANGED <<v12, v13>>
           /\ DOMAIN v16' = ForgePools /\ \A p \in ForgePools : DOMAIN v16'[p] = Blocks!Epochs
<1>1. v11' \in {v11, v1} /\ UNCHANGED <<v12, v13>>
  BY DEF Blocks!CountOrPublish
<1>2. UNCHANGED v16 \/ Blocks!Publish(c, v12, v13, s, TRUE) \/ Blocks!Publish(c, v12, v13, s, dirty)
  BY DEF Blocks!CountOrPublish
<1>3. CASE UNCHANGED v16
  BY <1>1, <1>3 DEF ForgeTyped
<1>4. CASE Blocks!Publish(c, v12, v13, s, TRUE) \/ Blocks!Publish(c, v12, v13, s, dirty)
  BY <1>1, <1>4, ForgeWrites
<1> QED  BY <1>2, <1>3, <1>4

\* A count that is not due goes with the schedule of the epoch.
LEMMA ForgeIsRecent ==
    ASSUME ForgeTyped, NEW s, s.pool = v4, v4 \in ForgePools, s.epoch = Blocks!EpochOf(v1),
           v12 > 0 => \E e \in Nat : IsCount(v12, v3, v4, e, v11), ~Blocks!Due,
           NEW b \in Nat, b <= v1, v1 - b <= ForgeQuery
    PROVE  ForgeFair(v12, s, Blocks!EpochOf(b))
<1>1. /\ ForgeQuery \in Nat /\ ForgeGrace \in Nat /\ ForgeRefresh \in Nat
      /\ ForgeQuery <= ForgeGrace /\ ForgeQuery + ForgeRefresh <= ForgeGrace
      /\ v1 \in Nat /\ v11 \in Int /\ v11 <= v1 /\ v12 \in Nat
  BY ForgeAssumption DEF ForgeTyped
<1>2. v1 - v11 <= ForgeRefresh
  BY <1>1 DEF Blocks!Due
<1>3. ASSUME NEW a \in Nat, a <= v1, Blocks!EpochOf(a) # Blocks!EpochOf(v1), v1 - a <= ForgeGrace
      PROVE  Blocks!Settled(s) = {}
  <2>1. Blocks!EpochOf(a) <= Blocks!EpochOf(v1) /\ Blocks!EpochOf(a) \in Nat /\ Blocks!EpochOf(v1) \in Nat
    BY <1>1, <1>3, ForgeEpochs
  <2>2. Blocks!EpochOf(a) < s.epoch
    BY <1>3, <2>1
  <2> QED  BY <1>3, <2>2, ForgeUnsettled
<1>4. CASE v12 = 0
  BY <1>4 DEF ForgeFair
<1>5. CASE Blocks!EpochOf(b) # Blocks!EpochOf(v1)
  <2>1. v1 - b <= ForgeGrace
    BY <1>1
  <2>2. Blocks!Settled(s) = {}
    BY <1>3, <1>5, <2>1
  <2> QED  BY <2>2 DEF ForgeFair
<1>6. CASE v12 # 0 /\ Blocks!EpochOf(b) = Blocks!EpochOf(v1)
  <2>1. v12 > 0
    BY <1>1, <1>6
  <2>2. PICK e \in Nat : IsCount(v12, v3, v4, e, v11)
    BY <2>1
  <2>3. PICK a \in Nat : a <= v11 /\ v11 - a <= ForgeQuery /\ e = Blocks!EpochOf(a)
    BY <2>2 DEF IsCount
  <2>4. a <= v1 /\ v1 - a <= ForgeGrace
    BY <1>1, <1>2, <2>3
  <2>5. CASE e # Blocks!EpochOf(v1)
    <3>1. Blocks!Settled(s) = {}
      BY <1>3, <2>3, <2>4, <2>5
    <3> QED  BY <3>1 DEF ForgeFair
  <2>6. CASE e = Blocks!EpochOf(v1)
    <3>1. v12 >= Cardinality(Known(v3, v4, e, v11))
      BY <2>2 DEF IsCount
    <3>2. v11 \in Int /\ v1 - v11 <= ForgeRefresh /\ e = Blocks!EpochOf(b) /\ s.epoch = e
      BY <1>1, <1>2, <1>6, <2>6
    <3> QED  BY <3>1, <3>2 DEF ForgeFair
  <2> QED  BY <2>5, <2>6
<1> QED  BY <1>4, <1>5, <1>6

\* A run whose schedule is in hand publishes, or asks Koios.
LEMMA ForgeGoesOn ==
    ASSUME ForgeTyped, ForgeTold, UNCHANGED <<v1, v2, v3, v4>>, v5 = None \/ v5 = v4,
           v4 = None => v12 = 0,
           v12 > 0 => \E e \in Nat : IsCount(v12, v3, v4, e, v11),
           NEW s, v4 = None => s = None, s # None => s.pool = v4 /\ s.epoch = Blocks!EpochOf(v1),
           NEW c, c \in ForgeRun, c.open = (v4 # None),
           NEW b \in Nat, b <= v1, v1 - b <= ForgeQuery, c.epoch = Blocks!EpochOf(b),
           NEW dirty, Blocks!CountOrPublish(c, s, dirty)
    PROVE  /\ ForgeTold' /\ (v5' = None \/ v5' = v4) /\ UNCHANGED v12
           /\ \/ v14' = None /\ (v12 > 0 => v11' = v11)
              \/ /\ v14' # None /\ v14' \in ForgeRun /\ v14'.stage = "count" /\ v14'.since = v1 /\ v14'.pool = v4
                 /\ v14'.epoch = c.epoch /\ v14'.open = (v4 # None) /\ v11' = v1
<1>1. v4 \in ForgePools \cup {None} /\ None \notin ForgePools /\ v12 \in Nat
  BY ForgeAssumption DEF ForgeTyped
<1>2. CASE Blocks!Due /\ Blocks!Bech = None
  <2>1. v5' = Blocks!Bech /\ UNCHANGED v12 /\ Blocks!Publish(c, v12, v13, s, TRUE)
    BY <1>2 DEF Blocks!CountOrPublish
  <2>2. v4 = None
    BY <1>1, <1>2 DEF Blocks!Bech
  <2>3. ForgeFair(v12, s, c.epoch)
    BY <2>2 DEF ForgeFair
  <2>4. ForgeTold' /\ v14' = None
    BY <1>1, <2>1, <2>3, ForgePublishes
  <2> QED  BY <1>1, <1>2, <2>1, <2>2, <2>4
<1>3. CASE Blocks!Due /\ Blocks!Bech # None
  <2>1. /\ v5' = Blocks!Bech /\ v11' = v1 /\ UNCHANGED <<v12, v15, v16>>
        /\ v14' = [c EXCEPT !.stage = "count", !.pool = Blocks!Bech, !.since = v1]
    BY <1>3 DEF Blocks!CountOrPublish
  <2>2. Blocks!Bech = v4 /\ v4 \in ForgePools
    BY <1>1, <1>3 DEF Blocks!Bech
  <2>3. ForgeTold'
    BY <2>1 DEF ForgeTold
  <2>4. v1 \in Nat
    BY DEF ForgeTyped
  <2>5. /\ v14'.stage = "count" /\ v14'.since = v1 /\ v14'.pool = v4
        /\ v14'.epoch = c.epoch /\ v14'.open = c.open /\ v14' \in ForgeRun
    BY <2>1, <2>2, <2>4 DEF ForgeRun
  <2>6. v14' # None
    BY <2>5, ForgeAssumption
  <2> QED  BY <2>1, <2>2, <2>3, <2>5, <2>6
<1>4. CASE ~Blocks!Due
  <2>1. UNCHANGED <<v5, v11, v12>> /\ Blocks!Publish(c, v12, v13, s, dirty)
    BY <1>4 DEF Blocks!CountOrPublish
  <2>2. ForgeFair(v12, s, c.epoch)
    <3>1. CASE s = None
      BY <3>1 DEF ForgeFair
    <3>2. CASE s # None
      <4>1. v4 \in ForgePools /\ s.pool = v4 /\ s.epoch = Blocks!EpochOf(v1)
        BY <1>1, <3>2
      <4> QED  BY <1>4, <4>1, ForgeIsRecent
    <3> QED  BY <3>1, <3>2
  <2>3. ForgeTold' /\ v14' = None
    BY <1>1, <2>1, <2>2, ForgePublishes
  <2> QED  BY <2>1, <2>3
<1> QED  BY <1>2, <1>3, <1>4

LEMMA ForgeStart == Blocks!Init => ForgeInv
<1> SUFFICES ASSUME Blocks!Init PROVE ForgeInv
  OBVIOUS
<1>1. /\ v1 = 0 /\ v2 \in ForgeLeads /\ v3 = {} /\ v4 \in ForgePools /\ v5 = None
      /\ v6 = None /\ v8 = None /\ v10 = None /\ v11 = -1 /\ v12 = 0 /\ v13 = FALSE
      /\ v14 = None /\ v15 = None /\ v18 = FALSE
      /\ v16 = [p \in ForgePools |-> [e \in Blocks!Epochs |-> None]]
  BY DEF Blocks!Init, Blocks!Never
<1>2. ForgeTyped
  <2>1. DOMAIN v16 = ForgePools /\ \A p \in ForgePools : DOMAIN v16[p] = Blocks!Epochs
    BY <1>1
  <2>2. v1 \in 0..ForgeTime /\ v11 \in Int /\ v11 <= v1 /\ v12 \in Nat
    BY <1>1, ForgeAssumption
  <2>3. \A p \in ForgePools : \A t : <<p, t>> \in v3 => t \in v2[p] /\ t <= v1
    BY <1>1
  <2> QED  BY <1>1, <2>1, <2>2, <2>3 DEF ForgeTyped
<1>3. ForgeCall /\ ForgeCount
  BY <1>1, ForgeAssumption DEF ForgeCall, ForgeCount
<1>4. ForgeTold
  <2>1. \A p \in ForgePools, e \in Blocks!Epochs : v16[p][e] = None
    BY <1>1
  <2> QED  BY <1>1, <2>1 DEF ForgeTold
<1> QED  BY <1>2, <1>3, <1>4 DEF ForgeInv

\* What is lost stays lost, and what Koios is sure to have is known already.
LEMMA ForgeAges ==
    ASSUME ForgeInv, Blocks!Tick
    PROVE  ForgeInv'
<1>1. ForgeTyped /\ (~v18 => ForgeCall /\ ForgeCount /\ ForgeTold)
  BY DEF ForgeInv
<1>2. /\ v1 < ForgeTime /\ v1' = v1 + 1 /\ (v14 # None => v1 - v14.since < ForgeQuery)
      /\ UNCHANGED <<v2, v4, v5, v6, v8, v9, v10, v11, v12, v13, v14, v15, v16, v18>>
  BY DEF Blocks!Tick, Blocks!session, Blocks!idealVars, Blocks!bpVars
<1>3. PICK won \in SUBSET {p \in ForgePools : v1 + 1 \in v2[p]} : v3' = v3 \cup (won \X {v1 + 1})
  BY DEF Blocks!Tick
<1>4. v1 \in Nat /\ ForgeTime \in Nat /\ v1' \in 0..ForgeTime /\ ForgeQuery \in Nat /\ ForgeLag \in Nat
      /\ v11 \in Int /\ v11 <= v1
  BY <1>1, <1>2, ForgeAssumption DEF ForgeTyped
<1>5. \A p, t : <<p, t>> \in v3' <=> <<p, t>> \in v3 \/ (p \in won /\ t = v1 + 1)
  BY <1>3
<1>6. ForgeTyped'
  <2>1. \A p \in ForgePools : \A t : <<p, t>> \in v3' => t \in v2'[p] /\ t <= v1'
    <3> SUFFICES ASSUME NEW p \in ForgePools, NEW t, <<p, t>> \in v3'
                 PROVE  t \in v2[p] /\ t <= v1 + 1
      BY <1>2
    <3>1. CASE <<p, t>> \in v3
      <4>1. t \in v2[p] /\ t <= v1 /\ v2[p] \subseteq Nat
        BY <1>1, <3>1, ForgeAssumption DEF ForgeTyped
      <4> QED  BY <1>4, <4>1
    <3>2. CASE p \in won /\ t = v1 + 1
      BY <1>3, <1>4, <3>2
    <3> QED  BY <1>5, <3>1, <3>2
  <2>2. v11 <= v1'
    BY <1>2, <1>4
  <2> QED  BY <1>1, <1>2, <1>4, <2>1, <2>2 DEF ForgeTyped
<1>7. ASSUME ~v18 PROVE ForgeCall' /\ ForgeCount' /\ ForgeTold'
  <2>1. ForgeCall /\ ForgeCount /\ ForgeTold
    BY <1>1, <1>7
  <2>2. ForgeCall'
    <3> SUFFICES ASSUME v14 # None PROVE ForgeCall'
      BY <1>2 DEF ForgeCall
    <3>1. /\ v14 \in ForgeRun /\ v14.open = (v4 # None)
          /\ v14.since <= v1
          /\ \E b \in Nat : /\ b <= v14.since /\ v14.since - b <= ForgeQuery
                            /\ v14.epoch = Blocks!EpochOf(b)
                            /\ v14.stage = "schedule" => b = v14.since
          /\ v4 # None => v14.pool = v4 /\ v9 = v14.epoch
          /\ v14.stage = "count" => v4 = None \/ v11 = v14.since
      BY <2>1 DEF ForgeCall
    <3>2. v14.since \in Nat /\ v1 - v14.since < ForgeQuery
      BY <1>2, <3>1 DEF ForgeRun
    <3>3. v14.since <= v1' /\ v1' - v14.since <= ForgeQuery
      BY <1>2, <1>4, <3>1, <3>2
    <3> QED  BY <1>2, <3>1, <3>3 DEF ForgeCall
  <2>3. ForgeCount'
    <3>1. \A e : IsCount(v12, v3, v4, e, v11) => IsCount(v12, v3', v4, e, v11)
      <4> SUFFICES ASSUME NEW e PROVE Known(v3', v4, e, v11) = Known(v3, v4, e, v11)
        BY DEF IsCount
      <4>1. ASSUME NEW x \in Blocks!Times, x <= v11 - ForgeLag
            PROVE  <<v4, x>> \in v3' <=> <<v4, x>> \in v3
        <5>1. x \in Nat /\ x # v1 + 1
          BY <1>4, <4>1 DEF Blocks!Times
        <5> QED  BY <1>5, <5>1
      <4> QED  BY <4>1 DEF Known
    <3>2. Blocks!EpochOf(v1) \in Nat /\ Blocks!EpochOf(v1') \in Nat
          /\ Blocks!EpochOf(v1) <= Blocks!EpochOf(v1')
      <4>1. v1' \in Nat /\ v1 <= v1'
        BY <1>2, <1>4
      <4> QED  BY <1>4, <4>1, ForgeEpochs
    <3>3. /\ v5 = None \/ v5 = v4
          /\ v4 = None => v10 = None /\ v12 = 0
          /\ v10 # None => v10.pool = v4 /\ v10.epoch \in Int /\ v10.epoch <= Blocks!EpochOf(v1)
          /\ v10 # None /\ (v14 = None \/ v14.stage = "count") => v10.epoch >= v9
          /\ (v14 = None \/ v14.stage = "schedule") /\ v12 > 0 =>
               \E e \in Nat : IsCount(v12, v3, v4, e, v11)
      BY <2>1 DEF ForgeCount
    <3>4. v10 # None => v10.pool = v4 /\ v10.epoch \in Int /\ v10.epoch <= Blocks!EpochOf(v1')
      BY <3>2, <3>3
    <3>5. (v14 = None \/ v14.stage = "schedule") /\ v12 > 0 =>
            \E e \in Nat : IsCount(v12, v3', v4, e, v11)
      BY <3>1, <3>3
    <3> QED  BY <1>2, <3>3, <3>4, <3>5 DEF ForgeCount
  <2>4. ForgeTold'
    <3>1. \A p \in ForgePools : \A e, n :
            AtMost(n, Lost(v1, v2, v3, p, e)) => AtMost(n, Lost(v1', v2', v3', p, e))
      <4> SUFFICES ASSUME NEW p \in ForgePools, NEW e
                   PROVE  Cardinality(Lost(v1, v2, v3, p, e)) <= Cardinality(Lost(v1', v2', v3', p, e))
                          /\ Cardinality(Lost(v1, v2, v3, p, e)) \in Nat
                          /\ Cardinality(Lost(v1', v2', v3', p, e)) \in Nat
        BY DEF AtMost
      <4>1. Lost(v1, v2, v3, p, e) \subseteq Lost(v1', v2', v3', p, e)
        <5> SUFFICES ASSUME NEW t \in Lost(v1, v2, v3, p, e)
                     PROVE  t \in Lost(v1', v2', v3', p, e)
          OBVIOUS
        <5>1. /\ t \in v2[p] /\ Blocks!EpochOf(t) = e /\ t <= v1
              /\ <<p, t>> \notin v3
          BY DEF Lost
        <5>2. t \in Nat
          BY <1>1, <5>1, ForgeAssumption DEF ForgeTyped
        <5>3. t <= v1' /\ <<p, t>> \notin v3'
          BY <1>2, <1>4, <1>5, <5>1, <5>2
        <5> QED  BY <1>2, <5>1, <5>3 DEF Lost
      <4>2. IsFiniteSet(Lost(v1, v2, v3, p, e)) /\ Cardinality(Lost(v1, v2, v3, p, e)) \in Nat
        BY <1>1, <1>4, ForgeLosses DEF ForgeTyped
      <4>3. IsFiniteSet(Lost(v1', v2', v3', p, e)) /\ Cardinality(Lost(v1', v2', v3', p, e)) \in Nat
        <5>1. v1' \in Nat /\ v2' \in ForgeLeads
          BY <1>4, <1>6 DEF ForgeTyped
        <5> QED  BY <5>1, ForgeLosses
      <4> QED  BY <4>1, <4>2, <4>3, FS_Subset
    <3>2. v15' # None /\ v15'.pool # None /\ v15'.lost # None =>
            v15'.pool \in ForgePools /\ AtMost(v15'.lost, Lost(v1', v2', v3', v15'.pool, v15'.epoch))
      BY <1>2, <2>1, <3>1 DEF ForgeTold
    <3>3. \A p \in ForgePools, e \in Blocks!Epochs :
            v16'[p][e] # None /\ v16'[p][e].lost # None =>
              AtMost(v16'[p][e].lost, Lost(v1', v2', v3', p, e))
      BY <1>2, <2>1, <3>1 DEF ForgeTold
    <3> QED  BY <3>2, <3>3 DEF ForgeTold
  <2> QED  BY <2>2, <2>3, <2>4
<1> QED  BY <1>2, <1>6, <1>7 DEF ForgeInv

LEMMA ForgeIdeal ==
    ASSUME ForgeInv, Blocks!IdealAnswer
    PROVE  ForgeInv'
<1>1. ForgeTyped /\ v8 # None
  BY DEF ForgeInv, Blocks!IdealAnswer
<1>2. /\ UNCHANGED <<v1, v2, v3, v4, v5, v9, v10, v11, v12, v13, v14, v15, v16, v18>>
      /\ v8' = None /\ v6' \in {None, v8.pool}
  BY DEF Blocks!IdealAnswer, Blocks!session, Blocks!bpVars
<1>3. v8.pool \in ForgePools
  BY <1>1 DEF ForgeTyped
<1>4. ForgeTyped'
  BY <1>1, <1>2, <1>3 DEF ForgeTyped
<1>5. (ForgeCall => ForgeCall') /\ (ForgeCount => ForgeCount') /\ (ForgeTold => ForgeTold')
  BY <1>2 DEF ForgeCall, ForgeCount, ForgeTold
<1> QED  BY <1>2, <1>4, <1>5 DEF ForgeInv

\* A run goes on: what it leaves.
LEMMA ForgeAsks ==
    ASSUME ForgeTyped, ForgeTyped', ForgeCall, ForgeCount, UNCHANGED <<v1, v2, v3, v4>>,
           ForgeTold', v5' = None \/ v5' = v4, UNCHANGED v12,
           NEW c, NEW b \in Nat, b <= v1, v1 - b <= ForgeQuery, c.epoch = Blocks!EpochOf(b),
           v4 # None => v9' = c.epoch,
           v10' # None => /\ v4 # None /\ v10'.pool = v4 /\ v10'.epoch = Blocks!EpochOf(v1)
                          /\ v10'.epoch >= c.epoch,
           v14 = None \/ v14.stage = "schedule",
           \/ v14' = None /\ (v12 > 0 => v11' = v11)
           \/ /\ v14' # None /\ v14' \in ForgeRun /\ v14'.stage = "count" /\ v14'.since = v1
              /\ v14'.pool = v4 /\ v14'.epoch = c.epoch /\ v14'.open = (v4 # None) /\ v11' = v1
    PROVE  ForgeCall' /\ ForgeCount'
<1>1. v1 \in Nat
  BY DEF ForgeTyped
<1>2. Blocks!EpochOf(v1) \in Nat
  BY <1>1, ForgeEpochs
<1>3. ForgeCall'
  <2> SUFFICES ASSUME v14' # None PROVE ForgeCall'
    BY DEF ForgeCall
  <2>1. /\ v14' \in ForgeRun /\ v14'.stage = "count" /\ v14'.since = v1
        /\ v14'.pool = v4 /\ v14'.epoch = c.epoch /\ v14'.open = (v4 # None) /\ v11' = v1
    OBVIOUS
  <2>2. v14'.since <= v1' /\ v1' - v14'.since <= ForgeQuery
    BY <1>1, <2>1, ForgeAssumption
  <2>3. b <= v14'.since /\ v14'.since - b <= ForgeQuery /\ v14'.epoch = Blocks!EpochOf(b)
        /\ v14'.stage # "schedule"
    BY <2>1
  <2>4. v4' # None => v14'.pool = v4' /\ v9' = v14'.epoch
    BY <2>1
  <2>5. v14'.open = (v4' # None)
    BY <2>1
  <2>6. \E a \in Nat : /\ a <= v14'.since /\ v14'.since - a <= ForgeQuery
                       /\ v14'.epoch = Blocks!EpochOf(a)
                       /\ v14'.stage = "schedule" => a = v14'.since
    BY <2>3
  <2> QED  BY <2>1, <2>2, <2>4, <2>5, <2>6 DEF ForgeCall
<1>4. ForgeCount'
  <2>1. v4' = None => v10' = None /\ v12' = 0
    BY DEF ForgeCount
  <2>2. v10' # None =>
          /\ v10'.pool = v4' /\ v10'.epoch \in Int /\ v10'.epoch <= Blocks!EpochOf(v1')
          /\ v10'.epoch >= v9'
    BY <1>2
  <2>3. ASSUME v14' = None \/ v14'.stage = "schedule", v12' > 0
        PROVE  \E e \in Nat : IsCount(v12', v3', v4', e, v11')
    <3>1. v14' = None /\ v11' = v11
      BY <2>3
    <3> QED  BY <2>3, <3>1 DEF ForgeCount
  <2> QED  BY <2>1, <2>2, <2>3 DEF ForgeCount
<1> QED  BY <1>3, <1>4

LEMMA ForgeSchedules ==
    ASSUME ForgeInv, Blocks!ScheduleAnswer
    PROVE  ForgeInv'
<1>1. ForgeTyped /\ (~v18 => ForgeCall /\ ForgeCount /\ ForgeTold)
  BY DEF ForgeInv
<1>2. /\ v14 # None /\ v14.stage = "schedule"
      /\ UNCHANGED <<v1, v2, v3, v4, v6, v8, v9, v18>>
  BY DEF Blocks!ScheduleAnswer, Blocks!session, Blocks!idealVars
<1>3. PICK s \in {None} \cup IF v14.open THEN {[pool |-> v14.pool, epoch |-> Blocks!EpochOf(v1)]} ELSE {} :
        v10' = s /\ Blocks!CountOrPublish(v14, s, TRUE)
  BY DEF Blocks!ScheduleAnswer
<1>4. ForgeTyped'
  <2>1. /\ v11' \in {v11, v1} /\ UNCHANGED <<v12, v13>>
        /\ DOMAIN v16' = ForgePools /\ \A p \in ForgePools : DOMAIN v16'[p] = Blocks!Epochs
    BY <1>1, <1>3, ForgeReads
  <2>2. /\ v4' \in ForgePools \cup {None} /\ v18' \in BOOLEAN /\ v12' \in Nat /\ v13' \in BOOLEAN
        /\ v6' \in ForgePools \cup {None}
        /\ v8' = None \/ v8' \in [pool : ForgePools, epoch : Int, open : BOOLEAN]
    BY <1>1, <1>2, <2>1 DEF ForgeTyped
  <2> QED  BY <1>1, <1>2, <2>1, <2>2, ForgeKeepsTypes
<1>5. ASSUME ~v18 PROVE ForgeCall' /\ ForgeCount' /\ ForgeTold'
  <2>1. ForgeCall /\ ForgeCount /\ ForgeTold
    BY <1>1, <1>5
  <2>2. /\ v14 \in ForgeRun /\ v14.open = (v4 # None) /\ v14.since \in Nat /\ v14.since <= v1
        /\ v1 - v14.since <= ForgeQuery /\ v14.epoch = Blocks!EpochOf(v14.since)
        /\ v4 # None => v14.pool = v4 /\ v9 = v14.epoch
    BY <1>2, <2>1 DEF ForgeCall, ForgeRun
  <2>3. /\ v5 = None \/ v5 = v4
        /\ v4 = None => v12 = 0
        /\ v12 > 0 => \E e \in Nat : IsCount(v12, v3, v4, e, v11)
    BY <1>2, <2>1 DEF ForgeCount
  <2>4. s # None => v4 # None /\ s.pool = v4 /\ s.epoch = Blocks!EpochOf(v1)
    <3> SUFFICES ASSUME s # None PROVE v4 # None /\ s.pool = v4 /\ s.epoch = Blocks!EpochOf(v1)
      OBVIOUS
    <3>1. v14.open /\ s = [pool |-> v14.pool, epoch |-> Blocks!EpochOf(v1)]
      BY <1>3
    <3>2. v4 # None
      BY <2>2, <3>1, Zenon
    <3> QED  BY <2>2, <3>1, <3>2
  <2>5. /\ ForgeTold' /\ (v5' = None \/ v5' = v4) /\ UNCHANGED v12
        /\ \/ v14' = None /\ (v12 > 0 => v11' = v11)
           \/ /\ v14' # None /\ v14' \in ForgeRun /\ v14'.stage = "count" /\ v14'.since = v1
              /\ v14'.pool = v4 /\ v14'.epoch = v14.epoch /\ v14'.open = (v4 # None) /\ v11' = v1
    BY <1>1, <1>2, <1>3, <2>1, <2>2, <2>3, <2>4, ForgeGoesOn
  <2>6. v14.epoch <= Blocks!EpochOf(v1)
    <3>1. v1 \in Nat
      BY <1>1 DEF ForgeTyped
    <3> QED  BY <2>2, <3>1, ForgeEpochs
  <2>7. v10' # None => /\ v4 # None /\ v10'.pool = v4 /\ v10'.epoch = Blocks!EpochOf(v1)
                       /\ v10'.epoch >= v14.epoch
    BY <1>3, <2>4, <2>6
  <2>8. v4 # None => v9' = v14.epoch
    BY <1>2, <2>2
  <2> QED  BY <1>1, <1>2, <1>4, <2>1, <2>2, <2>5, <2>7, <2>8, ForgeAsks
<1> QED  BY <1>2, <1>4, <1>5 DEF ForgeInv

LEMMA ForgeEnds ==
    ASSUME ForgeInv, Blocks!CountAnswer
    PROVE  ForgeInv'
<1>1. ForgeTyped /\ (~v18 => ForgeCall /\ ForgeCount /\ ForgeTold)
  BY DEF ForgeInv
<1>2. /\ v14 # None /\ v14.stage = "count" /\ v13' = TRUE
      /\ UNCHANGED <<v1, v2, v3, v4, v5, v6, v8, v9, v10, v11, v18>>
  BY DEF Blocks!CountAnswer, Blocks!session, Blocks!idealVars
<1>3. PICK n \in IF v14.open THEN Blocks!Reported(v14.pool, v14.epoch) ELSE {0} :
        v12' = n /\ Blocks!Publish(v14, n, TRUE, v10, TRUE)
  BY DEF Blocks!CountAnswer
<1>4. n \in Nat /\ (n # 0 => v14.open /\ n >= Cardinality(Known(v3, v14.pool, v14.epoch, v1)))
  <2>1. CASE v14.open
    BY <1>1, <1>3, <2>1, ForgeReported
  <2>2. CASE ~v14.open
    BY <1>3, <2>2
  <2> QED  BY <2>1, <2>2
<1>5. ForgeTyped'
  <2>1. DOMAIN v16' = ForgePools /\ \A p \in ForgePools : DOMAIN v16'[p] = Blocks!Epochs
    BY <1>1, <1>3, ForgeWrites
  <2>2. /\ v4' \in ForgePools \cup {None} /\ v18' \in BOOLEAN /\ v12' \in Nat /\ v13' \in BOOLEAN
        /\ v6' \in ForgePools \cup {None} /\ v11' \in {v11, v1, -1}
        /\ v8' = None \/ v8' \in [pool : ForgePools, epoch : Int, open : BOOLEAN]
    BY <1>1, <1>2, <1>3, <1>4 DEF ForgeTyped
  <2> QED  BY <1>1, <1>2, <2>1, <2>2, ForgeKeepsTypes
<1>6. ASSUME ~v18 PROVE ForgeCall' /\ ForgeCount' /\ ForgeTold'
  <2>1. ForgeCall /\ ForgeCount /\ ForgeTold
    BY <1>1, <1>6
  <2>2. /\ v14.open = (v4 # None) /\ v14.since <= v1 /\ v1 - v14.since <= ForgeQuery
        /\ v14.since \in Nat
        /\ v4 # None => v14.pool = v4 /\ v9 = v14.epoch /\ v11 = v14.since
    BY <1>2, <2>1 DEF ForgeCall, ForgeRun
  <2>3. PICK b \in Nat : b <= v14.since /\ v14.since - b <= ForgeQuery /\ v14.epoch = Blocks!EpochOf(b)
    BY <1>2, <2>1 DEF ForgeCall
  <2>4. /\ v5 = None \/ v5 = v4
        /\ v4 = None => v10 = None
        /\ v10 # None => /\ v10.pool = v4 /\ v10.epoch \in Int /\ v10.epoch <= Blocks!EpochOf(v1)
                         /\ v10.epoch >= v9
    BY <1>2, <2>1 DEF ForgeCount
  <2>5. /\ v1 \in Nat /\ v4 \in ForgePools \cup {None} /\ ForgeQuery \in Nat /\ ForgeGrace \in Nat
        /\ 2 * ForgeQuery <= ForgeGrace /\ ForgeRefresh \in Nat
    BY <1>1, ForgeAssumption DEF ForgeTyped
  <2>6. n # 0 => v4 # None /\ n >= Cardinality(Known(v3, v4, v14.epoch, v1))
    <3> SUFFICES ASSUME n # 0 PROVE v4 # None /\ n >= Cardinality(Known(v3, v4, v14.epoch, v1))
      OBVIOUS
    <3>1. v14.open
      BY <1>4
    <3>2. v4 # None
      BY <2>2, <3>1, Zenon
    <3> QED  BY <1>4, <2>2, <3>2
  <2>7. ForgeFair(n, v10, v14.epoch)
    <3> SUFFICES ASSUME v10 # None, n # 0
                 PROVE  /\ v10.pool = v4 /\ v4 \in ForgePools
                        /\ \/ Blocks!Settled(v10) = {}
                           \/ /\ v10.epoch = v14.epoch
                              /\ \E t \in Int : v1 - t <= ForgeRefresh /\ n >= Cardinality(Known(v3, v4, v14.epoch, t))
      BY <2>4, <2>5 DEF ForgeFair
    <3>1. v10.pool = v4 /\ v4 \in ForgePools
      BY <2>4, <2>5
    <3>2. Blocks!EpochOf(b) \in Nat /\ v10.epoch >= Blocks!EpochOf(b) /\ v10.epoch \in Int
      BY <2>2, <2>3, <2>4, <3>1, ForgeEpochs
    <3>3. CASE v10.epoch = v14.epoch
      <4>1. v1 \in Int /\ v1 - v1 <= ForgeRefresh
        BY <2>5
      <4> QED  BY <2>6, <3>1, <3>3, <4>1
    <3>4. CASE v10.epoch # v14.epoch
      <4>1. Blocks!EpochOf(b) < v10.epoch
        BY <2>3, <3>2, <3>4
      <4>2. v1 - b <= ForgeGrace
        BY <2>2, <2>3, <2>5
      <4>3. Blocks!Settled(v10) = {}
        BY <1>1, <3>1, <4>1, <4>2, ForgeUnsettled
      <4> QED  BY <3>1, <4>3
    <3> QED  BY <3>3, <3>4
  <2>8. ForgeTold' /\ v14' = None
    BY <1>1, <1>2, <1>3, <1>4, <2>1, <2>7, ForgePublishes
  <2>9. ForgeCall'
    BY <2>8 DEF ForgeCall
  <2>10. ForgeCount'
    <3>1. v4 = None => v10 = None /\ n = 0
      BY <2>4, <2>6
    <3>2. ASSUME n > 0 PROVE \E e \in Nat : IsCount(n, v3, v4, e, v11)
      <4>1. v4 # None /\ n >= Cardinality(Known(v3, v4, v14.epoch, v1)) /\ v11 = v14.since
        BY <1>4, <2>2, <2>6, <3>2
      <4>2. Known(v3, v4, v14.epoch, v11) \in SUBSET Known(v3, v4, v14.epoch, v1)
        <5>1. \A x \in Blocks!Times : x <= v11 - ForgeLag => x <= v1 - ForgeLag
          <6>1. \A x \in Blocks!Times : x \in Int
            BY DEF Blocks!Times
          <6>2. v11 \in Int /\ v11 <= v1 /\ ForgeLag \in Int
            BY <2>2, <4>1, ForgeAssumption
          <6> QED  BY <2>5, <6>1, <6>2
        <5> QED  BY <5>1 DEF Known
      <4>3. /\ IsFiniteSet(Known(v3, v4, v14.epoch, v1))
            /\ Cardinality(Known(v3, v4, v14.epoch, v1)) \in Nat
            /\ Cardinality(Known(v3, v4, v14.epoch, v11)) \in Nat
        BY <1>1, ForgeFinite
      <4>4. Cardinality(Known(v3, v4, v14.epoch, v11)) <= Cardinality(Known(v3, v4, v14.epoch, v1))
        BY <4>2, <4>3, FS_Subset
      <4>5. n >= Cardinality(Known(v3, v4, v14.epoch, v11))
        BY <1>4, <4>1, <4>3, <4>4
      <4>6. v14.epoch \in Nat
        BY <2>3, ForgeEpochs
      <4> QED  BY <2>3, <4>1, <4>5, <4>6 DEF IsCount
    <3> QED  BY <1>2, <1>3, <2>4, <3>1, <3>2 DEF ForgeCount
  <2> QED  BY <2>8, <2>9, <2>10
<1> QED  BY <1>2, <1>5, <1>6 DEF ForgeInv

LEMMA ForgeLeaves ==
    ASSUME ForgeInv, Blocks!Disconnect \/ Blocks!Reconnect \/ Blocks!Rerun
    PROVE  ForgeInv'
<1>1. ForgeTyped /\ (~v18 => ForgeCall /\ ForgeCount /\ ForgeTold)
  BY DEF ForgeInv
<1>2. CASE Blocks!Disconnect
  <2>1. /\ UNCHANGED <<v1, v2, v3, v6, v13, v16, v18>> /\ v4' = None
        /\ v5' = None /\ v15' = None /\ v10' = None /\ v11' = -1 /\ v12' = 0
        /\ v14' = Blocks!Cut(v14) /\ v8' = Blocks!Cut(v8)
    BY <1>2 DEF Blocks!Disconnect, Blocks!ResetReadModel, Blocks!Never
  <2>2. ForgeTyped'
    <3>1. v8' = None \/ v8' \in [pool : ForgePools, epoch : Int, open : BOOLEAN]
      BY <1>1, <2>1 DEF ForgeTyped, Blocks!Cut
    <3>2. /\ v4' \in ForgePools \cup {None} /\ v18' \in BOOLEAN /\ v12' \in Nat /\ v13' \in BOOLEAN
          /\ v6' \in ForgePools \cup {None} /\ v11' \in {v11, v1, -1}
          /\ DOMAIN v16' = ForgePools /\ \A p \in ForgePools : DOMAIN v16'[p] = Blocks!Epochs
      BY <1>1, <2>1 DEF ForgeTyped
    <3> QED  BY <1>1, <2>1, <3>1, <3>2, ForgeKeepsTypes
  <2>3. ASSUME ~v18 PROVE ForgeCall' /\ ForgeCount' /\ ForgeTold'
    <3>1. ForgeCall /\ ForgeTold
      BY <1>1, <2>3
    <3>2. ForgeCall'
      <4> SUFFICES ASSUME v14' # None PROVE ForgeCall'
        BY DEF ForgeCall
      <4>1. v14 # None /\ v14' = [v14 EXCEPT !.open = FALSE]
        BY <2>1 DEF Blocks!Cut
      <4>2. v14 \in ForgeRun
        BY <3>1, <4>1 DEF ForgeCall
      <4>3. /\ v14' \in ForgeRun /\ v14'.open = FALSE /\ v14'.stage = v14.stage
            /\ v14'.since = v14.since /\ v14'.epoch = v14.epoch
        BY <4>1, <4>2 DEF ForgeRun
      <4>4. v14'.open = (v4' # None)
        BY <2>1, <4>3
      <4>5. /\ v14.since <= v1 /\ v1 - v14.since <= ForgeQuery
            /\ \E b \in Nat : /\ b <= v14.since /\ v14.since - b <= ForgeQuery
                              /\ v14.epoch = Blocks!EpochOf(b)
                              /\ v14.stage = "schedule" => b = v14.since
        BY <3>1, <4>1 DEF ForgeCall
      <4>6. /\ v14'.since <= v1' /\ v1' - v14'.since <= ForgeQuery
            /\ \E b \in Nat : /\ b <= v14'.since /\ v14'.since - b <= ForgeQuery
                              /\ v14'.epoch = Blocks!EpochOf(b)
                              /\ v14'.stage = "schedule" => b = v14'.since
        BY <2>1, <4>3, <4>5
      <4> QED  BY <2>1, <4>3, <4>4, <4>6 DEF ForgeCall
    <3>3. ForgeCount'
      BY <2>1 DEF ForgeCount
    <3>4. ForgeTold'
      BY <2>1, <3>1 DEF ForgeTold
    <3> QED  BY <3>2, <3>3, <3>4
  <2> QED  BY <2>1, <2>2, <2>3 DEF ForgeInv
<1>3. CASE Blocks!Reconnect
  <2>1. /\ UNCHANGED <<v1, v2, v3, v5, v6, v8, v9, v10, v11, v12, v13, v14, v15, v18>>
        /\ v4 = None /\ v14 = None
    BY <1>3 DEF Blocks!Reconnect, Blocks!idealVars
  <2>2. PICK p \in ForgePools : v4' = p /\ v16' = [q \in ForgePools |-> IF q = p THEN v16[q] ELSE [e \in Blocks!Epochs |-> None]]
    BY <1>3 DEF Blocks!Reconnect, Blocks!Connect
  <2>3. /\ DOMAIN v16' = ForgePools /\ \A q \in ForgePools : DOMAIN v16'[q] = Blocks!Epochs
        /\ \A q \in ForgePools, e \in Blocks!Epochs : v16'[q][e] \in {v16[q][e], None}
    BY <1>1, <2>2 DEF ForgeTyped
  <2>4. ForgeTyped'
    <3>1. /\ v4' \in ForgePools \cup {None} /\ v18' \in BOOLEAN /\ v12' \in Nat /\ v13' \in BOOLEAN
          /\ v6' \in ForgePools \cup {None} /\ v11' \in {v11, v1, -1}
          /\ v8' = None \/ v8' \in [pool : ForgePools, epoch : Int, open : BOOLEAN]
      BY <1>1, <2>1, <2>2 DEF ForgeTyped
    <3> QED  BY <1>1, <2>1, <2>3, <3>1, ForgeKeepsTypes
  <2>5. ASSUME ~v18 PROVE ForgeCall' /\ ForgeCount' /\ ForgeTold'
    <3>1. ForgeCount /\ ForgeTold
      BY <1>1, <2>5
    <3>2. v5 = None /\ v10 = None /\ v12 = 0
      BY <2>1, <3>1 DEF ForgeCount
    <3>3. ForgeCall' /\ ForgeCount'
      BY <2>1, <3>2 DEF ForgeCall, ForgeCount
    <3>4. ForgeTold'
      BY <2>1, <2>3, <3>1 DEF ForgeTold
    <3> QED  BY <3>3, <3>4
  <2> QED  BY <2>1, <2>4, <2>5 DEF ForgeInv
<1>4. CASE Blocks!Rerun
  <2>1. /\ UNCHANGED <<v1, v2, v3, v6, v8, v11, v12, v13>> /\ v18' = TRUE
    BY <1>4 DEF Blocks!Rerun, Blocks!idealVars
  <2>2. PICK p \in ForgePools : v4' = p /\ v16' = [q \in ForgePools |-> IF q = p THEN v16[q] ELSE [e \in Blocks!Epochs |-> None]]
    BY <1>4 DEF Blocks!Rerun, Blocks!Connect
  <2>3. DOMAIN v16' = ForgePools /\ \A q \in ForgePools : DOMAIN v16'[q] = Blocks!Epochs
    BY <1>1, <2>2 DEF ForgeTyped
  <2>4. /\ v4' \in ForgePools \cup {None} /\ v18' \in BOOLEAN /\ v12' \in Nat /\ v13' \in BOOLEAN
        /\ v6' \in ForgePools \cup {None} /\ v11' \in {v11, v1, -1}
        /\ v8' = None \/ v8' \in [pool : ForgePools, epoch : Int, open : BOOLEAN]
    BY <1>1, <2>1, <2>2 DEF ForgeTyped
  <2>5. ForgeTyped'
    BY <1>1, <2>1, <2>3, <2>4, ForgeKeepsTypes
  <2> QED  BY <2>1, <2>5 DEF ForgeInv
<1> QED  BY <1>2, <1>3, <1>4

LEMMA ForgeSnapshots ==
    ASSUME ForgeInv, Blocks!Snapshot
    PROVE  ForgeInv'
<1>1. ForgeTyped /\ (~v18 => ForgeCall /\ ForgeCount /\ ForgeTold)
  BY DEF ForgeInv
<1>2. v4 # None /\ Blocks!StartIdeal /\ Blocks!StartBp /\ UNCHANGED <<v1, v2, v3, v4, v18>>
  BY DEF Blocks!Snapshot, Blocks!session
<1>3. v4 \in ForgePools /\ v1 \in Nat /\ Blocks!EpochOf(v1) \in Nat
  <2>1. v4 \in ForgePools /\ v1 \in Nat
    BY <1>1, <1>2, ForgeAssumption DEF ForgeTyped
  <2> QED  BY <2>1, ForgeEpochs
<1>4. UNCHANGED v6 /\ (v8' = None \/ v8' \in [pool : ForgePools, epoch : Int, open : BOOLEAN])
  <2>1. UNCHANGED <<v6, v8>> \/ (UNCHANGED v6 /\ v8' = [pool |-> v4, epoch |-> Blocks!EpochOf(v1), open |-> TRUE])
    BY <1>2 DEF Blocks!StartIdeal, Blocks!idealVars
  <2>2. v8 = None \/ v8 \in [pool : ForgePools, epoch : Int, open : BOOLEAN]
    BY <1>1 DEF ForgeTyped
  <2>3. [pool |-> v4, epoch |-> Blocks!EpochOf(v1), open |-> TRUE]
          \in [pool : ForgePools, epoch : Int, open : BOOLEAN]
    BY <1>3
  <2> QED  BY <2>1, <2>2, <2>3
<1>5. PICK c : c = [stage |-> "schedule", epoch |-> Blocks!EpochOf(v1), ideal |-> v6, pool |-> v4,
                    since |-> v1, open |-> TRUE]
  OBVIOUS
<1>6. /\ c \in ForgeRun /\ c.stage = "schedule" /\ c.epoch = Blocks!EpochOf(v1) /\ c.pool = v4
      /\ c.since = v1 /\ c.open = TRUE
  <2>1. v6 \in ForgePools \cup {None}
    BY <1>1 DEF ForgeTyped
  <2> QED  BY <1>3, <1>5, <2>1 DEF ForgeRun
<1>7. \/ v14 # None /\ UNCHANGED <<v5, v9, v10, v11, v12, v13, v14, v15, v16>>
      \/ /\ v14 = None /\ v9' = Blocks!EpochOf(v1) /\ v14' = c
         /\ UNCHANGED <<v5, v10, v11, v12, v13, v15, v16>>
      \/ /\ v14 = None /\ v9 = Blocks!EpochOf(v1) /\ Blocks!CountOrPublish(c, v10, FALSE)
         /\ UNCHANGED <<v9, v10>>
  BY <1>2, <1>5 DEF Blocks!StartBp, Blocks!bpVars
<1>8. ForgeTyped'
  <2>1. /\ v11' \in {v11, v1} /\ UNCHANGED <<v12, v13>>
        /\ DOMAIN v16' = ForgePools /\ \A p \in ForgePools : DOMAIN v16'[p] = Blocks!Epochs
    <3>1. CASE UNCHANGED <<v11, v12, v13, v16>>
      BY <1>1, <3>1 DEF ForgeTyped
    <3>2. CASE Blocks!CountOrPublish(c, v10, FALSE)
      BY <1>1, <3>2, ForgeReads
    <3> QED  BY <1>7, <3>1, <3>2
  <2>2. /\ v4' \in ForgePools \cup {None} /\ v18' \in BOOLEAN /\ v12' \in Nat /\ v13' \in BOOLEAN
        /\ v6' \in ForgePools \cup {None}
    BY <1>1, <1>2, <1>4, <2>1 DEF ForgeTyped
  <2> QED  BY <1>1, <1>2, <1>4, <2>1, <2>2, ForgeKeepsTypes
<1>9. ASSUME ~v18 PROVE ForgeCall' /\ ForgeCount' /\ ForgeTold'
  <2>1. ForgeCall /\ ForgeCount /\ ForgeTold
    BY <1>1, <1>9
  <2>2. CASE v14 # None /\ UNCHANGED <<v5, v9, v10, v11, v12, v13, v14, v15, v16>>
    BY <1>2, <2>1, <2>2 DEF ForgeCall, ForgeCount, ForgeTold
  <2>3. CASE /\ v14 = None /\ v9' = Blocks!EpochOf(v1) /\ v14' = c
             /\ UNCHANGED <<v5, v10, v11, v12, v13, v15, v16>>
    <3>1. ForgeTold'
      BY <1>2, <2>1, <2>3 DEF ForgeTold
    <3>2. ForgeCall'
      <4>1. v14' \in ForgeRun /\ v14'.open = (v4' # None) /\ v14'.stage # "count"
        BY <1>2, <1>6, <2>3
      <4>2. v14'.since <= v1' /\ v1' - v14'.since <= ForgeQuery
        BY <1>2, <1>3, <1>6, <2>3, ForgeAssumption
      <4>3. v1 <= v14'.since /\ v14'.since - v1 <= ForgeQuery /\ v14'.epoch = Blocks!EpochOf(v1)
            /\ v14'.since = v1
        BY <1>3, <1>6, <2>3, ForgeAssumption
      <4>4. \E b \in Nat : /\ b <= v14'.since /\ v14'.since - b <= ForgeQuery
                           /\ v14'.epoch = Blocks!EpochOf(b)
                           /\ v14'.stage = "schedule" => b = v14'.since
        BY <1>3, <4>3
      <4>5. v14'.pool = v4' /\ v9' = v14'.epoch
        BY <1>2, <1>6, <2>3
      <4> QED  BY <4>1, <4>2, <4>4, <4>5 DEF ForgeCall
    <3>3. ForgeCount'
      <4>1. v14' # None /\ v14'.stage # "count"
        BY <1>6, <2>3, ForgeAssumption
      <4>2. /\ v5 = None \/ v5 = v4
            /\ v10 # None => v10.pool = v4 /\ v10.epoch \in Int /\ v10.epoch <= Blocks!EpochOf(v1)
            /\ v12 > 0 => \E e \in Nat : IsCount(v12, v3, v4, e, v11)
        BY <2>1, <2>3 DEF ForgeCount
      <4> QED  BY <1>2, <2>3, <4>1, <4>2 DEF ForgeCount
    <3> QED  BY <3>1, <3>2, <3>3
  <2>4. CASE /\ v14 = None /\ v9 = Blocks!EpochOf(v1) /\ Blocks!CountOrPublish(c, v10, FALSE)
             /\ UNCHANGED <<v9, v10>>
    <3>1. /\ v5 = None \/ v5 = v4
          /\ v10 # None => v10.pool = v4 /\ v10.epoch \in Int /\ v10.epoch <= Blocks!EpochOf(v1)
          /\ v10 # None => v10.epoch >= v9
          /\ v12 > 0 => \E e \in Nat : IsCount(v12, v3, v4, e, v11)
      BY <2>1, <2>4 DEF ForgeCount
    <3>2. v10 # None => v10.pool = v4 /\ v10.epoch = Blocks!EpochOf(v1)
      BY <1>3, <2>4, <3>1
    <3>3. v1 <= v1 /\ v1 - v1 <= ForgeQuery
      BY <1>3, ForgeAssumption
    <3>4. c.open = (v4 # None)
      BY <1>2, <1>6
    <3>5. /\ ForgeTold' /\ (v5' = None \/ v5' = v4) /\ UNCHANGED v12
          /\ \/ v14' = None /\ (v12 > 0 => v11' = v11)
             \/ /\ v14' # None /\ v14' \in ForgeRun /\ v14'.stage = "count" /\ v14'.since = v1
                /\ v14'.pool = v4 /\ v14'.epoch = c.epoch /\ v14'.open = (v4 # None) /\ v11' = v1
      BY <1>1, <1>2, <1>3, <1>6, <2>1, <2>4, <3>1, <3>2, <3>3, <3>4, ForgeGoesOn
    <3>6. v10' # None => /\ v4 # None /\ v10'.pool = v4 /\ v10'.epoch = Blocks!EpochOf(v1)
                         /\ v10'.epoch >= c.epoch
      BY <1>2, <1>3, <1>6, <2>4, <3>2
    <3>7. v4 # None => v9' = c.epoch
      BY <1>6, <2>4
    <3> QED  BY <1>1, <1>2, <1>3, <1>6, <1>8, <2>1, <2>4, <3>3, <3>5, <3>6, <3>7, ForgeAsks
  <2> QED  BY <1>7, <2>2, <2>3, <2>4
<1> QED  BY <1>2, <1>8, <1>9 DEF ForgeInv

LEMMA ForgeNext ==
    ASSUME ForgeInv, Blocks!Next
    PROVE  ForgeInv'
BY ForgeAges, ForgeSnapshots, ForgeIdeal, ForgeSchedules, ForgeEnds, ForgeLeaves DEF Blocks!Next

LEMMA ForgeIsTold == ASSUME ForgeInv PROVE Blocks!NeverCriesLost
<1> SUFFICES ASSUME ~v18
             PROVE  /\ v15 # None /\ v15.lost # None /\ v15.pool # None =>
                         v15.lost <= Blocks!Cardinality(Blocks!Missed(v15.pool, v15.epoch))
                    /\ \A p \in ForgePools, e \in Blocks!Epochs :
                         v16[p][e] # None /\ v16[p][e].lost # None =>
                           v16[p][e].lost <= Blocks!Cardinality(Blocks!Missed(p, e))
  BY DEF Blocks!NeverCriesLost
<1>1. ForgeTold
  BY DEF ForgeInv
<1>2. \A p, e : Blocks!Missed(p, e) = Lost(v1, v2, v3, p, e)
  BY DEF Blocks!Missed, Lost
<1>3. v15 # None /\ v15.lost # None /\ v15.pool # None =>
        v15.lost <= Blocks!Cardinality(Blocks!Missed(v15.pool, v15.epoch))
  BY <1>1, <1>2, ForgeCounts DEF ForgeTold, AtMost
<1>4. \A p \in ForgePools, e \in Blocks!Epochs :
        v16[p][e] # None /\ v16[p][e].lost # None =>
          v16[p][e].lost <= Blocks!Cardinality(Blocks!Missed(p, e))
  BY <1>1, <1>2, ForgeCounts DEF ForgeTold, AtMost
<1> QED  BY <1>3, <1>4
=============================================================================
