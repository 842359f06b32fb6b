----------------------------- MODULE UpkeepProofs -----------------------------
(* Proofs about MCUpkeep: of its machines, the schedules of UpcomingBlocks, the *)
(* connection to db-sync and the sessions to a node, for every value of the     *)
(* constants and in the very steps its run takes. What a machine keeps is shown *)
(* of its own steps first; the rest of the state, another machine's or none,    *)
(* takes no part.                                                               *)
EXTENDS MCUpkeep, Sequences, SequenceTheorems, FiniteSetTheorems, WellFoundedInduction, TLAPS

-----------------------------------------------------------------------------
(* The steps of the run.                                                      *)

\* The machine stays the one chosen, and only its own steps are taken.
LEMMA MachineSteps ==
  ASSUME [Next]_slots
  PROVE  /\ machine' = machine
         /\ machine = "access" => Access!Next \/ UNCHANGED slots
         /\ machine = "schedule" => Schedule!Next \/ UNCHANGED slots
         /\ machine = "node" => Node!Next \/ UNCHANGED slots
         /\ machine = "hasty" => Hasty!Next \/ UNCHANGED slots
         /\ machine = "feed" => Feed!Next \/ UNCHANGED slots
         /\ machine = "notices" => Notices!Next \/ UNCHANGED slots
         /\ machine = "relay" => Relay!Next \/ UNCHANGED slots
         /\ machine = "starting" => Starting!Next \/ UNCHANGED slots
<1>1. CASE UNCHANGED slots
  BY <1>1 DEF slots
<1>2. CASE Next
  BY <1>2 DEF Next, Idle
<1> QED
  BY <1>1, <1>2

-----------------------------------------------------------------------------
(* The epoch of a time.                                                       *)

\* A tick stays in its epoch or begins the next one.
LEMMA TickInEpoch ==
  ASSUME NEW t \in Nat
  PROVE  /\ Schedule!EpochOf(t) \in Nat /\ t % EpochLen \in 0 .. EpochLen - 1
         /\ \/ /\ Schedule!EpochOf(t + 1) = Schedule!EpochOf(t)
               /\ (t + 1) % EpochLen = (t % EpochLen) + 1
            \/ /\ Schedule!EpochOf(t + 1) = Schedule!EpochOf(t) + 1
               /\ (t + 1) % EpochLen = 0 /\ t % EpochLen = EpochLen - 1
<1> DEFINE q == t \div EpochLen
           p == (t + 1) \div EpochLen
           r == t % EpochLen
           s == (t + 1) % EpochLen
<1>1. EpochLen \in Nat /\ EpochLen > 0
  BY ScheduleAssumption
<1>2. /\ q \in Nat /\ p \in Nat
      /\ r \in Nat /\ s \in Nat /\ r < EpochLen /\ s < EpochLen
      /\ EpochLen * q + r = t /\ EpochLen * p + s = t + 1
  BY <1>1, SMT
<1>3. \/ p = q /\ s = r + 1
      \/ p = q + 1 /\ s = 0 /\ r = EpochLen - 1
  <2> HIDE DEF p, q, r, s
  <2>1. EpochLen * p + s = EpochLen * q + r + 1
    BY <1>1, <1>2
  <2>2. CASE p = q
    BY <1>1, <1>2, <2>1, <2>2
  <2>3. CASE p = q + 1
    <3>1. EpochLen * p = EpochLen * q + EpochLen
      BY <1>1, <1>2, <2>3
    <3> QED
      BY <1>1, <1>2, <2>1, <2>3, <3>1
  <2>4. CASE p > q + 1
    <3>1. EpochLen * p >= EpochLen * (q + 2)
      BY <1>1, <1>2, <2>4
    <3>2. EpochLen * (q + 2) = EpochLen * q + 2 * EpochLen
      BY <1>1, <1>2
    <3> QED
      BY <1>1, <1>2, <2>1, <3>1, <3>2
  <2>5. CASE p < q
    <3>1. EpochLen * q >= EpochLen * (p + 1)
      BY <1>1, <1>2, <2>5
    <3>2. EpochLen * (p + 1) = EpochLen * p + EpochLen
      BY <1>1, <1>2
    <3> QED
      BY <1>1, <1>2, <2>1, <3>1, <3>2
  <2> QED
    BY <1>2, <2>2, <2>3, <2>4, <2>5
<1> QED
  BY <1>1, <1>2, <1>3 DEF Schedule!EpochOf
-----------------------------------------------------------------------------
(* The schedules: what is saved as an epoch's is that epoch's.                *)

\* A run that is as old as its queries last keeps to its epoch over a tick.
LEMMA TimelyAfterTick ==
  ASSUME v1 \in Nat, v1' = v1 + 1, NEW r, Schedule!Timely(r), v1 - r.at < RunTime
  PROVE  Schedule!Timely(r)'
<1>1. /\ r.which \in {"current", "next"} /\ r.epoch \in Nat /\ r.at \in Nat
      /\ r.at <= v1 /\ v1 - r.at <= RunTime
      /\ \/ Schedule!EpochOf(v1) = r.epoch
         \/ Schedule!EpochOf(v1) = r.epoch + 1 /\ v1 % EpochLen <= Schedule!Spent(r)
      /\ \/ Schedule!EpochOf(r.at) = r.epoch
         \/ Schedule!EpochOf(r.at) = r.epoch + 1 /\ r.at % EpochLen <= RunTime
  BY DEF Schedule!Timely
<1>2. /\ Schedule!EpochOf(v1) \in Nat /\ v1 % EpochLen \in 0 .. EpochLen - 1
      /\ \/ /\ Schedule!EpochOf(v1 + 1) = Schedule!EpochOf(v1)
            /\ (v1 + 1) % EpochLen = (v1 % EpochLen) + 1
         \/ /\ Schedule!EpochOf(v1 + 1) = Schedule!EpochOf(v1) + 1
            /\ (v1 + 1) % EpochLen = 0 /\ v1 % EpochLen = EpochLen - 1
  BY TickInEpoch
<1>3. /\ EpochLen \in Nat /\ RunTime \in Nat /\ NextWindow \in Nat
      /\ 2 * RunTime < EpochLen - NextWindow
  BY ScheduleAssumption
<1>4. /\ Schedule!Spent(r) \in Nat /\ Schedule!Spent(r) < 2 * RunTime
      /\ Schedule!Spent(r)' = Schedule!Spent(r) + 1
  BY <1>1, <1>3 DEF Schedule!Spent
<1>5. \/ Schedule!EpochOf(v1 + 1) = r.epoch
      \/ /\ Schedule!EpochOf(v1 + 1) = r.epoch + 1
         /\ (v1 + 1) % EpochLen <= Schedule!Spent(r) + 1
  <2> HIDE DEF Schedule!Timely
  <2> QED
    BY <1>1, <1>2, <1>3, <1>4
<1>6. r.at <= v1 + 1 /\ (v1 + 1) - r.at <= RunTime
  BY <1>1, <1>3
<1> QED
  BY <1>1, <1>4, <1>5, <1>6 DEF Schedule!Timely, Schedule!EpochOf

\* What the node may answer to a run as the next schedule is that of the run's epoch, or
\* without slots.
LEMMA AnswersItsEpoch ==
  ASSUME v1 \in Nat, NEW r, Schedule!Timely(r), r.which = "next",
         NEW answer, Schedule!Answered(r, answer)
  PROVE  answer \in {None, Schedule!Blank, r.epoch + 1}
<1>1. /\ r.epoch \in Nat /\ r.at \in Nat /\ v1 - r.at <= RunTime /\ r.at <= v1
      /\ EpochLen \in Nat /\ RunTime \in Nat /\ NextWindow \in Nat
      /\ 2 * RunTime < EpochLen - NextWindow
  BY ScheduleAssumption DEF Schedule!Timely
<1>2. ASSUME NEW t \in Nat, Schedule!EpochOf(t) = r.epoch
                            \/ (Schedule!EpochOf(t) = r.epoch + 1 /\ t % EpochLen <= 2 * RunTime)
      PROVE  Schedule!Knows("next", t) \in {None, r.epoch + 1}
  <2>1. CASE Schedule!EpochOf(t) = r.epoch
    BY <2>1 DEF Schedule!Knows
  <2>2. CASE Schedule!EpochOf(t) = r.epoch + 1 /\ t % EpochLen <= 2 * RunTime
    <3>1. t % EpochLen \in Nat
      BY TickInEpoch, ScheduleAssumption
    <3>2. ~(t % EpochLen >= EpochLen - NextWindow)
      BY <1>1, <2>2, <3>1
    <3> QED
      BY <3>2 DEF Schedule!Knows
  <2> QED
    BY <1>2, <2>1, <2>2
<1>3. Schedule!Spent(r) \in Nat /\ Schedule!Spent(r) <= 2 * RunTime
  BY <1>1 DEF Schedule!Spent
<1>4. /\ r.at % EpochLen \in Nat /\ v1 % EpochLen \in Nat
      /\ r.at % EpochLen <= RunTime => r.at % EpochLen <= 2 * RunTime
      /\ v1 % EpochLen <= Schedule!Spent(r) => v1 % EpochLen <= 2 * RunTime
  <2>1. r.at % EpochLen \in Nat /\ v1 % EpochLen \in Nat
    <3>1. ASSUME NEW t \in Nat PROVE t % EpochLen \in Nat
      BY TickInEpoch, ScheduleAssumption
    <3> QED
      BY <1>1, <3>1
  <2>2. r.at % EpochLen <= RunTime => r.at % EpochLen <= 2 * RunTime
    BY <1>1, <2>1
  <2>3. v1 % EpochLen <= Schedule!Spent(r) => v1 % EpochLen <= 2 * RunTime
    BY <1>1, <1>3, <2>1
  <2> QED
    BY <2>1, <2>2, <2>3
<1>5. /\ Schedule!Knows("next", r.at) \in {None, r.epoch + 1}
      /\ Schedule!Knows("next", v1) \in {None, r.epoch + 1}
  BY <1>1, <1>2, <1>4 DEF Schedule!Timely
<1> QED
  BY <1>5 DEF Schedule!Answered

\* The second query of a run begins in the run's epoch or as little after it.
LEMMA NextPartTimely ==
  ASSUME Schedule!SavedInTime, UNCHANGED v1, NEW epoch \in Nat, NEW rest,
         rest \subseteq v11, Schedule!NextPart(epoch, rest),
         \/ Schedule!EpochOf(v1) = epoch
         \/ Schedule!EpochOf(v1) = epoch + 1 /\ v1 % EpochLen <= RunTime
  PROVE  \A r \in v11' : Schedule!Timely(r)'
<1> DEFINE new == [which |-> "next", epoch |-> epoch, at |-> v1]
<1>1. v11' \subseteq v11 \union {new}
  BY DEF Schedule!NextPart
<1>2. \A r \in v11 : Schedule!Timely(r)'
  BY DEF Schedule!SavedInTime, Schedule!Timely, Schedule!Spent
<1>3. v1 \in Nat /\ RunTime \in Nat /\ v1 % EpochLen \in Nat
  BY ScheduleAssumption, TickInEpoch DEF Schedule!SavedInTime
<1>4. v1 - new.at = 0 /\ Schedule!Spent(new) = RunTime
  BY <1>3 DEF Schedule!Spent
<1>5. Schedule!Timely(new)
  BY <1>3, <1>4 DEF Schedule!Timely
<1>6. Schedule!Timely(new)'
  BY <1>5 DEF Schedule!Timely, Schedule!Spent, Schedule!EpochOf
<1> QED
  BY <1>1, <1>2, <1>6
LEMMA InitSaved == Schedule!Init => Schedule!SavedInTime
<1> SUFFICES ASSUME Schedule!Init
             PROVE  Schedule!SavedInTime
  OBVIOUS
<1>1. v1 = 0 /\ v2 = 0 /\ v11 = {} /\ v10 = [k \in Schedule!Keys |-> None]
  BY DEF Schedule!Init
<1>2. Schedule!EpochOf(0) = 0
  BY ScheduleAssumption, SMT DEF Schedule!EpochOf
<1>3. Schedule!SavedNextIsItsEpochs
  BY <1>1 DEF Schedule!SavedNextIsItsEpochs, Schedule!Keys
<1> QED
  BY <1>1, <1>2, <1>3 DEF Schedule!SavedInTime, Schedule!TipFollows, Schedule!Answers

LEMMA NextSaved == Schedule!SavedInTime /\ Schedule!Next => Schedule!SavedInTime'
<1> SUFFICES ASSUME Schedule!SavedInTime, Schedule!Next
             PROVE  Schedule!SavedInTime'
  OBVIOUS
<1> USE DEF Schedule!curVars, Schedule!nextVars
<1>1. /\ v1 \in Nat /\ v2 \in Nat
      /\ v10 \in [Schedule!Keys -> Schedule!Answers]
      /\ Schedule!TipFollows /\ (\A r \in v11 : Schedule!Timely(r))
      /\ Schedule!SavedNextIsItsEpochs
  BY DEF Schedule!SavedInTime
<1>2. EpochLen \in Nat /\ EpochLen > 0 /\ RunTime \in Nat
  BY ScheduleAssumption
<1>3. Schedule!EpochOf(v1) \in Nat
  BY <1>1, TickInEpoch
<1>4. CASE Schedule!Tick
  <2>1. v1' = v1 + 1 /\ v2 = Schedule!EpochOf(v1) /\ UNCHANGED <<v2, v10, v11>>
        /\ \A r \in v11 : v1 - r.at < RunTime
    BY <1>4 DEF Schedule!Tick
  <2>2. Schedule!TipFollows'
    BY <1>1, <2>1, TickInEpoch DEF Schedule!TipFollows, Schedule!EpochOf
  <2>3. \A r \in v11' : Schedule!Timely(r)'
    BY <1>1, <2>1, TimelyAfterTick
  <2>4. Schedule!SavedNextIsItsEpochs'
    BY <1>1, <2>1 DEF Schedule!SavedNextIsItsEpochs
  <2> QED
    BY <1>1, <2>1, <2>2, <2>3, <2>4 DEF Schedule!SavedInTime
<1>5. CASE Schedule!Poll
  <2>1. v2' = Schedule!EpochOf(v1) /\ UNCHANGED <<v1, v10, v11>>
    BY <1>5 DEF Schedule!Poll
  <2> QED
    BY <1>1, <1>3, <2>1
    DEF Schedule!SavedInTime, Schedule!TipFollows, Schedule!Timely, Schedule!Spent,
        Schedule!SavedNextIsItsEpochs, Schedule!EpochOf
<1>6. CASE Schedule!Start
  <2>1. UNCHANGED <<v1, v2, v10>>
    BY <1>6 DEF Schedule!Start
  <2>2. v1 % EpochLen \in Nat
    BY <1>1, <1>2, TickInEpoch
  <2>3. \A r \in v11' : Schedule!Timely(r)'
    <3> DEFINE new == [which |-> "current", epoch |-> v2, at |-> v1]
    <3>1. CASE v11' = v11 \union {new}
      <4>1. v1 - new.at = 0 /\ Schedule!Spent(new) = 0
        BY <1>1 DEF Schedule!Spent
      <4>2. Schedule!Timely(new)
        BY <1>1, <1>2, <2>2, <4>1 DEF Schedule!Timely, Schedule!TipFollows
      <4>3. \A r \in v11' : Schedule!Timely(r)
        BY <1>1, <3>1, <4>2
      <4> QED
        BY <2>1, <4>3 DEF Schedule!Timely, Schedule!Spent
    <3>2. CASE Schedule!NextPart(v2, v11)
      <4>1. \/ Schedule!EpochOf(v1) = v2
            \/ Schedule!EpochOf(v1) = v2 + 1 /\ v1 % EpochLen <= RunTime
        BY <1>1, <1>2, <2>2 DEF Schedule!TipFollows
      <4> QED
        BY <1>1, <2>1, <3>2, <4>1, NextPartTimely
    <3> QED
      BY <1>6, <3>1, <3>2 DEF Schedule!Start
  <2> QED
    BY <1>1, <2>1, <2>3
    DEF Schedule!SavedInTime, Schedule!TipFollows, Schedule!SavedNextIsItsEpochs
<1>7. ASSUME NEW r \in v11, Schedule!AnswerCurrent(r)
      PROVE  Schedule!SavedInTime'
  <2>1. /\ r.which = "current" /\ UNCHANGED <<v1, v2>>
        /\ Schedule!NextPart(r.epoch, v11 \ {r})
    BY <1>7 DEF Schedule!AnswerCurrent
  <2>2. PICK answer \in Schedule!Answers :
          Schedule!Save(<<r.epoch, "current">>, answer)
    BY <1>7 DEF Schedule!AnswerCurrent
  <2>3. \/ v10' = v10
        \/ /\ answer \in Schedule!Answers
           /\ v10' = [v10 EXCEPT ![<<r.epoch, "current">>] = answer]
    BY <2>2 DEF Schedule!Save, Schedule!Array
  <2>4. v10' \in [Schedule!Keys -> Schedule!Answers]
    BY <1>1, <2>3
  <2>5. Schedule!SavedNextIsItsEpochs'
    BY <1>1, <2>3 DEF Schedule!SavedNextIsItsEpochs, Schedule!Keys
  <2>6. /\ r.epoch \in Nat
        /\ \/ Schedule!EpochOf(v1) = r.epoch
           \/ Schedule!EpochOf(v1) = r.epoch + 1 /\ v1 % EpochLen <= RunTime
    <3>1. Schedule!Timely(r) /\ v1 % EpochLen \in Nat
      BY <1>1, <1>2, <1>7, TickInEpoch
    <3>2. r.epoch \in Nat /\ r.at \in Nat /\ v1 - r.at <= RunTime
          /\ Schedule!Spent(r) = v1 - r.at
      BY <1>1, <2>1, <3>1 DEF Schedule!Timely, Schedule!Spent
    <3> QED
      BY <1>1, <1>2, <3>1, <3>2 DEF Schedule!Timely
  <2>7. \A s \in v11' : Schedule!Timely(s)'
    BY <2>1, <2>6, NextPartTimely
  <2>8. Schedule!TipFollows'
    BY <1>1, <2>1 DEF Schedule!TipFollows
  <2> QED
    BY <1>1, <2>1, <2>4, <2>5, <2>7, <2>8 DEF Schedule!SavedInTime
<1>8. ASSUME NEW r \in v11, Schedule!AnswerNext(r)
      PROVE  Schedule!SavedInTime'
  <2>1. r.which = "next" /\ UNCHANGED <<v1, v2>> /\ v11' = v11 \ {r}
    BY <1>8 DEF Schedule!AnswerNext
  <2>2. PICK answer \in Schedule!Answers :
          Schedule!Answered(r, answer) /\ Schedule!Save(<<r.epoch + 1, "next">>, answer)
    BY <1>8 DEF Schedule!AnswerNext
  <2>3. answer \in {None, Schedule!Blank, r.epoch + 1}
    BY <1>1, <1>8, <2>1, <2>2, AnswersItsEpoch
  <2>4. \/ v10' = v10
        \/ /\ answer \in Schedule!Answers
           /\ v10' = [v10 EXCEPT ![<<r.epoch + 1, "next">>] = answer]
    BY <2>2 DEF Schedule!Save, Schedule!Array
  <2>5. v10' \in [Schedule!Keys -> Schedule!Answers]
    BY <1>1, <2>4
  <2>6. Schedule!SavedNextIsItsEpochs'
    BY <1>1, <2>3, <2>4 DEF Schedule!SavedNextIsItsEpochs, Schedule!Keys
  <2>7. Schedule!TipFollows' /\ \A s \in v11' : Schedule!Timely(s)'
    BY <1>1, <2>1 DEF Schedule!TipFollows, Schedule!Timely, Schedule!Spent
  <2> QED
    BY <1>1, <2>1, <2>5, <2>6, <2>7 DEF Schedule!SavedInTime
<1>9. CASE Schedule!Reset
  <2>1. UNCHANGED <<v1, v2, v10>> /\ v11' = {}
    BY <1>9 DEF Schedule!Reset
  <2> QED
    BY <1>1, <2>1
    DEF Schedule!SavedInTime, Schedule!TipFollows, Schedule!SavedNextIsItsEpochs
<1> QED
  BY <1>4, <1>5, <1>6, <1>7, <1>8, <1>9 DEF Schedule!Next

\* What is saved as the next epoch's schedule "runs at most once" (read-model.js): it is
\* adopted unasked from then on, so it must be that epoch's, however slow its query,
\* whichever runs overlap and whatever is restarted meanwhile.
THEOREM SavedNextHolds == Spec => []SavedNextIsItsEpochs
<1> DEFINE Inv == machine = "schedule" => Schedule!SavedInTime
<1>1. Init => Inv
  BY InitSaved DEF Init
<1>2. Inv /\ [Next]_slots => Inv'
  <2> SUFFICES ASSUME Inv, [Next]_slots, machine = "schedule"
               PROVE  Schedule!SavedInTime'
    BY MachineSteps
  <2>1. CASE Schedule!Next
    BY <2>1, NextSaved
  <2>2. CASE UNCHANGED slots
    BY <2>2 DEF slots, Schedule!SavedInTime, Schedule!TipFollows, Schedule!Timely,
       Schedule!Spent, Schedule!SavedNextIsItsEpochs
  <2> QED
    BY <2>1, <2>2, MachineSteps
<1>3. Inv => SavedNextIsItsEpochs
  BY DEF SavedNextIsItsEpochs, Schedule!SavedInTime
<1> QED
  BY <1>1, <1>2, <1>3, PTL DEF Spec
-----------------------------------------------------------------------------
(* The connection to db-sync: a status of ok is true once no call is under    *)
(* way.                                                                       *)

AccessInv == v14 = [c \in Access!Callers |-> v14[c]] /\ Access!OkMeansReady

LEMMA InitReady == Access!Init => AccessInv
BY DEF Access!Init, AccessInv, Access!OkMeansReady, Access!AtRest, Access!Idle

\* A call that ends leaves a status that is true, or none that claims anything.
LEMMA EndsReady ==
  ASSUME AccessInv, NEW c \in Access!Callers, NEW s, Access!Ends(c, s),
         s = "ok" => v13'
  PROVE  AccessInv'
<1>1. v5' = s
  BY DEF Access!Ends, Access!Publish
<1>2. v14' = [v14 EXCEPT ![c] = Access!Idle]
  BY DEF Access!Ends
<1> QED
  BY <1>1, <1>2 DEF AccessInv, Access!OkMeansReady

\* While a call is under way nothing is claimed.
LEMMA BusyReady ==
  ASSUME NEW c \in Access!Callers, v14' = [d \in Access!Callers |-> v14'[d]],
         v14'[c].step # "idle"
  PROVE  AccessInv'
BY DEF AccessInv, Access!OkMeansReady, Access!AtRest

LEMMA RetryReady ==
  ASSUME AccessInv, NEW d, NEW known, Access!Retry(d, known), UNCHANGED v13
  PROVE  AccessInv'
<1>1. CASE v7
  BY <1>1 DEF Access!Retry, AccessInv, Access!OkMeansReady
<1>2. CASE ~v7
  <2>1. PICK c \in Access!Gates :
          v14' = [v14 EXCEPT ![c] = [step |-> "link", db |-> d, hex |-> v1]]
    BY <1>2 DEF Access!Retry
  <2>2. v14' = [e \in Access!Callers |-> v14'[e]] /\ v14'[c].step # "idle"
    BY <2>1 DEF AccessInv, Access!Callers
  <2> QED
    BY <2>2, BusyReady DEF Access!Callers
<1> QED
  BY <1>1, <1>2

LEMMA BeginsReady ==
  ASSUME AccessInv, NEW c \in Access!Callers, NEW d, NEW known, Access!Begins(c, d, known)
  PROVE  AccessInv'
<1>1. CASE Access!HasSecrets(d, known)
  <2>1. v14' = [v14 EXCEPT ![c] = [step |-> "link", db |-> d, hex |-> v1]]
    BY <1>1 DEF Access!Begins
  <2>2. v14' = [e \in Access!Callers |-> v14'[e]] /\ v14'[c].step # "idle"
    BY <2>1 DEF AccessInv
  <2> QED
    BY <2>2, BusyReady
<1>2. CASE ~Access!HasSecrets(d, known)
  BY <1>2, EndsReady DEF Access!Begins
<1> QED
  BY <1>1, <1>2

LEMMA StepReady ==
  ASSUME AccessInv, NEW c \in Access!Callers, Access!Step(c)
  PROVE  AccessInv'
<1>1. CASE Access!Linked(c)
  <2>1. v14' = [v14 EXCEPT ![c] = [step |-> "probe"]]
    BY <1>1 DEF Access!Linked
  <2>2. v14' = [e \in Access!Callers |-> v14'[e]] /\ v14'[c].step # "idle"
    BY <2>1 DEF AccessInv
  <2> QED
    BY <2>2, BusyReady
<1>2. CASE Access!Unlinked(c)
  BY <1>2, EndsReady DEF Access!Unlinked
<1>3. CASE Access!Probed(c)
  <2>1. v14' = [v14 EXCEPT ![c] = [step |-> "resolve", found |-> v11]]
    BY <1>3 DEF Access!Probed
  <2>2. v14' = [e \in Access!Callers |-> v14'[e]] /\ v14'[c].step # "idle"
    BY <2>1 DEF AccessInv
  <2> QED
    BY <2>2, BusyReady
<1>4. CASE Access!Resolved(c)
  <2>1. v14' = [v14 EXCEPT ![c] = [step |-> "version"]]
    BY <1>4 DEF Access!Resolved
  <2>2. v14' = [e \in Access!Callers |-> v14'[e]] /\ v14'[c].step # "idle"
    BY <2>1 DEF AccessInv
  <2> QED
    BY <2>2, BusyReady
<1>5. CASE Access!Versioned(c)
  BY <1>5, EndsReady DEF Access!Versioned
<1>6. CASE Access!Broken(c)
  BY <1>6, EndsReady DEF Access!Broken
<1> QED
  BY <1>1, <1>2, <1>3, <1>4, <1>5, <1>6 DEF Access!Step

LEMMA NextReady == AccessInv /\ Access!Next => AccessInv'
<1> SUFFICES ASSUME AccessInv, Access!Next
             PROVE  AccessInv'
  OBVIOUS
<1> USE DEF Access!env, Access!gate, Access!link
<1>1. ASSUME NEW c \in Access!Callers, Access!Step(c)
      PROVE  AccessInv'
  BY <1>1, StepReady
<1>2. ASSUME NEW d \in Databases, Access!Test(d)
      PROVE  AccessInv'
  BY <1>2, BeginsReady DEF Access!Test, Access!Callers
<1>3. ASSUME NEW d \in Databases, Access!Finish(d)
      PROVE  AccessInv'
  BY <1>3, RetryReady DEF Access!Finish
<1>4. CASE Access!Ensure
  BY <1>4, BeginsReady DEF Access!Ensure, Access!Callers
<1>5. CASE Access!EnterSecret
  BY <1>5, RetryReady DEF Access!EnterSecret
<1>6. CASE Access!Disconnect \/ Access!Drop
  BY <1>6 DEF Access!Disconnect, Access!Drop, AccessInv, Access!OkMeansReady
<1>7. ASSUME \/ \E d \in Databases : Access!Outage(d) \/ Access!Back(d)
             \/ \E p \in Pools : Access!Connect(p)
             \/ Access!NotNow \/ Access!Minute
      PROVE  AccessInv'
  <2>1. UNCHANGED <<v5, v6, v13, v14>>
    BY <1>7 DEF Access!Outage, Access!Back, Access!Connect, Access!NotNow, Access!Minute
  <2> QED
    BY <2>1 DEF AccessInv, Access!OkMeansReady, Access!AtRest
<1> QED
  BY <1>1, <1>2, <1>3, <1>4, <1>5, <1>6, <1>7 DEF Access!Next
-----------------------------------------------------------------------------
(* The sessions to a node. That a block producer without a pool is told of    *)
(* holds however the steps of connecting, the questions and reloads mix.      *)
-----------------------------------------------------------------------------
(* The sessions to a node. That a block producer without a pool is told of    *)
(* holds however the steps of connecting, the questions and reloads mix: both *)
(* instances keep it, and it does not speak of their disturbances.            *)

LEMMA InitTold == Node!Init \/ Hasty!Init => Node!Told
BY NoneAssumption
DEF Node!Init, Hasty!Init, Node!FirstDialog, Hasty!FirstDialog, Node!Told, Node!OneAtATime, Node!TellsInTime, Node!Settled,
    Node!FirstAttempt, Hasty!FirstAttempt, Node!NoAttempt, Hasty!NoAttempt

\* A page that is entered asks for the role, or shows none.
LEMMA EnterAsks ==
  ASSUME Node!Enter \/ Hasty!Enter
  PROVE  /\ v6' = "none" /\ v8' = TRUE /\ v9 \subseteq v9' /\ UNCHANGED <<v5, v12>>
         /\ Node!Asked' \/ v10' = None
         /\ (v10' = v10 /\ v11' = v11) \/ (v10' = None /\ v11' = None)
         /\ v9' \subseteq v9 \cup {[what |-> "probe", of |-> v1]}
<1>1. CASE v3 = "live"
  <2>1. v9' = v9 \cup {[what |-> "probe", of |-> v1]}
    BY <1>1 DEF Node!Enter, Hasty!Enter, Node!RunProbe, Hasty!RunProbe
  <2> DEFINE new == [what |-> "probe", of |-> v1]
  <2>2. new \in v9' /\ new.what = "probe"
    BY <2>1
  <2>3. Node!Asked'
    BY <2>2 DEF Node!Asked
  <2> QED
    BY <1>1, <2>1, <2>3
    DEF Node!Enter, Hasty!Enter, Node!RunProbe, Hasty!RunProbe, Node!paint, Hasty!paint
<1>2. CASE v3 # "live"
  BY <1>2 DEF Node!Enter, Hasty!Enter, Node!RunProbe, Hasty!RunProbe
<1> QED
  BY <1>1, <1>2

LEMMA NextTold == Node!Told /\ (Node!Next \/ Hasty!Next) => Node!Told'
<1> SUFFICES ASSUME Node!OneAtATime, Node!TellsInTime, Node!Next \/ Hasty!Next
             PROVE  Node!OneAtATime' /\ Node!TellsInTime'
  BY DEF Node!Told
<1> USE NoneAssumption
    DEF Node!OneAtATime, Node!TellsInTime, Node!Settled, Node!Asked,
        Node!NoAttempt, Hasty!NoAttempt, Node!link, Hasty!link, Node!page, Hasty!page,
        Node!paint, Hasty!paint
<1>1. CASE Node!ResumeAsks \/ Hasty!ResumeAsks
  BY <1>1
  DEF Node!ResumeAsks, Hasty!ResumeAsks
<1>2. CASE Node!SshOpens \/ Hasty!SshOpens
  BY <1>2
  DEF Node!SshOpens, Hasty!SshOpens
<1>3. CASE Node!EnvAnswers \/ Hasty!EnvAnswers
  <2>1. Node!OneAtATime'
    BY <1>3 DEF Node!EnvAnswers, Hasty!EnvAnswers
  <2>2. Node!TellsInTime'
    BY <1>3 DEF Node!EnvAnswers, Hasty!EnvAnswers
  <2> QED
    BY <2>1, <2>2
<1>4. CASE Node!EnvRejected \/ Hasty!EnvRejected
  BY <1>4
  DEF Node!EnvRejected, Hasty!EnvRejected, Node!GivesUp, Hasty!GivesUp
<1>5. CASE Node!AttemptFails \/ Hasty!AttemptFails
  BY <1>5
  DEF Node!AttemptFails, Hasty!AttemptFails, Node!GivesUp, Hasty!GivesUp
<1>6. CASE Node!CacheReady \/ Hasty!CacheReady
  <2>1. UNCHANGED <<v2, v4>> /\ v7' = Node!NoAttempt /\ ~v8
    BY <1>6 DEF Node!CacheReady, Hasty!CacheReady
  <2>2. CASE v6 = "wizform"
    BY <1>6, <2>1, <2>2 DEF Node!CacheReady, Hasty!CacheReady
  <2>3. CASE v6 # "wizform"
    <3>1. Node!Enter \/ Hasty!Enter
      BY <1>6, <2>3 DEF Node!CacheReady, Hasty!CacheReady
    <3> QED
      BY <2>1, <3>1, EnterAsks
  <2> QED
    BY <2>2, <2>3
<1>7. CASE Node!OpenForm \/ Hasty!OpenForm
  BY <1>7
  DEF Node!OpenForm, Hasty!OpenForm
<1>8. CASE Node!OpenWizard \/ Hasty!OpenWizard
  BY <1>8
  DEF Node!OpenWizard, Hasty!OpenWizard
<1>9. CASE Node!FinishWizard \/ Hasty!FinishWizard
  <2>1. UNCHANGED <<v2, v4>> /\ v7' = v7 /\ v7 = Node!NoAttempt
        /\ (Node!Enter \/ Hasty!Enter)
    BY <1>9 DEF Node!FinishWizard, Hasty!FinishWizard
  <2> QED
    BY <2>1, EnterAsks
<1>10. CASE Node!CancelWizard \/ Hasty!CancelWizard
  BY <1>10
  DEF Node!CancelWizard, Hasty!CancelWizard
<1>11. CASE Node!ExploreDemo \/ Hasty!ExploreDemo
  <2>1. Node!OneAtATime'
    BY <1>11 DEF Node!ExploreDemo, Hasty!ExploreDemo
  <2>2. Node!TellsInTime'
    BY <1>11 DEF Node!ExploreDemo, Hasty!ExploreDemo
  <2> QED
    BY <2>1, <2>2
<1>12. CASE Node!RerunIntoDemo \/ Hasty!RerunIntoDemo
  BY <1>12
  DEF Node!RerunIntoDemo, Hasty!RerunIntoDemo
<1>13. CASE Node!BackToLive \/ Hasty!BackToLive
  BY <1>13
  DEF Node!BackToLive, Hasty!BackToLive
<1>14. CASE Node!Disconnect \/ Hasty!Disconnect
  BY <1>14
  DEF Node!Disconnect, Hasty!Disconnect, Node!Disconnected, Hasty!Disconnected
<1>15. CASE Node!Reload \/ Hasty!Reload
  BY <1>15
  DEF Node!Reload, Hasty!Reload, Node!FirstDialog, Hasty!FirstDialog,
      Node!FirstAttempt, Hasty!FirstAttempt
<1>16. ASSUME NEW a \in v9, Node!ProbeAnswers(a) \/ Hasty!ProbeAnswers(a)
      PROVE  Node!OneAtATime' /\ Node!TellsInTime'
  <2>1. Node!OneAtATime'
    BY <1>16 DEF Node!ProbeAnswers, Hasty!ProbeAnswers
  <2>2. v5' = "BP" => v12' \/ (v4 # None /\ v4.pool)
    BY <1>16 DEF Node!ProbeAnswers, Hasty!ProbeAnswers, Node!WarnsOfPool, Hasty!WarnsOfPool
  <2>3. v10' = v5' /\ UNCHANGED v4
    BY <1>16 DEF Node!ProbeAnswers, Hasty!ProbeAnswers
  <2> QED
    BY <2>1, <2>2, <2>3
<1>17. ASSUME NEW a \in v9, Node!VersionAnswers(a) \/ Hasty!VersionAnswers(a)
      PROVE  Node!OneAtATime' /\ Node!TellsInTime'
  BY <1>17 DEF Node!VersionAnswers, Hasty!VersionAnswers
<1>18. ASSUME NEW n \in Nodes, Node!PressConnect(n) \/ Hasty!PressConnect(n)
      PROVE  Node!OneAtATime' /\ Node!TellsInTime'
  BY <1>18 DEF Node!PressConnect, Hasty!PressConnect
<1>19. ASSUME NEW n \in Nodes, Node!NodeStops(n) \/ Hasty!NodeStops(n)
      PROVE  Node!OneAtATime' /\ Node!TellsInTime'
  BY <1>19 DEF Node!NodeStops, Hasty!NodeStops
<1>20. ASSUME NEW n \in Nodes, Node!NodeStarts(n) \/ Hasty!NodeStarts(n)
      PROVE  Node!OneAtATime' /\ Node!TellsInTime'
  BY <1>20 DEF Node!NodeStarts, Hasty!NodeStarts
<1> QED
  BY <1>1, <1>2, <1>3, <1>4, <1>5, <1>6, <1>7, <1>8, <1>9, <1>10, <1>11, <1>12,
     <1>13, <1>14, <1>15, <1>16, <1>17, <1>18, <1>19, <1>20
  DEF Node!Next, Hasty!Next, Node!Answer, Hasty!Answer
-----------------------------------------------------------------------------
(* Whose name, role and version the header has: of the machine "node".        *)

LEMMA InitOrderly == Node!Init => Node!Orderly
BY InitTold
DEF Node!Init, Node!Told, Node!Orderly, Node!SessionIsTheirs, Node!StaleIsAsked,
    Node!Fits, Node!FirstAttempt, Node!NoAttempt, Node!Settled

\* What the probe of the session's node finds fits it.
LEMMA HeardFits == \A role \in Node!Heard(v1) : Node!Fits(role)
BY DEF Node!Heard, Node!RoleOf, Node!Fits

\* A page that is entered has a question out for what it still shows.
LEMMA EnteredOrderly ==
  ASSUME v9 = {}, v5 = None, v4 # None => v4.host = v1,
         v7' = Node!NoAttempt, UNCHANGED <<v1, v4>>, Node!Enter
  PROVE  Node!SessionIsTheirs' /\ Node!StaleIsAsked'
<1>1. /\ v6' = "none" /\ v8' = TRUE /\ v5' = None
      /\ Node!Asked' \/ v10' = None
      /\ v9' \subseteq {[what |-> "probe", of |-> v1]}
  BY EnterAsks
<1>2. v9' # {} \/ v11' = None
  BY DEF Node!Enter, Node!RunProbe
<1>3. Node!SessionIsTheirs'
  BY <1>1 DEF Node!SessionIsTheirs, Node!Settled, Node!NoAttempt
<1> QED
  BY <1>1, <1>2, <1>3 DEF Node!StaleIsAsked, Node!Settled, Node!Fits

LEMMA NextOrderly ==
  Node!Orderly /\ Node!Next => Node!SessionIsTheirs' /\ Node!StaleIsAsked'
<1> SUFFICES ASSUME Node!OneAtATime, Node!SessionIsTheirs, Node!StaleIsAsked, Node!Next
             PROVE  Node!SessionIsTheirs' /\ Node!StaleIsAsked'
  BY DEF Node!Orderly
<1> USE NoneAssumption
    DEF Node!SessionIsTheirs, Node!StaleIsAsked, Node!Settled, Node!Fits,
        Node!NoAttempt, Node!link, Node!page, Node!paint
<1>1. CASE Node!ResumeAsks
  <2>1. Node!SessionIsTheirs'
    BY <1>1 DEF Node!OneAtATime, Node!ResumeAsks
  <2>2. Node!StaleIsAsked'
    BY <1>1 DEF Node!OneAtATime, Node!Asked, Node!ResumeAsks
  <2> QED
    BY <2>1, <2>2
<1>2. CASE Node!SshOpens
  <2>1. Node!SessionIsTheirs'
    BY <1>2 DEF Node!OneAtATime, Node!SshOpens
  <2>2. Node!StaleIsAsked'
    BY <1>2 DEF Node!OneAtATime, Node!Asked, Node!SshOpens
  <2> QED
    BY <2>1, <2>2
<1>3. CASE Node!EnvAnswers
  <2>1. Node!SessionIsTheirs'
    BY <1>3 DEF Node!OneAtATime, Node!EnvAnswers
  <2>2. Node!StaleIsAsked'
    BY <1>3 DEF Node!OneAtATime, Node!Asked, Node!EnvAnswers
  <2> QED
    BY <2>1, <2>2
<1>4. CASE Node!EnvRejected
  <2>1. Node!SessionIsTheirs'
    BY <1>4 DEF Node!OneAtATime, Node!EnvRejected, Node!GivesUp
  <2>2. Node!StaleIsAsked'
    BY <1>4 DEF Node!OneAtATime, Node!Asked, Node!EnvRejected, Node!GivesUp
  <2> QED
    BY <2>1, <2>2
<1>5. CASE Node!AttemptFails
  <2>1. Node!SessionIsTheirs'
    BY <1>5 DEF Node!OneAtATime, Node!AttemptFails, Node!GivesUp
  <2>2. Node!StaleIsAsked'
    BY <1>5 DEF Node!OneAtATime, Node!Asked, Node!AttemptFails, Node!GivesUp
  <2> QED
    BY <2>1, <2>2
<1>6. CASE Node!CacheReady
  <2>1. /\ v9 = {} /\ v5 = None /\ v7' = Node!NoAttempt /\ UNCHANGED <<v1, v4>>
        /\ v4 # None => v4.host = v1
    BY <1>6 DEF Node!OneAtATime, Node!CacheReady
  <2>2. CASE v6 = "wizform"
    BY <1>6, <2>1, <2>2 DEF Node!CacheReady
  <2>3. CASE v6 # "wizform"
    BY <1>6, <2>1, <2>3, EnteredOrderly DEF Node!CacheReady
  <2> QED
    BY <2>2, <2>3
<1>7. CASE Node!OpenForm
  <2>1. Node!SessionIsTheirs'
    BY <1>7 DEF Node!OneAtATime, Node!OpenForm
  <2>2. Node!StaleIsAsked'
    BY <1>7 DEF Node!OneAtATime, Node!Asked, Node!OpenForm
  <2> QED
    BY <2>1, <2>2
<1>8. CASE Node!OpenWizard
  <2>1. Node!SessionIsTheirs'
    BY <1>8 DEF Node!OneAtATime, Node!OpenWizard
  <2>2. Node!StaleIsAsked'
    BY <1>8 DEF Node!OneAtATime, Node!Asked, Node!OpenWizard
  <2> QED
    BY <2>1, <2>2
<1>9. CASE Node!FinishWizard
  <2>1. /\ v9 = {} /\ v5 = None /\ v7' = Node!NoAttempt /\ UNCHANGED <<v1, v4>>
        /\ v4 # None => v4.host = v1
    BY <1>9 DEF Node!OneAtATime, Node!FinishWizard
  <2>2. Node!Enter
    BY <1>9 DEF Node!FinishWizard
  <2> QED
    BY <2>1, <2>2, EnteredOrderly
<1>10. CASE Node!CancelWizard
  <2>1. Node!SessionIsTheirs'
    BY <1>10 DEF Node!OneAtATime, Node!CancelWizard
  <2>2. Node!StaleIsAsked'
    BY <1>10 DEF Node!OneAtATime, Node!Asked, Node!CancelWizard
  <2> QED
    BY <2>1, <2>2
<1>11. CASE Node!ExploreDemo
  <2>1. Node!SessionIsTheirs'
    BY <1>11 DEF Node!OneAtATime, Node!ExploreDemo
  <2>2. Node!StaleIsAsked'
    BY <1>11 DEF Node!OneAtATime, Node!Asked, Node!ExploreDemo
  <2> QED
    BY <2>1, <2>2
<1>12. CASE Node!RerunIntoDemo
  <2>1. Node!SessionIsTheirs'
    BY <1>12 DEF Node!OneAtATime, Node!RerunIntoDemo
  <2>2. Node!StaleIsAsked'
    BY <1>12 DEF Node!OneAtATime, Node!Asked, Node!RerunIntoDemo
  <2> QED
    BY <2>1, <2>2
<1>13. CASE Node!BackToLive
  <2>1. Node!SessionIsTheirs'
    BY <1>13 DEF Node!OneAtATime, Node!BackToLive
  <2>2. Node!StaleIsAsked'
    BY <1>13 DEF Node!OneAtATime, Node!Asked, Node!BackToLive
  <2> QED
    BY <2>1, <2>2
<1>14. CASE Node!Disconnect
  <2>1. Node!SessionIsTheirs'
    BY <1>14 DEF Node!OneAtATime, Node!Disconnect, Node!Disconnected
  <2>2. Node!StaleIsAsked'
    BY <1>14 DEF Node!OneAtATime, Node!Asked, Node!Disconnect, Node!Disconnected
  <2> QED
    BY <2>1, <2>2
<1>15. CASE Node!Reload
  <2>1. Node!SessionIsTheirs'
    BY <1>15 DEF Node!OneAtATime, Node!Reload, Node!FirstDialog, Node!FirstAttempt
  <2>2. Node!StaleIsAsked'
    BY <1>15 DEF Node!OneAtATime, Node!Asked, Node!Reload, Node!FirstDialog,
               Node!FirstAttempt
  <2> QED
    BY <2>1, <2>2
<1>16. ASSUME NEW a \in v9, Node!ProbeAnswers(a)
      PROVE  Node!SessionIsTheirs' /\ Node!StaleIsAsked'
  <2>1. Node!SessionIsTheirs'
    BY <1>16 DEF Node!OneAtATime, Node!Asked, Node!ProbeAnswers
  <2>2. Node!Fits(v5') /\ Node!Fits(v10') /\ UNCHANGED <<v1, v4, v6, v7, v8>>
    BY <1>16, HeardFits DEF Node!ProbeAnswers
  <2>3. Node!Settled /\ Node!Settled'
    BY <1>16, <2>2
  <2>4. v9' # {} \/ v11' = None
    BY <1>16 DEF Node!ProbeAnswers
  <2>5. Node!StaleIsAsked'
    BY <2>2, <2>3, <2>4
  <2> QED
    BY <2>1, <2>5
<1>17. ASSUME NEW a \in v9, Node!VersionAnswers(a)
      PROVE  Node!SessionIsTheirs' /\ Node!StaleIsAsked'
  <2>1. Node!SessionIsTheirs'
    BY <1>17 DEF Node!OneAtATime, Node!Asked, Node!VersionAnswers
  <2>2. Node!StaleIsAsked'
    BY <1>17 DEF Node!OneAtATime, Node!Asked, Node!VersionAnswers
  <2> QED
    BY <2>1, <2>2
<1>18. ASSUME NEW n \in Nodes, Node!PressConnect(n)
      PROVE  Node!SessionIsTheirs' /\ Node!StaleIsAsked'
  <2>1. Node!SessionIsTheirs'
    BY <1>18 DEF Node!OneAtATime, Node!Asked, Node!PressConnect
  <2>2. Node!StaleIsAsked'
    BY <1>18 DEF Node!OneAtATime, Node!Asked, Node!PressConnect
  <2> QED
    BY <2>1, <2>2
<1>19. ASSUME NEW n \in Nodes, Node!NodeStops(n)
      PROVE  Node!SessionIsTheirs' /\ Node!StaleIsAsked'
  <2>1. Node!SessionIsTheirs'
    BY <1>19 DEF Node!OneAtATime, Node!Asked, Node!NodeStops
  <2>2. Node!StaleIsAsked'
    BY <1>19 DEF Node!OneAtATime, Node!Asked, Node!NodeStops
  <2> QED
    BY <2>1, <2>2
<1>20. ASSUME NEW n \in Nodes, Node!NodeStarts(n)
      PROVE  Node!SessionIsTheirs' /\ Node!StaleIsAsked'
  <2>1. Node!SessionIsTheirs'
    BY <1>20 DEF Node!OneAtATime, Node!Asked, Node!NodeStarts
  <2>2. Node!StaleIsAsked'
    BY <1>20 DEF Node!OneAtATime, Node!Asked, Node!NodeStarts
  <2> QED
    BY <2>1, <2>2
<1> QED
  BY <1>1, <1>2, <1>3, <1>4, <1>5, <1>6, <1>7, <1>8, <1>9, <1>10, <1>11, <1>12,
     <1>13, <1>14, <1>15, <1>16, <1>17, <1>18, <1>19, <1>20
  DEF Node!Next, Node!Answer
-----------------------------------------------------------------------------
(* Induction, and the least of a set.                                      *)

\* A set of natural numbers has a least one.
LEMMA Least ==
    ASSUME NEW T, T \subseteq Nat, T # {}
    PROVE  \E n \in T : \A m \in T : n <= m
<1> DEFINE Q == {0..n : n \in T}
<1>1. Q \subseteq FiniteSubsetsOf(Nat)
  <2>1. \A n \in T : n \in Int /\ 0 \in Int /\ 0..n \subseteq Nat
    OBVIOUS
  <2>2. \A n \in T : IsFiniteSet(0..n)
    BY <2>1, FS_Interval
  <2> QED  BY <2>1, <2>2 DEF FiniteSubsetsOf
<1>2. PICK x \in Q : \A y \in Q : <<y, x>> \notin StrictSubsetOrdering(Nat)
  <2>1. Q # {}
    OBVIOUS
  <2> HIDE DEF Q
  <2> QED  BY <1>1, <2>1, WFMin, FS_StrictSubsetOrderingWellFounded
<1>3. PICK n \in T : x = 0..n
  OBVIOUS
<1>4. ASSUME NEW m \in T PROVE n <= m
  <2>1. 0..m \in Q /\ <<0..m, x>> \notin StrictSubsetOrdering(Nat)
    BY <1>2
  <2>2. ~(0..m \subseteq 0..n /\ 0..m # 0..n)
    BY <2>1, <1>3 DEF StrictSubsetOrdering
  <2>3. SUFFICES ASSUME m < n PROVE FALSE
    OBVIOUS
  <2>4. n \in 0..n /\ n \notin 0..m /\ 0..m \subseteq 0..n
    BY <2>3
  <2> QED  BY <2>2, <2>4
<1> QED  BY <1>4

\* Induction over the natural numbers, said of a set of them.
LEMMA Induct ==
    ASSUME NEW T, 0 \in T, \A n \in Nat : n \in T => n + 1 \in T
    PROVE  Nat \subseteq T
<1> SUFFICES ASSUME Nat \ T # {} PROVE FALSE
  OBVIOUS
<1>1. PICK n \in Nat \ T : \A m \in Nat \ T : n <= m
  BY Least
<1>2. n # 0 /\ n - 1 \in Nat
  OBVIOUS
<1>3. n - 1 \in T
  BY <1>1, <1>2
<1> QED  BY <1>2, <1>3

-----------------------------------------------------------------------------
(* The feed of messages (MessageFeed).                                     *)

\* Messages in order, samples between them or not; those of one before those of another.
InOrder(s) == \A i, j \in 1..Len(s) : i < j /\ s[i] # 0 /\ s[j] # 0 => s[i] < s[j]
Before(s, b) == \A i \in 1..Len(s), j \in 1..Len(b) : s[i] # 0 /\ b[j] # 0 => s[i] < b[j]
UpTo(s, n) == \A i \in 1..Len(s) : s[i] <= n

\* What is on the screen was shown before what waits, all of it up to the watermark, and
\* one call at most is under way: a seed only of a feed without a watermark.
FeedOrder ==
    /\ InOrder(v7) /\ InOrder(v6) /\ Before(v7, v6) /\ UpTo(v7, v5) /\ UpTo(v6, v5)
    /\ \A t, u \in Calls : v11[t] # Feed!Off /\ v11[u] # Feed!Off => t = u
    /\ \A t \in Calls : v11[t].step \in {"start", "seed"} => v5 = 0

FeedTasks == [step : {"off", "start", "seed", "page"}, page : Nat]
FeedTyped ==
    /\ v1 \in Nat /\ v5 \in Nat /\ v5 <= v1 /\ v6 \in Seq(Nat) /\ v7 \in Seq(Nat)
    /\ v11 \in [Calls -> FeedTasks]
    /\ ~v3 => v7 = <<>>

FeedInv == FeedTyped /\ (~v12 => FeedOrder)

LEMMA FeedStart == Feed!Init => FeedInv
<1> SUFFICES ASSUME Feed!Init PROVE FeedInv
  OBVIOUS
<1>1. /\ v1 \in 0..1 /\ v5 = 0 /\ v6 = <<>> /\ v7 = <<>>
      /\ v11 = [t \in Calls |-> Feed!Off] /\ Feed!Off = [step |-> "off", page |-> 0]
  BY DEF Feed!Init, Feed!Off
<1>2. FeedTyped
  BY <1>1 DEF FeedTyped, FeedTasks
<1>3. FeedOrder
  BY <1>1 DEF FeedOrder, InOrder, Before, UpTo
<1> QED  BY <1>2, <1>3 DEF FeedInv

LEMMA FeedHolds == FeedInv => Feed!OnceAndInOrder
<1> SUFFICES ASSUME FeedInv, ~v12 PROVE Feed!Ascending(v7 \o v6)
  BY DEF Feed!OnceAndInOrder, Feed!Delivered
<1>1. /\ v6 \in Seq(Nat) /\ v7 \in Seq(Nat) /\ InOrder(v7) /\ InOrder(v6) /\ Before(v7, v6)
  BY DEF FeedInv, FeedTyped, FeedOrder
<1>2. PICK out : out = v7 \o v6
  OBVIOUS
<1>3. /\ DOMAIN out = 1..(Len(v7) + Len(v6))
      /\ \A i \in 1..(Len(v7) + Len(v6)) :
           out[i] = IF i <= Len(v7) THEN v7[i] ELSE v6[i - Len(v7)]
  BY <1>1, <1>2
<1>4. ASSUME NEW i \in DOMAIN out, NEW j \in DOMAIN out, i < j, out[i] # 0, out[j] # 0
      PROVE  out[i] < out[j]
  <2>0. Len(v7) \in Nat /\ Len(v6) \in Nat
    BY <1>1
  <2>1. CASE j <= Len(v7)
    BY <1>1, <1>3, <1>4, <2>0, <2>1 DEF InOrder
  <2>2. CASE i > Len(v7)
    <3>1. /\ i - Len(v7) \in 1..Len(v6) /\ j - Len(v7) \in 1..Len(v6)
          /\ out[i] = v6[i - Len(v7)] /\ out[j] = v6[j - Len(v7)] /\ i - Len(v7) < j - Len(v7)
      BY <1>3, <1>4, <2>0, <2>2
    <3> QED  BY <1>1, <1>4, <3>1 DEF InOrder
  <2>3. CASE i <= Len(v7) /\ j > Len(v7)
    <3>1. /\ i \in 1..Len(v7) /\ j - Len(v7) \in 1..Len(v6)
          /\ out[i] = v7[i] /\ out[j] = v6[j - Len(v7)]
      BY <1>3, <1>4, <2>0, <2>3
    <3> QED  BY <1>1, <1>4, <3>1 DEF Before
  <2> QED  BY <1>3, <1>4, <2>0, <2>1, <2>2, <2>3
<1>5. Feed!Ascending(out)
  BY <1>4 DEF Feed!Ascending, Feed!Sample
<1> QED  BY <1>2, <1>5

\* What waits, followed by the messages from c on.
Follows(b, c, out) ==
    /\ out \in Seq(Nat) /\ Len(b) <= Len(out) /\ \A i \in 1..Len(b) : out[i] = b[i]
    /\ \A i \in 1..Len(out) : i > Len(b) => out[i] = c + (i - Len(b))

LEMMA FeedFollows ==
    ASSUME NEW s \in Seq(Nat), NEW b \in Seq(Nat), NEW n \in Nat, NEW c \in Nat, n <= c,
           InOrder(s), InOrder(b), Before(s, b), UpTo(s, n), UpTo(b, n),
           NEW out, Follows(b, c, out), NEW m, m = c + (Len(out) - Len(b))
    PROVE  /\ m \in Nat /\ InOrder(out) /\ Before(s, out) /\ UpTo(s, m) /\ UpTo(out, m)
<1>8. PICK k \in Nat, l \in Nat : k = Len(b) /\ Len(out) = k + l
  <2>1. PICK k, h : k = Len(b) /\ h = Len(out)
    OBVIOUS
  <2>2. k \in Nat /\ h \in Nat /\ k <= h
    BY <2>1 DEF Follows
  <2>3. h - k \in Nat /\ h = k + (h - k)
    BY <2>2
  <2> QED  BY <2>1, <2>2, <2>3
<1>1. \A i \in 1..k : out[i] = b[i] /\ out[i] \in Nat /\ out[i] <= n
  BY <1>8 DEF UpTo, Follows
<1>2. \A i \in 1..(k + l) : i > k => out[i] = c + (i - k)
  BY <1>8 DEF Follows
<1>0. m = c + l /\ m \in Nat
  BY <1>8
<1>3. \A i \in 1..(k + l) : i \in 1..k \/ (i > k /\ i - k >= 1 /\ i - k <= l)
  BY <1>8
<1>4. InOrder(out)
  <2>1. SUFFICES ASSUME NEW i \in 1..(k + l), NEW j \in 1..(k + l), i < j, out[i] # 0, out[j] # 0
                 PROVE  out[i] < out[j]
    BY <1>8 DEF InOrder
  <2>2. CASE i \in 1..k /\ j \in 1..k
    BY <1>8, <1>1, <2>1, <2>2 DEF InOrder
  <2>3. CASE i \in 1..k /\ j > k
    <3>1. out[i] \in Nat /\ out[i] <= n
      BY <1>1, <2>3
    <3>2. out[j] = c + (j - k)
      BY <1>2, <2>3
    <3> QED  BY <2>3, <3>1, <3>2
  <2>4. CASE i > k
    <3>1. out[i] = c + (i - k) /\ out[j] = c + (j - k)
      BY <1>2, <2>1, <2>4
    <3> QED  BY <2>1, <3>1
  <2>5. (i \in 1..k /\ j \in 1..k) \/ (i \in 1..k /\ j > k) \/ i > k
    OBVIOUS
  <2> QED  BY <2>2, <2>3, <2>4, <2>5
<1>5. ASSUME NEW i \in 1..Len(s) PROVE s[i] \in Nat /\ s[i] <= n /\ s[i] <= m
  <2>1. s[i] \in Nat /\ s[i] <= n
    BY DEF UpTo
  <2> QED  BY <1>0, <2>1
<1>6. Before(s, out)
  <2>1. SUFFICES ASSUME NEW i \in 1..Len(s), NEW j \in 1..(k + l), s[i] # 0, out[j] # 0
                 PROVE  s[i] < out[j]
    BY <1>8 DEF Before
  <2>2. CASE j \in 1..k
    BY <1>8, <1>1, <2>1, <2>2 DEF Before
  <2>3. CASE j > k
    <3>1. out[j] = c + (j - k) /\ s[i] \in Nat /\ s[i] <= n
      BY <1>2, <1>5, <2>3
    <3> QED  BY <2>3, <3>1
  <2> QED  BY <1>3, <2>2, <2>3
<1>7. UpTo(out, m)
  <2>1. SUFFICES ASSUME NEW j \in 1..(k + l) PROVE out[j] <= m
    BY <1>8 DEF UpTo
  <2>2. CASE j \in 1..k
    <3>1. out[j] \in Nat /\ out[j] <= n
      BY <1>1, <2>2
    <3> QED  BY <1>0, <3>1
  <2>3. CASE j > k
    <3>1. out[j] = c + (j - k)
      BY <1>2, <2>3
    <3> QED  BY <1>0, <2>3, <3>1
  <2> QED  BY <1>3, <2>2, <2>3
<1> QED  BY <1>4, <1>0, <1>5, <1>6, <1>7 DEF UpTo

LEMMA FeedGrows ==
    ASSUME NEW b \in Seq(Nat), NEW c \in Nat,
           NEW new \in Seq(Nat), \A i \in 1..Len(new) : new[i] = c + i
    PROVE  Follows(b, c, b \o new) /\ Len(b \o new) - Len(b) = Len(new)
<1>1. PICK k \in Nat, l \in Nat : k = Len(b) /\ l = Len(new)
  OBVIOUS
<1>2. PICK out : out = b \o new
  OBVIOUS
<1>3. out \in Seq(Nat) /\ Len(out) = k + l /\ \A i \in 1..k : out[i] = b[i]
  BY <1>1, <1>2
<1>4. ASSUME NEW i \in 1..(k + l), i > k PROVE out[i] = c + (i - k)
  <2>1. out[i] = new[i - k] /\ i - k \in 1..Len(new)
    BY <1>1, <1>2, <1>4
  <2> QED  BY <2>1
<1> QED  BY <1>1, <1>2, <1>3, <1>4 DEF Follows

\* What waits loses its first.
Rest(b, k, out) ==
    /\ out \in Seq(Nat)
    /\ \A i \in 1..Len(out) : i + k \in 1..Len(b) /\ out[i] = b[i + k]

LEMMA FeedRest ==
    ASSUME NEW b \in Seq(Nat), NEW k \in Nat, k <= Len(b),
           NEW out, out = SubSeq(b, k + 1, Len(b))
    PROVE  Rest(b, k, out)
<1>1. PICK l \in Nat : l = Len(b)
  OBVIOUS
<1>2. out \in Seq(Nat) /\ Len(out) = l - k
  BY <1>1
<1>3. \A i \in 1..(l - k) : i + k \in 1..l
  BY <1>1
<1>4. \A i \in 1..(l - k) : out[i] = b[i + k]
  BY <1>1
<1> QED  BY <1>1, <1>2, <1>3, <1>4 DEF Rest

LEMMA FeedShrinks ==
    ASSUME NEW s \in Seq(Nat), NEW b \in Seq(Nat), NEW n \in Nat,
           InOrder(b), Before(s, b), UpTo(b, n), NEW k \in Nat, NEW out, Rest(b, k, out)
    PROVE  InOrder(out) /\ Before(s, out) /\ UpTo(out, n)
<1>1. \A i \in 1..Len(out) : i + k \in 1..Len(b) /\ out[i] = b[i + k]
  BY DEF Rest
<1>2. ASSUME NEW i \in 1..Len(out), NEW j \in 1..Len(out), i < j, out[i] # 0, out[j] # 0
      PROVE  out[i] < out[j]
  <2>1. i + k < j + k /\ i + k \in 1..Len(b) /\ j + k \in 1..Len(b)
    BY <1>1, <1>2
  <2>2. out[i] = b[i + k] /\ out[j] = b[j + k]
    BY <1>1
  <2> QED  BY <1>2, <2>1, <2>2 DEF InOrder
<1>3. InOrder(out)
  BY <1>2 DEF InOrder
<1>4. Before(s, out) /\ UpTo(out, n)
  BY <1>1 DEF Before, UpTo
<1> QED  BY <1>3, <1>4

\* What is not late was not, and if something begins, nothing was under way.
LEMMA FeedNotLate ==
    ASSUME FeedInv, ~v12', v12' = v12 \/ v12' = (v12 \/ Feed!Busy)
    PROVE  FeedOrder
BY DEF FeedInv

LEMMA FeedBusy ==
    ASSUME FeedInv, ~v12', v12' = (v12 \/ Feed!Busy)
    PROVE  \A t \in Calls : v11[t] = Feed!Off
BY DEF Feed!Busy

\* The feed is started, or the view left: it is empty.
LEMMA FeedStarts ==
    ASSUME FeedInv, NEW m, Feed!StartIn(m), v1' = v1 PROVE FeedInv'
<1>1. v5' = 0 /\ v6' = <<>> /\ v7' = <<>> /\ v12' = (v12 \/ Feed!Busy) /\ v1' \in Nat
  BY DEF Feed!StartIn, FeedInv, FeedTyped
<1>2. v11' = v11 \/ \E t \in Calls : v11[t] = Feed!Off /\ v11' = [v11 EXCEPT ![t].step = "start"]
  BY DEF Feed!StartIn
<1>3. FeedTyped'
  <2>1. v11' \in [Calls -> FeedTasks]
    <3>1. ASSUME NEW t \in Calls PROVE [v11 EXCEPT ![t].step = "start"] \in [Calls -> FeedTasks]
      <4>1. v11 \in [Calls -> FeedTasks] /\ v11[t] \in FeedTasks
        BY DEF FeedInv, FeedTyped
      <4>2. [v11[t] EXCEPT !.step = "start"] \in FeedTasks
        BY <4>1 DEF FeedTasks
      <4> QED  BY <4>1, <4>2
    <3> QED  BY <1>2, <3>1 DEF FeedInv, FeedTyped
  <2> QED  BY <1>1, <2>1 DEF FeedTyped
<1>4. ASSUME ~v12' PROVE FeedOrder'
  <2>1. \A t \in Calls : v11[t] = Feed!Off
    BY <1>1, <1>4, FeedBusy
  <2>2. \A t, u \in Calls : v11'[t] # Feed!Off /\ v11'[u] # Feed!Off => t = u
    BY <1>2, <2>1 DEF FeedInv, FeedTyped
  <2> QED  BY <1>1, <2>2 DEF FeedOrder, InOrder, Before, UpTo
<1> QED  BY <1>3, <1>4 DEF FeedInv

LEMMA FeedLeaves ==
    ASSUME FeedInv, Feed!Leave \/ (Feed!Flip /\ ~v3) PROVE FeedInv'
<1>1. /\ v1' = v1 /\ v11' = v11 /\ v12' = (v12 \/ Feed!Busy) /\ v7' = <<>>
      /\ (v5' = 0 /\ v6' = <<>>) \/ (v5' = v5 /\ v6' = v6)
  BY DEF Feed!Leave, Feed!Flip, Feed!timers, FeedInv, FeedTyped
<1>2. FeedTyped'
  <2>1. v6' \in Seq(Nat) /\ v7' \in Seq(Nat) /\ v5' \in Nat /\ v1' \in Nat
    <3>1. v6 \in Seq(Nat) /\ v5 \in Nat /\ v1 \in Nat
      BY DEF FeedInv, FeedTyped
    <3>2. \A s : s = <<>> => s \in Seq(Nat)
      OBVIOUS
    <3> QED  BY <1>1, <3>1, <3>2
  <2> QED  BY <1>1, <2>1 DEF FeedInv, FeedTyped
<1>3. ASSUME ~v12' PROVE FeedOrder'
  <2>1. FeedOrder /\ \A t \in Calls : v11[t] = Feed!Off
    BY <1>1, <1>3, FeedBusy, FeedNotLate
  <2>2. InOrder(v6') /\ InOrder(v7') /\ Before(v7', v6') /\ UpTo(v7', v5') /\ UpTo(v6', v5')
    BY <1>1, <2>1 DEF FeedOrder, InOrder, Before, UpTo
  <2> QED  BY <1>1, <2>1, <2>2 DEF FeedOrder, Feed!Off
<1> QED  BY <1>2, <1>3 DEF FeedInv

\* Nothing of the feed changes: a message arrives, a click pauses, a query fails.
LEMMA FeedStands ==
    ASSUME FeedInv, UNCHANGED <<v3, v5, v6, v7, v12>>, v1' \in Nat, v1 <= v1',
           v11' = v11 \/ \E t \in Calls : v11' = [v11 EXCEPT ![t] = Feed!Off]
    PROVE  FeedInv'
<1>0. v11 \in [Calls -> FeedTasks] /\ Feed!Off \in FeedTasks /\ Feed!Off.step = "off"
  BY DEF FeedInv, FeedTyped, FeedTasks, Feed!Off
<1>1. FeedTyped'
  <2>1. v11' \in [Calls -> FeedTasks]
    BY <1>0
  <2> QED  BY <2>1 DEF FeedInv, FeedTyped
<1>2. ASSUME ~v12 PROVE FeedOrder'
  <2>1. FeedOrder
    BY <1>2 DEF FeedInv
  <2>2. /\ \A t, u \in Calls : v11'[t] # Feed!Off /\ v11'[u] # Feed!Off => t = u
        /\ \A t \in Calls : v11'[t].step \in {"start", "seed"} => v5 = 0
    BY <1>0, <2>1 DEF FeedOrder
  <2> QED  BY <2>1, <2>2 DEF FeedOrder
<1> QED  BY <1>1, <1>2 DEF FeedInv

\* A seed, or nothing, joins what waits in a feed without a watermark.
LEMMA FeedSeeded ==
    ASSUME FeedInv, Feed!TakeSeed \/ UNCHANGED <<v5, v6>>, UNCHANGED <<v1, v3, v7, v12>>,
           NEW t \in Calls, v11[t].step \in {"start", "seed"},
           v11' = [v11 EXCEPT ![t] = Feed!Off]
    PROVE  FeedInv'
<1>0. /\ v11 \in [Calls -> FeedTasks] /\ Feed!Off \in FeedTasks /\ Feed!Off.step = "off"
      /\ v1 \in Nat /\ v5 \in Nat /\ v6 \in Seq(Nat) /\ v7 \in Seq(Nat) /\ SeedLimit \in Nat
  BY FeedAssumption DEF FeedInv, FeedTyped, FeedTasks, Feed!Off
<1>1. CASE UNCHANGED <<v5, v6>>
  <2>1. v1' \in Nat /\ v1 <= v1'
    BY <1>0
  <2>3. \E u \in Calls : v11' = [v11 EXCEPT ![u] = Feed!Off]
    OBVIOUS
  <2>2. UNCHANGED <<v3, v5, v6, v7, v12>>
    BY <1>1
  <2> QED  BY <2>1, <2>2, <2>3, FeedStands
<1>2. CASE Feed!TakeSeed /\ Feed!Seed # <<>>
  <2>1. PICK c : c = IF v1 > SeedLimit THEN v1 - SeedLimit ELSE 0
    OBVIOUS
  <2>2. c \in Nat /\ c <= v1
    BY <1>0, <2>1
  <2>3. PICK new : new = Feed!Seed
    OBVIOUS
  <2>4. new = [i \in 1..(v1 - c) |-> c + i]
    BY <2>1, <2>3 DEF Feed!Seed, Feed!Newer
  <2>5. /\ new \in Seq(Nat) /\ Len(new) = v1 - c /\ \A i \in 1..Len(new) : new[i] = c + i
    <3>1. v1 - c \in Nat
      BY <1>0, <2>2
    <3> QED  BY <2>2, <2>4, <3>1
  <2>6. v6' = v6 \o new /\ v5' = v1
    BY <1>2, <2>3 DEF Feed!TakeSeed
  <2>7. Follows(v6, c, v6 \o new) /\ Len(v6 \o new) - Len(v6) = v1 - c
    BY <1>0, <2>2, <2>5, FeedGrows
  <2>8. v11' \in [Calls -> FeedTasks]
    BY <1>0
  <2>9. FeedTyped'
    BY <1>0, <2>6, <2>7, <2>8 DEF FeedInv, FeedTyped, Follows
  <2>10. ASSUME ~v12 PROVE FeedOrder'
    <3>1. FeedOrder /\ v5 = 0
      BY <2>10 DEF FeedInv, FeedOrder
    <3>2. v1 = c + (Len(v6 \o new) - Len(v6))
      BY <1>0, <2>2, <2>7
    <3>3. PICK out : out = v6 \o new
      OBVIOUS
    <3>4. InOrder(out) /\ Before(v7, out) /\ UpTo(v7, v1) /\ UpTo(out, v1)
      <4>1. 0 \in Nat /\ 0 <= c /\ Follows(v6, c, out) /\ v1 = c + (Len(out) - Len(v6))
        BY <2>2, <2>7, <3>2, <3>3
      <4>2. InOrder(v7) /\ InOrder(v6) /\ Before(v7, v6) /\ UpTo(v7, 0) /\ UpTo(v6, 0)
        BY <3>1 DEF FeedOrder
      <4> QED  BY <1>0, <2>2, <4>1, <4>2, FeedFollows
    <3>5. /\ \A x, u \in Calls : v11'[x] # Feed!Off /\ v11'[u] # Feed!Off => x = u
          /\ \A u \in Calls : v11'[u] = Feed!Off
      BY <1>0, <3>1 DEF FeedOrder
    <3> QED  BY <1>0, <2>6, <3>1, <3>3, <3>4, <3>5 DEF FeedOrder
  <2> QED  BY <2>9, <2>10 DEF FeedInv
<1> QED  BY <1>1, <1>2 DEF Feed!TakeSeed

\* A poll begins: it is the only call, or they overlap.
LEMMA FeedPolls ==
    ASSUME FeedInv, NEW t \in Calls, Feed!Poll(t) PROVE FeedInv'
<1>1. /\ v11' = [v11 EXCEPT ![t] = [step |-> IF v5 = 0 THEN "seed" ELSE "page", page |-> 1]]
      /\ UNCHANGED <<v1, v3, v5, v6, v7>> /\ v12' = (v12 \/ Feed!Busy)
  BY DEF Feed!Poll, Feed!feed, Feed!timers
<1>2. v11 \in [Calls -> FeedTasks]
  BY DEF FeedInv, FeedTyped
<1>3. PICK x : x = [step |-> IF v5 = 0 THEN "seed" ELSE "page", page |-> 1]
  OBVIOUS
<1>6. x \in FeedTasks /\ (x.step \in {"start", "seed"} => v5 = 0)
  <2>1. CASE v5 = 0
    BY <1>3, <2>1 DEF FeedTasks
  <2>2. CASE v5 # 0
    BY <1>3, <2>2 DEF FeedTasks
  <2> QED  BY <2>1, <2>2
<1>7. v11' = [v11 EXCEPT ![t] = x]
  BY <1>1, <1>3
<1>4. FeedTyped'
  <2>1. v11' \in [Calls -> FeedTasks]
    BY <1>2, <1>6, <1>7
  <2> QED  BY <1>1, <2>1 DEF FeedInv, FeedTyped
<1>5. ASSUME ~v12' PROVE FeedOrder'
  <2>1. FeedOrder /\ \A u \in Calls : v11[u] = Feed!Off
    BY <1>1, <1>5, FeedBusy, FeedNotLate
  <2>2. Feed!Off.step = "off"
    BY DEF Feed!Off
  <2>3. /\ \A u, w \in Calls : v11'[u] # Feed!Off /\ v11'[w] # Feed!Off => u = w
        /\ \A u \in Calls : v11'[u].step \in {"start", "seed"} => v5 = 0
    BY <1>2, <1>6, <1>7, <2>1, <2>2
  <2> QED  BY <1>1, <2>1, <2>3 DEF FeedOrder
<1> QED  BY <1>4, <1>5 DEF FeedInv

\* A page: the messages that follow the watermark, as many as there are and it holds.
LEMMA FeedPage ==
    ASSUME FeedInv
    PROVE  \E h \in Nat : /\ v5 + h <= v1 /\ Len(Feed!Page) = h
                          /\ Feed!Page \in Seq(Nat)
                          /\ \A i \in 1..h : Feed!Page[i] = v5 + i
<1>1. v1 \in Nat /\ v5 \in Nat /\ v5 <= v1 /\ PageLen \in Nat
  BY FeedAssumption DEF FeedInv, FeedTyped
<1>2. PICK h : h = IF v1 - v5 < PageLen THEN v1 - v5 ELSE PageLen
  OBVIOUS
<1>3. PICK d : d = v1 - v5
  OBVIOUS
<1>4. h \in Nat /\ d \in Nat /\ h <= d /\ v5 + h <= v1
  BY <1>1, <1>2, <1>3
<1>5. PICK new : new = [i \in 1..d |-> v5 + i]
  OBVIOUS
<1>6. new \in Seq(Nat) /\ Len(new) = d /\ \A i \in 1..d : new[i] = v5 + i
  BY <1>1, <1>4, <1>5
<1>7. Feed!Page = SubSeq(new, 1, h)
  BY <1>2, <1>3, <1>5 DEF Feed!Page, Feed!Newer
<1>8. PICK page : page = SubSeq(new, 1, h)
  OBVIOUS
<1>9. page \in Seq(Nat) /\ Len(page) = h /\ \A i \in 1..h : page[i] = v5 + i
  <2>1. page \in Seq(Nat) /\ Len(page) = h /\ \A i \in 1..h : page[i] = new[i]
    BY <1>4, <1>6, <1>8
  <2>2. \A i \in 1..h : i \in 1..d
    BY <1>4
  <2> QED  BY <1>6, <2>1, <2>2
<1> QED  BY <1>4, <1>7, <1>8, <1>9

\* What waits is what a page leaves of it, cut to the newest.
LEMMA FeedCut ==
    ASSUME NEW b \in Seq(Nat), NEW out, NEW more, BufferMax \in Nat,
           out = IF more \/ Len(b) <= BufferMax THEN b
                 ELSE SubSeq(b, Len(b) - BufferMax + 1, Len(b))
    PROVE  \E k \in Nat : k <= Len(b) /\ out = SubSeq(b, k + 1, Len(b))
<1>1. PICK l \in Nat : l = Len(b)
  OBVIOUS
<1>2. CASE more \/ l <= BufferMax
  <2>1. SubSeq(b, 0 + 1, l) = b
    BY <1>1
  <2> QED  BY <1>1, <1>2, <2>1
<1>3. CASE ~(more \/ l <= BufferMax)
  <2>1. l - BufferMax \in Nat /\ l - BufferMax <= l
    BY <1>3
  <2> QED  BY <1>1, <1>3, <2>1
<1> QED  BY <1>2, <1>3

LEMMA FeedPaged ==
    ASSUME FeedInv, NEW t \in Calls, Feed!PageAnswers(t) PROVE FeedInv'
<1>0. /\ v11 \in [Calls -> FeedTasks] /\ v1 \in Nat /\ v5 \in Nat /\ v6 \in Seq(Nat)
      /\ v7 \in Seq(Nat) /\ BufferMax \in Nat
  BY FeedAssumption DEF FeedInv, FeedTyped
<1>1. PICK h \in Nat : /\ v5 + h <= v1 /\ Len(Feed!Page) = h /\ Feed!Page \in Seq(Nat)
                      /\ \A i \in 1..h : Feed!Page[i] = v5 + i
  BY FeedPage
<1>2. PICK page, more : page = Feed!Page
                        /\ (more <=> (Len(Feed!Page) = PageLen /\ v11[t].page < MaxPages))
  OBVIOUS
<1>3. /\ UNCHANGED <<v1, v3, v7, v12>>
      /\ v11' = [v11 EXCEPT ![t].page = @ + 1] \/ v11' = [v11 EXCEPT ![t] = Feed!Off]
      /\ v5' = IF page = <<>> THEN v5 ELSE Feed!Watermark(page)
      /\ v6' = IF more \/ Len(v6 \o page) <= BufferMax THEN v6 \o page
               ELSE SubSeq(v6 \o page, Len(v6 \o page) - BufferMax + 1, Len(v6 \o page))
      /\ v11[t].step = "page"
  BY <1>2 DEF Feed!PageAnswers, Feed!timers, Feed!End
<1>4. page \in Seq(Nat) /\ Len(page) = h /\ \A i \in 1..h : page[i] = v5 + i
  BY <1>1, <1>2
<1>5. v5' = v5 + h
  <2>1. CASE h = 0
    BY <1>0, <1>3, <1>4, <2>1
  <2>2. CASE h > 0
    <3>1. page # <<>> /\ page[Len(page)] = v5 + h
      BY <1>0, <1>4, <2>2
    <3>2. Feed!Watermark(page) = v5 + h
      BY <1>0, <2>2, <3>1 DEF Feed!Watermark, Feed!Last
    <3> QED  BY <1>3, <3>1, <3>2
  <2> QED  BY <2>1, <2>2
<1>6. PICK all : all = v6 \o page
  OBVIOUS
<1>7. Follows(v6, v5, all) /\ Len(all) - Len(v6) = h
  BY <1>0, <1>4, <1>6, FeedGrows
<1>8. all \in Seq(Nat)
  BY <1>7 DEF Follows
<1>9. PICK k \in Nat : k <= Len(all) /\ v6' = SubSeq(all, k + 1, Len(all))
  BY <1>0, <1>3, <1>6, <1>8, FeedCut
<1>10. v11' \in [Calls -> FeedTasks]
  <2>1. Feed!Off \in FeedTasks /\ v11[t] \in FeedTasks
    BY <1>0 DEF FeedTasks, Feed!Off
  <2>2. [v11[t] EXCEPT !.page = @ + 1] \in FeedTasks
    BY <2>1 DEF FeedTasks
  <2>3. \/ v11' = [v11 EXCEPT ![t] = [v11[t] EXCEPT !.page = @ + 1]]
        \/ v11' = [v11 EXCEPT ![t] = Feed!Off]
    BY <1>3
  <2> QED  BY <1>0, <2>1, <2>2, <2>3
<1>11. FeedTyped'
  <2>1. v6' \in Seq(Nat)
    BY <1>8, <1>9
  <2>2. v5' \in Nat /\ v5' <= v1
    BY <1>0, <1>1, <1>5
  <2> QED  BY <1>3, <1>10, <2>1, <2>2 DEF FeedInv, FeedTyped
<1>12. ASSUME ~v12 PROVE FeedOrder'
  <2>1. FeedOrder
    BY <1>12 DEF FeedInv
  <2>2. v5' \in Nat /\ v5' = v5 + (Len(all) - Len(v6))
    <3>1. v5' \in Nat
      BY <1>0, <1>5
    <3>2. Len(all) - Len(v6) = h
      BY <1>7
    <3> QED  BY <1>5, <3>1, <3>2
  <2>3. InOrder(all) /\ Before(v7, all) /\ UpTo(v7, v5') /\ UpTo(all, v5')
    <3>1. InOrder(v7) /\ InOrder(v6) /\ Before(v7, v6) /\ UpTo(v7, v5) /\ UpTo(v6, v5) /\ v5 <= v5
      BY <1>0, <2>1 DEF FeedOrder
    <3> QED  BY <1>0, <1>7, <2>2, <3>1, FeedFollows
  <2>4. InOrder(v6') /\ Before(v7, v6') /\ UpTo(v6', v5')
    <3>1. v7 \in Seq(Nat) /\ v5' \in Nat /\ InOrder(all) /\ Before(v7, all) /\ UpTo(all, v5')
      BY <1>0, <2>2, <2>3
    <3>2. PICK out : out = v6'
      OBVIOUS
    <3>3. out = SubSeq(all, k + 1, Len(all))
      BY <1>9, <3>2
    <3>4. Rest(all, k, out)
      BY <1>8, <1>9, <3>3, FeedRest
    <3> QED  BY <1>8, <3>1, <3>2, <3>4, FeedShrinks
  <2>5. v11'[t].step \in {"off", "page"} /\ \A u \in Calls : u # t => v11'[u] = v11[u]
    <3>1. Feed!Off.step = "off" /\ v11[t] \in FeedTasks
      BY <1>0 DEF Feed!Off
    <3>2. [v11[t] EXCEPT !.page = @ + 1].step = "page"
      BY <1>3, <3>1 DEF FeedTasks
    <3>3. CASE v11' = [v11 EXCEPT ![t].page = @ + 1]
      BY <1>0, <3>2, <3>3
    <3>4. CASE v11' = [v11 EXCEPT ![t] = Feed!Off]
      BY <1>0, <3>1, <3>4
    <3> QED  BY <1>3, <3>3, <3>4
  <2>6. Feed!Off.step = "off" /\ v11[t] # Feed!Off
    BY <1>3 DEF Feed!Off
  <2>7. \A u \in Calls : u # t => v11'[u] = Feed!Off
    BY <2>1, <2>5, <2>6 DEF FeedOrder
  <2>8. /\ \A u, w \in Calls : v11'[u] # Feed!Off /\ v11'[w] # Feed!Off => u = w
        /\ \A u \in Calls : v11'[u].step \notin {"start", "seed"}
    BY <2>5, <2>6, <2>7
  <2>9. v7' = v7 /\ InOrder(v7) /\ UpTo(v7, v5')
    BY <1>3, <2>1, <2>3 DEF FeedOrder
  <2> QED  BY <2>4, <2>8, <2>9 DEF FeedOrder
<1> QED  BY <1>3, <1>11, <1>12 DEF FeedInv

\* The first message within reach is one that waits.
LEMMA FeedFirst ==
    ASSUME NEW k \in 1..Guard, k = Feed!FirstVisible, v6 \in Seq(Nat), Guard \in Nat
    PROVE  k \in 1..Len(v6)
<1>1. PICK T : T = {i \in 1..Len(v6) : v6[i] \notin Filtered}
  OBVIOUS
<1>2. k = IF T # {} THEN Feed!Min(T) ELSE 0
  BY <1>1 DEF Feed!FirstVisible, Feed!SelectInSeq
<1>3. T # {} /\ T \subseteq Nat
  BY <1>1, <1>2
<1>4. \E n \in T : \A m \in T : n <= m
  BY <1>3, Least
<1>5. Feed!Min(T) \in T
  BY <1>4 DEF Feed!Min
<1> QED  BY <1>1, <1>2, <1>3, <1>5

\* A message, or a sample, reaches the screen behind those on it, which may lose its first.
Shown(s, m, n, out) ==
    /\ out \in Seq(Nat) /\ InOrder(out) /\ UpTo(out, n)
    /\ \A i \in 1..Len(out) : out[i] = m \/ \E j \in 1..Len(s) : out[i] = s[j]

LEMMA FeedShown ==
    ASSUME NEW s \in Seq(Nat), NEW m \in Nat, NEW n \in Nat, m <= n,
           InOrder(s), UpTo(s, n), m # 0 => \A i \in 1..Len(s) : s[i] # 0 => s[i] < m,
           NEW out, out = Append(s, m) \/ (s # <<>> /\ out = Append(Tail(s), m))
    PROVE  Shown(s, m, n, out)
<1>1. PICK k \in Nat, l \in Nat :
         /\ k <= 1 /\ Len(s) = l + k /\ out \in Seq(Nat) /\ Len(out) = l + 1
         /\ out[l + 1] = m /\ \A i \in 1..l : out[i] = s[i + k]
  <2>1. CASE out = Append(s, m)
    <3>1. PICK l \in Nat : l = Len(s)
      OBVIOUS
    <3>2. /\ 0 <= 1 /\ Len(s) = l + 0 /\ out \in Seq(Nat) /\ Len(out) = l + 1
          /\ out[l + 1] = m /\ \A i \in 1..l : out[i] = s[i + 0]
      BY <2>1, <3>1
    <3>3. 0 \in Nat
      OBVIOUS
    <3> QED  BY <3>2, <3>3
  <2>2. CASE s # <<>> /\ out = Append(Tail(s), m)
    <3>0. PICK l \in Nat : Len(s) = l + 1
      <4>1. PICK h \in Nat : h = Len(s)
        OBVIOUS
      <4>2. h # 0
        BY <2>2, <4>1
      <4>3. h - 1 \in Nat /\ h = (h - 1) + 1
        BY <4>2
      <4> QED  BY <4>1, <4>3
    <3>1. PICK t : t = Tail(s)
      OBVIOUS
    <3>2. t \in Seq(Nat) /\ Len(t) = l /\ \A i \in 1..l : t[i] = s[i + 1]
      BY <2>2, <3>0, <3>1
    <3>3. out = Append(t, m)
      BY <2>2, <3>1
    <3>4. out \in Seq(Nat) /\ Len(out) = l + 1 /\ out[l + 1] = m /\ \A i \in 1..l : out[i] = t[i]
      BY <3>2, <3>3
    <3>5. 1 \in Nat /\ 1 <= 1
      OBVIOUS
    <3>6. \A i \in 1..l : out[i] = s[i + 1]
      BY <3>2, <3>4
    <3> QED  BY <3>0, <3>4, <3>5, <3>6
  <2> QED  BY <2>1, <2>2
<1>2. \A i \in 1..(l + 1) : i = l + 1 \/ (i \in 1..l /\ i + k \in 1..Len(s))
  BY <1>1
<1>3. InOrder(out)
  <2>1. SUFFICES ASSUME NEW i \in 1..(l + 1), NEW j \in 1..(l + 1), i < j, out[i] # 0, out[j] # 0
                 PROVE  out[i] < out[j]
    BY <1>1 DEF InOrder
  <2>2. i \in 1..l /\ i + k \in 1..Len(s) /\ out[i] = s[i + k]
    BY <1>1, <1>2, <2>1
  <2>3. CASE j = l + 1
    BY <1>1, <2>1, <2>2, <2>3
  <2>4. CASE j \in 1..l /\ j + k \in 1..Len(s)
    <3>1. out[j] = s[j + k] /\ i + k < j + k
      BY <1>1, <2>1, <2>4
    <3> QED  BY <2>1, <2>2, <2>4, <3>1 DEF InOrder
  <2> QED  BY <1>2, <2>3, <2>4
<1>4. \A i \in 1..Len(out) : out[i] = m \/ \E j \in 1..Len(s) : out[i] = s[j]
  BY <1>1, <1>2
<1>5. UpTo(out, n)
  BY <1>4 DEF UpTo
<1> QED  BY <1>1, <1>3, <1>4, <1>5 DEF Shown

\* A drip: some of what waits is taken off, and one of it, a sample or nothing shown.
LEMMA FeedDrips ==
    ASSUME FeedInv, NEW k \in Nat, k <= Len(v6), v6' = SubSeq(v6, k + 1, Len(v6)),
           NEW m \in Nat, m = 0 \/ (k \in 1..Len(v6) /\ m = v6[k]),
           Feed!Show(m) \/ v7' = v7, UNCHANGED <<v1, v3, v5, v11, v12>>
    PROVE  FeedInv'
<1>0. v6 \in Seq(Nat) /\ v7 \in Seq(Nat) /\ v5 \in Nat /\ OnScreen \in Nat \ {0}
  BY FeedAssumption DEF FeedInv, FeedTyped
<1>1. Rest(v6, k, v6')
  <2>1. PICK out : out = v6'
    OBVIOUS
  <2>2. out = SubSeq(v6, k + 1, Len(v6))
    BY <2>1
  <2>3. Rest(v6, k, out)
    BY <1>0, <2>2, FeedRest
  <2> QED  BY <2>1, <2>3
<1>2. \/ v7' = v7
      \/ v3 /\ (v7' = Append(v7, m) \/ (v7 # <<>> /\ v7' = Append(Tail(v7), m)))
  BY <1>0 DEF Feed!Show
<1>3. FeedTyped'
  <2>1. v7' \in Seq(Nat)
    <3>1. v7 # <<>> => Tail(v7) \in Seq(Nat)
      BY <1>0
    <3>2. \A s \in Seq(Nat) : Append(s, m) \in Seq(Nat)
      OBVIOUS
    <3> QED  BY <1>0, <1>2, <3>1, <3>2
  <2>2. v6' \in Seq(Nat)
    BY <1>1 DEF Rest
  <2> QED  BY <1>2, <2>1, <2>2 DEF FeedInv, FeedTyped
<1>4. ASSUME ~v12 PROVE FeedOrder'
  <2>1. FeedOrder
    BY <1>4 DEF FeedInv
  <2>2. InOrder(v6) /\ InOrder(v7) /\ Before(v7, v6) /\ UpTo(v7, v5) /\ UpTo(v6, v5)
    BY <2>1 DEF FeedOrder
  <2>3. InOrder(v6') /\ Before(v7, v6') /\ UpTo(v6', v5)
    BY <1>0, <1>1, <2>2, FeedShrinks
  <2>4. m <= v5 /\ (m # 0 => \A i \in 1..Len(v7) : v7[i] # 0 => v7[i] < m)
    <3>1. CASE m = 0
      BY <1>0, <3>1
    <3>2. CASE k \in 1..Len(v6) /\ m = v6[k] /\ m # 0
      <4>1. m <= v5
        BY <2>2, <3>2 DEF UpTo
      <4>2. ASSUME NEW i \in 1..Len(v7), v7[i] # 0 PROVE v7[i] < m
        BY <2>2, <3>2, <4>2 DEF Before
      <4> QED  BY <4>1, <4>2
    <3> QED  BY <3>1, <3>2
  <2>5. m # 0 => \A i \in 1..Len(v6') : v6'[i] # 0 => m < v6'[i]
    <3>1. ASSUME m # 0, NEW i \in 1..Len(v6'), v6'[i] # 0 PROVE m < v6'[i]
      <4>1. k \in 1..Len(v6) /\ m = v6[k] /\ i + k \in 1..Len(v6) /\ v6'[i] = v6[i + k]
        BY <1>1, <3>1 DEF Rest
      <4>2. k < i + k
        BY <4>1
      <4> QED  BY <2>2, <3>1, <4>1, <4>2 DEF InOrder
    <3> QED  BY <3>1
  <2>6. CASE v7' = v7
    BY <2>1, <2>2, <2>3, <2>6 DEF FeedOrder
  <2>7. CASE v7' = Append(v7, m) \/ (v7 # <<>> /\ v7' = Append(Tail(v7), m))
    <3>1. PICK out : out = v7'
      OBVIOUS
    <3>2. Shown(v7, m, v5, out)
      <4>1. out = Append(v7, m) \/ (v7 # <<>> /\ out = Append(Tail(v7), m))
        BY <2>7, <3>1
      <4> QED  BY <1>0, <2>2, <2>4, <4>1, FeedShown
    <3>3. Before(out, v6')
      BY <2>3, <2>5, <3>2 DEF Before, Shown
    <3> QED  BY <2>1, <2>3, <3>1, <3>2, <3>3 DEF FeedOrder, Shown
  <2> QED  BY <1>2, <2>6, <2>7
<1> QED  BY <1>3, <1>4 DEF FeedInv

LEMMA FeedDripped ==
    ASSUME FeedInv, Feed!Drip PROVE FeedInv'
<1>0. v6 \in Seq(Nat) /\ Guard \in Nat /\ UNCHANGED <<v1, v3, v5, v11, v12>>
  BY FeedAssumption DEF FeedInv, FeedTyped, Feed!Drip, Feed!timers
<1>1. PICK l \in Nat : l = Len(v6)
  BY <1>0
<1>2. PICK f : f = Feed!FirstVisible
  OBVIOUS
<1>3. CASE f \in 1..Guard
  <2>1. f \in 1..Len(v6)
    BY <1>0, <1>2, <1>3, FeedFirst
  <2>2. PICK m : m = v6[f]
    OBVIOUS
  <2>3. m \in Nat
    BY <1>0, <2>1, <2>2
  <2>4. Feed!Show(m) /\ v6' = SubSeq(v6, f + 1, Len(v6))
    BY <1>2, <1>3, <2>2 DEF Feed!Drip
  <2>5. f \in Nat /\ f <= Len(v6)
    BY <1>1, <2>1
  <2> QED  BY <1>0, <2>1, <2>2, <2>3, <2>4, <2>5, FeedDrips
<1>4. CASE ~(f \in 1..Guard)
  <2>1. \/ Feed!Show(0) /\ v6' = <<>>
        \/ v7' = v7 /\ (v6' = <<>> \/ (l > Guard + 1 /\ v6' = SubSeq(v6, Guard + 2, l)))
    BY <1>0, <1>1, <1>2, <1>4 DEF Feed!Drip, Feed!Sample
  <2>2. PICK k \in Nat : k <= Len(v6) /\ v6' = SubSeq(v6, k + 1, Len(v6))
    <3>1. CASE v6' = <<>>
      <4>1. SubSeq(v6, l + 1, Len(v6)) = <<>>
        BY <1>0, <1>1
      <4> QED  BY <1>1, <3>1, <4>1
    <3>2. CASE l > Guard + 1 /\ v6' = SubSeq(v6, Guard + 2, l)
      <4>1. Guard + 1 \in Nat /\ (Guard + 1) + 1 = Guard + 2 /\ Guard + 1 <= l
        BY <1>0, <3>2
      <4> QED  BY <1>1, <3>2, <4>1
    <3> QED  BY <2>1, <3>1, <3>2
  <2>3. Feed!Show(0) \/ v7' = v7
    BY <2>1
  <2>4. 0 \in Nat
    OBVIOUS
  <2> QED  BY <1>0, <2>2, <2>3, <2>4, FeedDrips
<1> QED  BY <1>3, <1>4

\* Through every step of the feed.
LEMMA FeedNext ==
    ASSUME FeedInv, Feed!Next PROVE FeedInv'
<1>0. v1 \in Nat /\ v5 \in Nat
  BY DEF FeedInv, FeedTyped
<1>1. CASE Feed!Mount
  <2>1. Feed!StartIn(v2) /\ v1' = v1
    BY <1>1 DEF Feed!Mount
  <2> QED  BY <2>1, FeedStarts
<1>2. CASE Feed!Leave
  BY <1>2, FeedLeaves
<1>3. CASE Feed!Flip
  <2>1. CASE v3
    <3>1. Feed!StartIn(v2') /\ v1' = v1
      BY <1>3, <2>1 DEF Feed!Flip
    <3> QED  BY <3>1, FeedStarts
  <2>2. CASE ~v3
    BY <1>3, <2>2, FeedLeaves
  <2> QED  BY <2>1, <2>2
<1>4. CASE Feed!Pause
  <2>1. UNCHANGED <<v3, v5, v6, v7, v12>> /\ v1' \in Nat /\ v1 <= v1' /\ v11' = v11
    BY <1>0, <1>4 DEF Feed!Pause, Feed!timers
  <2> QED  BY <2>1, FeedStands
<1>5. CASE Feed!Drip
  BY <1>5, FeedDripped
<1>6. CASE Feed!Message
  <2>1. UNCHANGED <<v3, v5, v6, v7, v12>> /\ v1' \in Nat /\ v1 <= v1' /\ v11' = v11
    BY <1>0, <1>6 DEF Feed!Message, Feed!timers, Feed!feed
  <2> QED  BY <2>1, FeedStands
<1>7. ASSUME NEW t \in Calls, Feed!StartAnswers(t) PROVE FeedInv'
  <2>1. /\ v11[t].step \in {"start", "seed"} /\ v11' = [v11 EXCEPT ![t] = Feed!Off]
        /\ UNCHANGED <<v1, v3, v7, v12>>
        /\ Feed!TakeSeed \/ UNCHANGED <<v5, v6>>
    BY <1>7 DEF Feed!StartAnswers, Feed!End
  <2> QED  BY <2>1, FeedSeeded
<1>8. ASSUME NEW t \in Calls, Feed!SeedAnswers(t) PROVE FeedInv'
  <2>1. /\ v11[t].step \in {"start", "seed"} /\ v11' = [v11 EXCEPT ![t] = Feed!Off]
        /\ UNCHANGED <<v1, v3, v7, v12>>
        /\ Feed!TakeSeed
    BY <1>8 DEF Feed!SeedAnswers, Feed!End
  <2> QED  BY <2>1, FeedSeeded
<1>9. ASSUME NEW t \in Calls, Feed!PollFails(t) PROVE FeedInv'
  <2>1. /\ UNCHANGED <<v3, v5, v6, v7, v12>> /\ v1' \in Nat /\ v1 <= v1'
        /\ v11' = [v11 EXCEPT ![t] = Feed!Off]
    BY <1>0, <1>9 DEF Feed!PollFails, Feed!End, Feed!timers, Feed!feed
  <2> QED  BY <2>1, FeedStands
<1> QED
  BY <1>1, <1>2, <1>3, <1>4, <1>5, <1>6, <1>7, <1>8, <1>9, FeedPolls, FeedPaged
  DEF Feed!Next, Feed!TaskStep

LEMMA FeedStutters == FeedInv /\ UNCHANGED <<v1, v3, v5, v6, v7, v11, v12>> => FeedInv'
BY DEF FeedInv, FeedTyped, FeedOrder

-----------------------------------------------------------------------------
(* The toasts (NotifDisplay).                                              *)

ToastRecords == [id : Int, fading : BOOLEAN]
Stays(list) == {i \in 1..Len(list) : ~list[i].fading}

\* No more stay than fit.
Kept(list) == list \in Seq(ToastRecords) /\ Cardinality(Stays(list)) <= MaxVisible

NoticesInv == v1 \in Nat /\ (~v9 => Kept(v8))

LEMMA NoticesStart == Notices!Init => NoticesInv
<1> SUFFICES ASSUME Notices!Init PROVE NoticesInv
  OBVIOUS
<1>1. v1 = 0 /\ v8 = <<>> /\ ~v9
  BY DEF Notices!Init
<1>2. Stays(v8) = {}
  BY <1>1 DEF Stays
<1>3. Cardinality({}) = 0
  BY FS_EmptySet
<1>4. \A s : s = <<>> => s \in Seq(ToastRecords)
  OBVIOUS
<1>5. Cardinality(Stays(v8)) <= MaxVisible
  BY <1>2, <1>3, NoticesAssumption
<1> QED  BY <1>1, <1>4, <1>5 DEF NoticesInv, Kept

LEMMA SameCount == \A T : Notices!Cardinality(T) = Cardinality(T)
BY DEF Notices!Cardinality, Cardinality

LEMMA NoticesHold == NoticesInv => Notices!CapKeptOneByOne
<1> SUFFICES ASSUME NoticesInv, ~v9 PROVE Notices!Staying <= MaxVisible
  BY DEF Notices!CapKeptOneByOne
<1>1. v8 \in Seq(ToastRecords)
  BY DEF NoticesInv, Kept
<1>2. DOMAIN v8 \ Notices!Fading(v8) = Stays(v8)
  BY <1>1 DEF Notices!Fading, Stays
<1> QED  BY <1>2, SameCount DEF Notices!Staying, NoticesInv, Kept

LEMMA StaysFinite ==
    ASSUME NEW list \in Seq(ToastRecords)
    PROVE  IsFiniteSet(Stays(list)) /\ Cardinality(Stays(list)) \in Nat
<1>1. 1 \in Int /\ Len(list) \in Int
  OBVIOUS
<1>2. IsFiniteSet(1..Len(list))
  BY <1>1, FS_Interval
<1>3. Stays(list) \subseteq 1..Len(list)
  BY DEF Stays
<1>4. IsFiniteSet(Stays(list))
  BY <1>2, <1>3, FS_Subset
<1> QED  BY <1>4, FS_CardinalityType

\* A list whose staying toasts correspond to some of another's keeps no more.
LEMMA NoMoreStay ==
    ASSUME NEW a \in Seq(ToastRecords), NEW b \in Seq(ToastRecords),
           NEW f, f \in [Stays(b) -> Stays(a)],
           \A i, j \in Stays(b) : f[i] = f[j] => i = j
    PROVE  Cardinality(Stays(b)) <= Cardinality(Stays(a))
<1>1. f \in Injection(Stays(b), Stays(a))
  BY DEF Injection, IsInjective
<1>2. IsFiniteSet(Stays(a))
  BY StaysFinite
<1>3. Cardinality(Stays(b)) <= Cardinality(Stays(a))
  BY <1>1, <1>2, FS_Injection
<1> QED  BY <1>3

\* A toast that begins to fade, and one that leaves after it did.
LEMMA FadeKeeps ==
    ASSUME NEW a, Kept(a), NEW i \in DOMAIN a PROVE Kept(Notices!Fade(a, i))
<1>1. PICK b : b = Notices!Fade(a, i)
  OBVIOUS
<1>2. a \in Seq(ToastRecords) /\ a[i] \in ToastRecords
  BY DEF Kept
<1>3. PICK r : r = [a[i] EXCEPT !.fading = TRUE]
  OBVIOUS
<1>4. r \in ToastRecords /\ r.fading
  BY <1>2, <1>3 DEF ToastRecords
<1>5. b = [a EXCEPT ![i] = r]
  BY <1>1, <1>3 DEF Notices!Fade
<1>6. b \in Seq(ToastRecords) /\ Len(b) = Len(a)
  BY <1>2, <1>4, <1>5
<1>7. Stays(b) \subseteq Stays(a)
  BY <1>2, <1>4, <1>5, <1>6 DEF Stays
<1>8. IsFiniteSet(Stays(a)) /\ Cardinality(Stays(a)) \in Nat /\ Cardinality(Stays(b)) \in Nat
  BY <1>2, <1>6, StaysFinite
<1>9. Cardinality(Stays(b)) <= Cardinality(Stays(a))
  BY <1>7, <1>8, FS_Subset
<1> QED  BY <1>1, <1>6, <1>8, <1>9, NoticesAssumption DEF Kept

LEMMA RemovalKeeps ==
    ASSUME NEW a, Kept(a), NEW i \in DOMAIN a, a[i].fading
    PROVE  Kept(Notices!RemoveAt(a, i))
<1>1. PICK b : b = Notices!RemoveAt(a, i)
  OBVIOUS
<1>2. a \in Seq(ToastRecords) /\ i \in 1..Len(a)
  BY DEF Kept
<1>3. PICK l \in Nat : Len(a) = l + 1
  <2>1. Len(a) \in Nat /\ Len(a) # 0
    BY <1>2
  <2>2. Len(a) - 1 \in Nat /\ Len(a) = (Len(a) - 1) + 1
    BY <2>1
  <2> QED  BY <2>2
<1>4. PICK front, back : front = SubSeq(a, 1, i - 1) /\ back = SubSeq(a, i + 1, Len(a))
  OBVIOUS
<1>5. front \in Seq(ToastRecords) /\ Len(front) = i - 1 /\ \A j \in 1..(i - 1) : front[j] = a[j]
  BY <1>2, <1>4
<1>6. /\ back \in Seq(ToastRecords) /\ Len(back) = l + 1 - i
      /\ \A j \in 1..(l + 1 - i) : back[j] = a[j + i]
  <2>1. back \in Seq(ToastRecords) /\ Len(back) = l + 1 - i
    BY <1>2, <1>3, <1>4
  <2>2. \A j \in 1..(l + 1 - i) : back[j] = a[j + i]
    BY <1>2, <1>3, <1>4
  <2> QED  BY <2>1, <2>2
<1>7. b = front \o back
  BY <1>1, <1>4 DEF Notices!RemoveAt
<1>8. b \in Seq(ToastRecords) /\ Len(b) = l
  <2>1. b \in Seq(ToastRecords) /\ Len(b) = Len(front) + Len(back)
    <3>1. front \in Seq(ToastRecords) /\ back \in Seq(ToastRecords)
      BY <1>5, <1>6
    <3> QED  BY <1>7, <3>1
  <2> QED  BY <1>2, <1>3, <1>5, <1>6, <2>1
<1>9. ASSUME NEW j \in 1..l
      PROVE  (j < i => b[j] = a[j]) /\ (j >= i => b[j] = a[j + 1])
  <2>1. CASE j < i
    BY <1>2, <1>5, <1>6, <1>7, <2>1
  <2>2. CASE j >= i
    <3>1. j - (i - 1) \in 1..(l + 1 - i) /\ (j - (i - 1)) + i = j + 1
      BY <1>2, <1>3, <2>2
    <3>2. PICK h : h = j - (i - 1)
      OBVIOUS
    <3>3. h \in 1..Len(back) /\ j = Len(front) + h /\ h + i = j + 1
      BY <1>2, <1>5, <1>6, <3>1, <3>2
    <3>4. b[Len(front) + h] = back[h]
      BY <1>5, <1>6, <1>7, <3>3
    <3>5. back[h] = a[h + i]
      BY <1>6, <3>1, <3>2
    <3> QED  BY <1>2, <2>2, <3>3, <3>4, <3>5
  <2> QED  BY <1>2, <2>1, <2>2
<1>10. PICK f : f = [j \in Stays(b) |-> IF j < i THEN j ELSE j + 1]
  OBVIOUS
<1>11. f \in [Stays(b) -> Stays(a)]
  <2>1. ASSUME NEW j \in Stays(b) PROVE (IF j < i THEN j ELSE j + 1) \in Stays(a)
    <3>1. j \in 1..l /\ ~b[j].fading
      BY <1>8 DEF Stays
    <3>2. CASE j < i
      BY <1>3, <1>9, <3>1, <3>2 DEF Stays
    <3>3. CASE j >= i
      BY <1>3, <1>9, <3>1, <3>3 DEF Stays
    <3> QED  BY <1>2, <3>1, <3>2, <3>3
  <2> QED  BY <1>10, <2>1
<1>12. \A j, k \in Stays(b) : f[j] = f[k] => j = k
  <2>1. Stays(b) \subseteq Int
    BY DEF Stays
  <2> QED  BY <1>2, <1>10, <2>1
<1>13. Cardinality(Stays(b)) <= Cardinality(Stays(a))
  BY <1>2, <1>8, <1>11, <1>12, NoMoreStay
<1>14. Cardinality(Stays(a)) \in Nat /\ Cardinality(Stays(b)) \in Nat
  BY <1>2, <1>8, StaysFinite
<1> QED  BY <1>1, <1>8, <1>13, <1>14, NoticesAssumption DEF Kept

\* A toast that is pushed alone, none fading: past the cap the last one goes.
LEMMA PushKeeps ==
    ASSUME NEW a, Kept(a), Notices!Fading(a) = {}, NEW id \in Int
    PROVE  Kept(Notices!Push(a, id))
<1>0. a \in Seq(ToastRecords) /\ MaxVisible \in Nat
  BY NoticesAssumption DEF Kept
<1>1. PICK l \in Nat : l = Len(a)
  BY <1>0
<1>2. l <= MaxVisible
  <2>1. Stays(a) = 1..l
    BY <1>0, <1>1 DEF Notices!Fading, Stays
  <2>2. 1 \in Int /\ l \in Int /\ (IF 1 > l THEN 0 ELSE l - 1 + 1) = l
    OBVIOUS
  <2>3. Cardinality(1..l) = l
    BY <2>2, FS_Interval
  <2> QED  BY <2>1, <2>3 DEF Kept
<1>3. PICK r : r = [id |-> id, fading |-> FALSE]
  OBVIOUS
<1>4. r \in ToastRecords
  BY <1>3 DEF ToastRecords
<1>5. PICK b : b = <<r>> \o a
  OBVIOUS
<1>6. b \in Seq(ToastRecords) /\ Len(b) = l + 1
  BY <1>0, <1>1, <1>4, <1>5
<1>7. Notices!Push(a, id) = IF l + 1 > MaxVisible THEN Notices!Fade(b, l + 1) ELSE b
  BY <1>3, <1>5, <1>6 DEF Notices!Push, Notices!Trim
<1>8. ASSUME NEW c \in Seq(ToastRecords), Stays(c) \subseteq 1..MaxVisible PROVE Kept(c)
  <2>1. 1 \in Int /\ MaxVisible \in Int /\ (IF 1 > MaxVisible THEN 0 ELSE MaxVisible - 1 + 1) = MaxVisible
    BY <1>0
  <2>2. Cardinality(1..MaxVisible) = MaxVisible /\ IsFiniteSet(1..MaxVisible)
    BY <2>1, FS_Interval
  <2>3. Cardinality(Stays(c)) <= Cardinality(1..MaxVisible)
    BY <1>8, <2>2, FS_Subset
  <2> QED  BY <2>2, <2>3 DEF Kept
<1>9. CASE l + 1 > MaxVisible
  <2>1. b[l + 1] \in ToastRecords /\ l + 1 \in 1..Len(b)
    BY <1>6
  <2>2. PICK q : q = [b[l + 1] EXCEPT !.fading = TRUE]
    OBVIOUS
  <2>3. q \in ToastRecords /\ q.fading
    BY <2>1, <2>2 DEF ToastRecords
  <2>4. PICK c : c = [b EXCEPT ![l + 1] = q]
    OBVIOUS
  <2>5. c \in Seq(ToastRecords) /\ Len(c) = l + 1 /\ c[l + 1] = q
    BY <1>6, <2>1, <2>3, <2>4
  <2>6. Stays(c) \subseteq 1..MaxVisible
    <3>1. ASSUME NEW i \in Stays(c) PROVE i \in 1..MaxVisible
      <4>1. i \in 1..(l + 1) /\ ~c[i].fading
        BY <2>5 DEF Stays
      <4>2. i # l + 1
        BY <2>3, <2>5, <4>1
      <4> QED  BY <1>0, <1>2, <1>9, <4>1, <4>2
    <3> QED  BY <3>1
  <2>7. Notices!Fade(b, l + 1) = c
    BY <2>2, <2>4 DEF Notices!Fade
  <2> QED  BY <1>7, <1>8, <1>9, <2>5, <2>6, <2>7
<1>10. CASE ~(l + 1 > MaxVisible)
  <2>1. Stays(b) \subseteq 1..MaxVisible
    BY <1>0, <1>6, <1>10 DEF Stays
  <2> QED  BY <1>6, <1>7, <1>8, <1>10, <2>1
<1> QED  BY <1>9, <1>10

\* A single event raises a single toast.
LEMMA PushedOne == Notices!PushAll(1) = Notices!Push(v8, v1 + 1)
<1>1. PICK F : F = [i \in 0..1 |-> IF i = 0 THEN v8 ELSE Notices!Push(v8, v1 + i)]
  OBVIOUS
<1>2. F = [i \in 0..1 |-> IF i = 0 THEN v8 ELSE Notices!Push(F[i - 1], v1 + i)]
  <2>1. F[0] = v8
    BY <1>1
  <2>2. \A i \in 0..1 : i = 0 \/ i - 1 = 0
    OBVIOUS
  <2> QED  BY <1>1, <2>1, <2>2
<1>3. PICK G : G = CHOOSE g : g = [i \in 0..1 |-> IF i = 0 THEN v8 ELSE Notices!Push(g[i - 1], v1 + i)]
  OBVIOUS
<1>4. G = [i \in 0..1 |-> IF i = 0 THEN v8 ELSE Notices!Push(G[i - 1], v1 + i)]
  BY <1>2, <1>3, Zenon
<1>5. G[0] = v8 /\ 1 - 1 = 0 /\ 0 \in 0..1 /\ 1 \in 0..1
  BY <1>4
<1>6. G[1] = Notices!Push(G[1 - 1], v1 + 1)
  BY <1>4, <1>5
<1>7. Notices!PushAll(1) = IF 1 > SummaryThreshold THEN Notices!Push(v8, v1 + 1) ELSE G[1]
  BY <1>3 DEF Notices!PushAll
<1> QED  BY <1>5, <1>6, <1>7

LEMMA NoticesNext ==
    ASSUME NoticesInv, Notices!Next PROVE NoticesInv'
<1>0. v1 \in Nat /\ Batches \subseteq Nat \ {0}
  BY NoticesAssumption DEF NoticesInv
<1>1. CASE UNCHANGED <<v1, v8, v9>>
  BY <1>1 DEF NoticesInv
<1>2. ASSUME UNCHANGED <<v1, v9>>, NEW i \in DOMAIN v8, v8' = Notices!Fade(v8, i)
      PROVE  NoticesInv'
  BY <1>2, FadeKeeps DEF NoticesInv
<1>3. CASE Notices!FadeOut
  <2>1. UNCHANGED <<v1, v9>>
    BY <1>3 DEF Notices!FadeOut
  <2>2. PICK i \in DOMAIN v8 : v8[i].fading /\ v8' = Notices!RemoveAt(v8, i)
    BY <1>3 DEF Notices!FadeOut, Notices!Fading
  <2> QED  BY <2>1, <2>2, RemovalKeeps DEF NoticesInv
<1>4. CASE Notices!Dismiss
  <2>1. UNCHANGED <<v1, v9>>
    BY <1>4 DEF Notices!Dismiss
  <2>2. CASE \E i \in DOMAIN v8 : v8' = Notices!Fade(v8, i)
    BY <1>2, <2>1, <2>2
  <2>3. CASE v8' = [i \in DOMAIN v8 |-> [v8[i] EXCEPT !.fading = TRUE]]
    <3>1. ASSUME Kept(v8) PROVE Kept(v8')
      <4>1. v8 \in Seq(ToastRecords)
        BY <3>1 DEF Kept
      <4>2. \A r \in ToastRecords : /\ [r EXCEPT !.fading = TRUE] \in ToastRecords
                                    /\ [r EXCEPT !.fading = TRUE].fading
        BY DEF ToastRecords
      <4>3. v8' \in Seq(ToastRecords) /\ Len(v8') = Len(v8) /\ \A i \in 1..Len(v8') : v8'[i].fading
        BY <2>3, <4>1, <4>2
      <4>4. Stays(v8') = {}
        BY <4>3 DEF Stays
      <4>5. Cardinality({}) = 0
        BY FS_EmptySet
      <4> QED  BY <4>3, <4>4, <4>5, NoticesAssumption DEF Kept
    <3> QED  BY <2>1, <3>1 DEF NoticesInv
  <2> QED  BY <1>4, <2>2, <2>3 DEF Notices!Dismiss
<1>5. ASSUME NEW k \in Batches, Notices!Announce(k) PROVE NoticesInv'
  <2>1. /\ v1' = v1 + k /\ v8' = Notices!PushAll(k)
        /\ v9 \/ k > 1 \/ Notices!Fading(v8) # {} => v9'
    BY <1>5 DEF Notices!Announce
  <2>2. k \in Nat /\ k # 0
    BY <1>0
  <2>3. ASSUME ~v9' PROVE Kept(v8')
    <3>1. k = 1 /\ ~v9 /\ Notices!Fading(v8) = {}
      <4>1. ~(k > 1) /\ ~v9 /\ Notices!Fading(v8) = {}
        BY <2>1, <2>3
      <4> QED  BY <2>2, <4>1
    <3>2. v8' = Notices!Push(v8, v1 + 1) /\ v1 + 1 \in Int
      BY <1>0, <2>1, <3>1, PushedOne
    <3> QED  BY <3>1, <3>2, PushKeeps DEF NoticesInv
  <2> QED  BY <1>0, <2>1, <2>2, <2>3 DEF NoticesInv
<1>6. CASE Notices!ClickToast
  <2>1. UNCHANGED <<v1, v9>>
    BY <1>6 DEF Notices!ClickToast
  <2>2. \E i \in DOMAIN v8 : v8' = Notices!Fade(v8, i)
    BY <1>6 DEF Notices!ClickToast
  <2> QED  BY <1>2, <2>1, <2>2
<1>7. CASE \/ Notices!ClickTab \/ Notices!LeaveFeed \/ Notices!Flip
           \/ Notices!Painted \/ Notices!ClearHistory \/ Notices!Cleared
  <2>1. UNCHANGED <<v1, v8, v9>>
    BY <1>7 DEF Notices!ClickTab, Notices!LeaveFeed, Notices!Flip, Notices!Painted,
       Notices!ClearHistory, Notices!Cleared
  <2> QED  BY <1>1, <2>1
<1> QED  BY <1>3, <1>4, <1>5, <1>6, <1>7 DEF Notices!Next

LEMMA NoticesStutter == NoticesInv /\ UNCHANGED <<v1, v8, v9>> => NoticesInv'
BY DEF NoticesInv

-----------------------------------------------------------------------------
(* The beats (RelayDashboard).                                             *)

BeatRecords == [for : Int, at : Int]
Apart(b) == \A i, j \in 1..Len(b) : b[i].for = b[j].for => i = j
AtMost(b, n) == \A i \in 1..Len(b) : b[i].for <= n

\* No block beats twice, and none that is newer than the last.
BeatsTo(b, n) == b \in Seq(BeatRecords) /\ Apart(b) /\ AtMost(b, n)
RelayInv == BeatsTo(v10, v11) /\ v1 \in Nat /\ v2 \in Nat /\ v11 \in Int

LEMMA NoBeats == ASSUME NEW n \in Int PROVE BeatsTo(<<>>, n)
BY DEF BeatsTo, Apart, AtMost

LEMMA RelayStart == Relay!Init \/ Starting!Init => RelayInv
<1> SUFFICES ASSUME Relay!Init \/ Starting!Init PROVE RelayInv
  OBVIOUS
<1>1. v10 = <<>> /\ v1 = 0 /\ v2 = Ahead /\ v11 = -1
  BY DEF Relay!Init, Starting!Init, Relay!NoBlock, Starting!NoBlock
<1> QED  BY <1>1, NoBeats, RelayAssumption DEF RelayInv

LEMMA RelayHolds == RelayInv => Relay!BeatsOnce /\ Starting!BeatsOnce
<1> SUFFICES ASSUME RelayInv PROVE Relay!BeatsOnce /\ Starting!BeatsOnce
  OBVIOUS
<1>1. DOMAIN v10 = 1..Len(v10) /\ Apart(v10)
  BY DEF RelayInv, BeatsTo
<1> QED  BY <1>1 DEF Apart, Relay!BeatsOnce, Starting!BeatsOnce

-----------------------------------------------------------------------------
\* The beats that are kept at t of the first n: the function that Recent defines.
IsKept(f, n, s, t) ==
    f = [i \in 0..n |-> IF i = 0 THEN <<>>
                        ELSE IF t - s[i].at < Retain THEN Append(f[i - 1], s[i])
                        ELSE f[i - 1]]

LEMMA KeptIs ==
    ASSUME NEW f, NEW n \in Nat, NEW s, NEW t
    PROVE  IsKept(f, n, s, t) <=>
             /\ f = [i \in 0..n |-> f[i]]
             /\ f[0] = <<>>
             /\ \A i \in 1..n :
                  f[i] = IF t - s[i].at < Retain THEN Append(f[i - 1], s[i]) ELSE f[i - 1]
<1> DEFINE E(i) == IF i = 0 THEN <<>>
                   ELSE IF t - s[i].at < Retain THEN Append(f[i - 1], s[i]) ELSE f[i - 1]
<1>1. IsKept(f, n, s, t) <=> f = [i \in 0..n |-> E(i)]
  BY DEF IsKept
<1>2. /\ E(0) = <<>>
      /\ \A i \in 1..n :
           E(i) = IF t - s[i].at < Retain THEN Append(f[i - 1], s[i]) ELSE f[i - 1]
  OBVIOUS
<1>3. ASSUME NEW i \in 0..n PROVE i = 0 \/ i \in 1..n
  OBVIOUS
<1> HIDE DEF E
<1>4. ASSUME f = [i \in 0..n |-> E(i)]
      PROVE  /\ f = [i \in 0..n |-> f[i]] /\ f[0] = E(0) /\ \A i \in 1..n : f[i] = E(i)
  BY <1>4
<1>5. ASSUME f = [i \in 0..n |-> f[i]], f[0] = E(0), \A i \in 1..n : f[i] = E(i)
      PROVE  f = [i \in 0..n |-> E(i)]
  <2>1. \A i \in 0..n : f[i] = E(i)
    BY <1>3, <1>5
  <2> QED  BY <1>5, <2>1
<1> QED  BY <1>1, <1>2, <1>4, <1>5

\* It exists for as many as there are.
LEMMA KeptExists ==
    ASSUME NEW s, NEW t, NEW m \in Nat
    PROVE  \E f : IsKept(f, m, s, t)
<1> DEFINE T == {n \in Nat : \E f : IsKept(f, n, s, t)}
<1>1. 0 \in T
  <2> DEFINE g == [i \in 0..0 |-> <<>>]
  <2>1. /\ g = [i \in 0..0 |-> g[i]] /\ g[0] = <<>>
        /\ \A i \in 1..0 :
             g[i] = IF t - s[i].at < Retain THEN Append(g[i - 1], s[i]) ELSE g[i - 1]
    OBVIOUS
  <2> HIDE DEF g
  <2>2. IsKept(g, 0, s, t)
    BY <2>1, KeptIs
  <2> QED  BY <2>2
<1>2. ASSUME NEW n \in Nat, n \in T PROVE n + 1 \in T
  <2>1. PICK f : IsKept(f, n, s, t)
    BY <1>2
  <2> DEFINE last == IF t - s[n + 1].at < Retain THEN Append(f[n], s[n + 1]) ELSE f[n]
             g == [i \in 0..n + 1 |-> IF i <= n THEN f[i] ELSE last]
  <2>2. /\ f[0] = <<>>
        /\ \A i \in 1..n :
             f[i] = IF t - s[i].at < Retain THEN Append(f[i - 1], s[i]) ELSE f[i - 1]
    BY <2>1, KeptIs
  <2>3. /\ g = [i \in 0..n + 1 |-> g[i]] /\ (\A i \in 0..n : g[i] = f[i]) /\ g[n + 1] = last
    <3> HIDE DEF last
    <3> QED  OBVIOUS
  <2> HIDE DEF g
  <2>4. ASSUME NEW i \in 1..n + 1
        PROVE  g[i] = IF t - s[i].at < Retain THEN Append(g[i - 1], s[i]) ELSE g[i - 1]
    <3>1. CASE i \in 1..n
      <4>1. i \in 0..n /\ i - 1 \in 0..n
        BY <3>1
      <4> QED  BY <2>2, <2>3, <3>1, <4>1
    <3>2. CASE i = n + 1
      <4>1. i - 1 = n /\ n \in 0..n
        BY <3>2
      <4> QED  BY <2>3, <3>2, <4>1
    <3> QED  BY <3>1, <3>2
  <2>5. g[0] = <<>>
    <3>1. 0 \in 0..n
      OBVIOUS
    <3> QED  BY <2>2, <2>3, <3>1
  <2>6. IsKept(g, n + 1, s, t)
    <3>1. PICK k \in Nat : k = n + 1
      OBVIOUS
    <3> QED  BY <2>3, <2>4, <2>5, <3>1, KeptIs
  <2> QED  BY <2>6
<1>3. Nat \subseteq T
  <2> HIDE DEF T
  <2> QED  BY <1>1, <1>2, Induct
<1> QED  BY <1>3

\* What is kept of the first n is of them, and apart if they are.
Drawn(a, n, s) ==
    /\ a \in Seq(BeatRecords) /\ Apart(a)
    /\ \A j \in 1..Len(a) : \E i \in 1..n : a[j] = s[i]

LEMMA DrawnMore ==
    ASSUME NEW s \in Seq(BeatRecords), Apart(s), NEW n \in Nat, n + 1 <= Len(s),
           NEW a, Drawn(a, n, s)
    PROVE  Drawn(a, n + 1, s) /\ Drawn(Append(a, s[n + 1]), n + 1, s)
<1>0. a \in Seq(BeatRecords) /\ n + 1 \in 1..Len(s) /\ s[n + 1] \in BeatRecords
  BY DEF Drawn
<1>1. \A i \in 1..n : i \in 1..(n + 1) /\ i \in 1..Len(s) /\ i # n + 1
  BY <1>0
<1>2. Drawn(a, n + 1, s)
  BY <1>1 DEF Drawn
<1>3. PICK b : b = Append(a, s[n + 1])
  OBVIOUS
<1>4. PICK m \in Nat : m = Len(a)
  BY <1>0
<1>5. /\ b \in Seq(BeatRecords) /\ Len(b) = m + 1 /\ b[m + 1] = s[n + 1]
      /\ \A j \in 1..m : b[j] = a[j]
  BY <1>0, <1>3, <1>4
<1>6. \A j \in 1..(m + 1) : j = m + 1 \/ j \in 1..m
  OBVIOUS
<1>7. ASSUME NEW j \in 1..m PROVE \E i \in 1..n : b[j] = s[i]
  BY <1>4, <1>5 DEF Drawn
<1>8. \A j \in 1..(m + 1) : \E i \in 1..(n + 1) : b[j] = s[i]
  BY <1>1, <1>5, <1>6, <1>7
<1>9. \A j \in 1..m : b[j].for # s[n + 1].for
  <2>1. \A i \in 1..n : s[i].for # s[n + 1].for
    BY <1>0, <1>1 DEF Apart
  <2> QED  BY <1>7, <2>1
<1>10. Apart(b)
  <2>1. SUFFICES ASSUME NEW i \in 1..(m + 1), NEW j \in 1..(m + 1), b[i].for = b[j].for
                 PROVE  i = j
    BY <1>5 DEF Apart
  <2>2. CASE i \in 1..m /\ j \in 1..m
    BY <1>4, <1>5, <2>1, <2>2 DEF Drawn, Apart
  <2>3. CASE i = m + 1 \/ j = m + 1
    BY <1>5, <1>6, <1>9, <2>1, <2>3
  <2> QED  BY <1>6, <2>2, <2>3
<1> QED  BY <1>2, <1>3, <1>5, <1>8, <1>10 DEF Drawn

LEMMA KeptDrawn ==
    ASSUME NEW s \in Seq(BeatRecords), Apart(s), NEW t, NEW f, IsKept(f, Len(s), s, t)
    PROVE  Drawn(f[Len(s)], Len(s), s)
<1> DEFINE T == {n \in Nat : n <= Len(s) => Drawn(f[n], n, s)}
<1>0. /\ f[0] = <<>> /\ Len(s) \in Nat
      /\ \A n \in 1..Len(s) :
           f[n] = IF t - s[n].at < Retain THEN Append(f[n - 1], s[n]) ELSE f[n - 1]
  <2>1. PICK k \in Nat : k = Len(s)
    OBVIOUS
  <2> QED  BY <2>1, KeptIs
<1>1. 0 \in T
  <2>1. Drawn(<<>>, 0, s)
    BY DEF Drawn, Apart
  <2> QED  BY <1>0, <2>1
<1>2. ASSUME NEW n \in Nat, n \in T PROVE n + 1 \in T
  <2> SUFFICES ASSUME n + 1 <= Len(s) PROVE Drawn(f[n + 1], n + 1, s)
    OBVIOUS
  <2>1. Drawn(f[n], n, s)
    BY <1>0, <1>2
  <2>2. n + 1 \in 1..Len(s) /\ (n + 1) - 1 = n
    BY <1>0
  <2>3. f[n + 1] = Append(f[n], s[n + 1]) \/ f[n + 1] = f[n]
    BY <1>0, <2>2
  <2>4. Drawn(f[n], n + 1, s) /\ Drawn(Append(f[n], s[n + 1]), n + 1, s)
    BY <2>1, DrawnMore
  <2> QED  BY <2>3, <2>4
<1>3. Nat \subseteq T
  <2> HIDE DEF T
  <2> QED  BY <1>1, <1>2, Induct
<1> QED  BY <1>0, <1>3

\* Recent keeps some, each as it is.
LEMMA RecentKeeps ==
    ASSUME NEW s, NEW n \in Int, BeatsTo(s, n),
           NEW out, out = Relay!Recent(s) \/ out = Starting!Recent(s)
    PROVE  BeatsTo(out, n)
<1>0. s \in Seq(BeatRecords) /\ Apart(s) /\ AtMost(s, n)
  BY DEF BeatsTo
<1> DEFINE f == CHOOSE f : IsKept(f, Len(s), s, v1)
<1>1. IsKept(f, Len(s), s, v1)
  <2>1. Len(s) \in Nat
    BY <1>0
  <2> QED  BY <2>1, KeptExists
<1>2. out = f[Len(s)]
  BY DEF Relay!Recent, Starting!Recent, IsKept
<1> HIDE DEF f
<1>3. Drawn(out, Len(s), s)
  BY <1>0, <1>1, <1>2, KeptDrawn
<1>4. AtMost(out, n)
  BY <1>0, <1>3 DEF Drawn, AtMost
<1> QED  BY <1>3, <1>4 DEF Drawn, BeatsTo

\* The beats of k blocks up to n.
IsNew(new, k, n, t) == new = [i \in 1..k |-> [for |-> n - i + 1, at |-> t]]

LEMMA NewBeats ==
    ASSUME NEW n \in Int, NEW k \in Nat, NEW t \in Int,
           NEW new, IsNew(new, k, n, t)
    PROVE  new \in Seq(BeatRecords) /\ Len(new) = k /\ \A i \in 1..k : new[i].for = n - i + 1
<1>1. \A i \in 1..k : [for |-> n - i + 1, at |-> t] \in BeatRecords
  BY DEF BeatRecords
<1>2. new \in [1..k -> BeatRecords]
  BY <1>1 DEF IsNew
<1>3. new \in Seq(BeatRecords)
  BY <1>2, SeqDef
<1>4. Len(new) = k
  <2>1. DOMAIN new = 1..k
    BY <1>2
  <2> QED  BY <1>3, <2>1
<1>5. \A i \in 1..k : new[i].for = n - i + 1
  <2>1. \A i \in 1..k : new[i] = [for |-> n - i + 1, at |-> t]
    BY DEF IsNew
  <2>2. \A i \in 1..k : [for |-> n - i + 1, at |-> t].for = n - i + 1
    OBVIOUS
  <2> QED  BY <2>1, <2>2, Zenon
<1> QED  BY <1>3, <1>4, <1>5

\* New beats are for blocks newer than the last, each once.
LEMMA BeatsAdded ==
    ASSUME NEW b, NEW l \in Int, BeatsTo(b, l), NEW n \in Int, NEW k \in Nat, l + k <= n,
           NEW new \in Seq(BeatRecords), Len(new) = k, \A i \in 1..k : new[i].for = n - i + 1
    PROVE  BeatsTo(b \o new, n)
<1>0. b \in Seq(BeatRecords) /\ Apart(b) /\ AtMost(b, l)
  BY DEF BeatsTo
<1>1. PICK m \in Nat : m = Len(b)
  BY <1>0
<1>4. PICK out : out = b \o new
  OBVIOUS
<1>5. out \in Seq(BeatRecords) /\ Len(out) = m + k
  <2>1. b \in Seq(BeatRecords)
    BY <1>0
  <2>2. \A x, y \in Seq(BeatRecords) : x \o y \in Seq(BeatRecords) /\ Len(x \o y) = Len(x) + Len(y)
    OBVIOUS
  <2> QED  BY <1>1, <1>4, <2>1, <2>2
<1>12. \A i \in 1..(m + k) : out[i] = IF i <= m THEN b[i] ELSE new[i - m]
  <2>1. b \in Seq(BeatRecords)
    BY <1>0
  <2>2. \A x, y \in Seq(BeatRecords) : \A i \in 1..(Len(x) + Len(y)) :
          (x \o y)[i] = IF i <= Len(x) THEN x[i] ELSE y[i - Len(x)]
    OBVIOUS
  <2> QED  BY <1>1, <1>4, <2>1, <2>2
<1>6. \A i \in 1..m : out[i].for = b[i].for /\ b[i].for \in Int /\ b[i].for <= l
  <2>1. \A i \in 1..m : i \in 1..(m + k) /\ out[i] = b[i]
    BY <1>12
  <2>2. \A i \in 1..m : b[i] \in BeatRecords
    BY <1>0, <1>1
  <2>3. \A i \in 1..m : b[i].for \in Int
    BY <2>2 DEF BeatRecords
  <2>4. \A i \in 1..m : b[i].for <= l
    BY <1>0, <1>1 DEF AtMost
  <2> QED  BY <2>1, <2>3, <2>4
<1>7. ASSUME NEW i \in 1..(m + k), i > m
      PROVE  out[i].for = n - (i - m) + 1 /\ i - m \in 1..k
  <2>1. i - m \in 1..k
    BY <1>7
  <2>2. out[i] = new[i - m]
    BY <1>12, <1>7
  <2> QED  BY <2>1, <2>2
<1>8. \A i \in 1..(m + k) : i \in 1..m \/ i > m
  OBVIOUS
<1>9. AtMost(out, n)
  <2>1. SUFFICES ASSUME NEW i \in 1..(m + k) PROVE out[i].for <= n
    BY <1>5 DEF AtMost
  <2>2. CASE i \in 1..m
    BY <1>6, <2>2
  <2>3. CASE i > m
    BY <1>7, <2>3
  <2> QED  BY <1>8, <2>2, <2>3
<1>10. Apart(out)
  <2>1. ASSUME NEW i \in 1..m, NEW j \in 1..(m + k), j > m PROVE out[i].for # out[j].for
    <3>1. out[j].for = n - (j - m) + 1 /\ j - m \in 1..k
      BY <1>7, <2>1
    <3>3. out[i].for \in Int /\ out[i].for <= l
      BY <1>6
    <3> QED  BY <3>1, <3>3
  <2>2. SUFFICES ASSUME NEW i \in 1..(m + k), NEW j \in 1..(m + k), out[i].for = out[j].for
                 PROVE  i = j
    BY <1>5 DEF Apart
  <2>3. CASE i \in 1..m /\ j \in 1..m
    BY <1>0, <1>1, <1>6, <2>2, <2>3 DEF Apart
  <2>4. CASE i > m /\ j > m
    BY <1>7, <2>2, <2>4
  <2> QED  BY <1>8, <2>1, <2>2, <2>3, <2>4
<1> QED  BY <1>4, <1>5, <1>9, <1>10 DEF BeatsTo

\* Painting any reading.
LEMMA PaintKeeps ==
    ASSUME RelayInv, NEW of, NEW says, NEW n \in Nat, NEW theirs,
           Relay!Paint(of, says, n, theirs) \/ Starting!Paint(of, says, n, theirs)
    PROVE  BeatsTo(v10', v11') /\ v11' \in Int
<1>0. BeatsTo(v10, v11) /\ v1 \in Nat /\ v11 \in Int /\ BeatsAtOnce \in Nat
  BY RelayAssumption DEF RelayInv
<1>1. PICK new :
        /\ new = IF ~(says \in {"at tip", "stalled"}) THEN <<>>
                 ELSE IF v11 = -1 THEN <<[for |-> n, at |-> v1]>>
                 ELSE [i \in 1..Relay!Beats(n) |-> [for |-> n - i + 1, at |-> v1]]
        /\ v10' = Relay!Recent(v10 \o new) \/ v10' = Starting!Recent(v10 \o new)
        /\ v11' = IF new = <<>> THEN v11 ELSE n
  <2>1. CASE Relay!Paint(of, says, n, theirs)
    BY <2>1 DEF Relay!Paint, Relay!Beat, Relay!NoBlock
  <2>2. CASE Starting!Paint(of, says, n, theirs)
    BY <2>2 DEF Starting!Paint, Relay!Beats, Starting!Beats, Starting!Beat, Starting!NoBlock
  <2> QED  BY <2>1, <2>2
<1>2. v11' \in Int
  <2>1. v11' = v11 \/ v11' = n
    BY <1>1
  <2> QED  BY <1>0, <2>1
<1>3. \A m \in Int : BeatsTo(v10 \o new, m) => BeatsTo(v10', m)
  BY <1>1, RecentKeeps
<1>4. CASE new = <<>>
  <2>1. v10 \o new = v10
    BY <1>0, <1>4 DEF BeatsTo
  <2> QED  BY <1>0, <1>1, <1>3, <1>4, <2>1
<1>5. CASE new # <<>>
  <2>1. PICK k \in Nat : /\ new = [i \in 1..k |-> [for |-> n - i + 1, at |-> v1]]
                         /\ v11 + k <= n
    <3>1. CASE v11 = -1
      <4>1. new = [i \in 1..1 |-> [for |-> n - i + 1, at |-> v1]]
        <5>1. PICK r : r = [for |-> n, at |-> v1]
          OBVIOUS
        <5>2. new = <<r>>
          BY <1>1, <1>5, <3>1, <5>1
        <5>3. <<r>> = [i \in 1..1 |-> r]
          OBVIOUS
        <5>4. \A i \in 1..1 : [for |-> n - i + 1, at |-> v1] = r
          BY <5>1
        <5> QED  BY <5>2, <5>3, <5>4
      <4>2. 1 \in Nat /\ v11 + 1 <= n
        BY <3>1
      <4> QED  BY <4>1, <4>2
    <3>2. CASE v11 # -1
      <4>1. PICK k : k = Relay!Beats(n)
        OBVIOUS
      <4>2. k \in Nat /\ (k = 0 \/ v11 + k <= n)
        BY <1>0, <4>1 DEF Relay!Beats
      <4>3. new = [i \in 1..k |-> [for |-> n - i + 1, at |-> v1]]
        BY <1>1, <1>5, <3>2, <4>1
      <4>4. k # 0
        BY <1>5, <4>3
      <4> QED  BY <4>2, <4>3, <4>4
    <3> QED  BY <3>1, <3>2
  <2>2. v11 <= n /\ v1 \in Int
    BY <1>0, <2>1
  <2>3. BeatsTo(v10 \o new, n)
    <3>1. new \in Seq(BeatRecords) /\ Len(new) = k /\ \A i \in 1..k : new[i].for = n - i + 1
      <4>1. n \in Int /\ v1 \in Int /\ k \in Nat
        BY <2>2
      <4>2. IsNew(new, k, n, v1)
        BY <2>1 DEF IsNew
      <4> QED  BY <4>1, <4>2, NewBeats
    <3>2. n \in Int /\ v11 + k <= n
      BY <2>1
    <3> QED  BY <1>0, <3>1, <3>2, BeatsAdded
  <2>4. v11' = n
    BY <1>1, <1>5
  <2> QED  BY <1>2, <1>3, <2>3, <2>4
<1> QED  BY <1>4, <1>5, <1>2

LEMMA RelayNext ==
    ASSUME RelayInv, Relay!Next \/ Starting!Next PROVE RelayInv'
<1>0. BeatsTo(v10, v11) /\ v1 \in Nat /\ v2 \in Nat /\ v11 \in Int /\ Ahead \in Nat
  BY RelayAssumption DEF RelayInv
<1>1. CASE /\ v1' = v1 \/ v1' = v1 + 1
           /\ v2' = v2 \/ v2' = v2 + 1
           /\ UNCHANGED <<v10, v11>> \/ (v10' = <<>> /\ v11' = -1)
  <2>1. v1' \in Nat /\ v2' \in Nat
    BY <1>0, <1>1
  <2>2. BeatsTo(<<>>, -1)
    BY NoBeats
  <2>3. BeatsTo(v10', v11') /\ v11' \in Int
    BY <1>0, <1>1, <2>2
  <2> QED  BY <2>1, <2>3 DEF RelayInv
<1>2. ASSUME UNCHANGED <<v1, v2>>, NEW of, NEW says, NEW n \in Nat, NEW theirs,
             Relay!Paint(of, says, n, theirs) \/ Starting!Paint(of, says, n, theirs)
      PROVE  RelayInv'
  <2>1. BeatsTo(v10', v11') /\ v11' \in Int
    BY <1>2, PaintKeeps
  <2> QED  BY <1>0, <1>2, <2>1 DEF RelayInv
<1>3. CASE \/ Relay!Clock \/ Relay!Adopts \/ Relay!Stops \/ Relay!Starts
           \/ Relay!MetricsAnswer \/ Relay!Drops \/ Relay!Returns \/ Relay!Connect
           \/ Relay!Disconnect \/ Relay!Hide \/ Relay!Return \/ Relay!Flip
  BY <1>1, <1>3 DEF Relay!Clock, Relay!Adopts, Relay!Stops, Relay!Starts,
     Relay!MetricsAnswer, Relay!Drops, Relay!Returns, Relay!Connect, Relay!Disconnect,
     Relay!Hide, Relay!Return, Relay!Flip, Relay!world, Relay!data, Relay!NoBlock
<1>4. CASE \/ Starting!Clock \/ Starting!Adopts \/ Starting!Stops \/ Starting!Starts
           \/ Starting!MetricsAnswer \/ Starting!Drops \/ Starting!Returns \/ Starting!Connect
           \/ Starting!Disconnect \/ Starting!Hide \/ Starting!Return \/ Starting!Flip
  BY <1>1, <1>4 DEF Starting!Clock, Starting!Adopts, Starting!Stops, Starting!Starts,
     Starting!MetricsAnswer, Starting!Drops, Starting!Returns, Starting!Connect,
     Starting!Disconnect, Starting!Hide, Starting!Return, Starting!Flip, Starting!world,
     Starting!data, Starting!NoBlock
<1>5. ASSUME NEW p, Relay!Poll(p) \/ Starting!Poll(p) PROVE RelayInv'
  <2>1. UNCHANGED <<v1, v2>>
    BY <1>5 DEF Relay!Poll, Starting!Poll, Relay!world, Starting!world
  <2>2. \/ UNCHANGED <<v10, v11>>
        \/ Relay!Paint("demo", "at tip", v1, "demo") \/ Starting!Paint("demo", "at tip", v1, "demo")
    BY <1>5 DEF Relay!Poll, Starting!Poll, Relay!PaintDemo, Starting!PaintDemo, Relay!data,
       Starting!data
  <2> QED  BY <1>0, <1>1, <1>2, <2>1, <2>2
<1>6. ASSUME NEW p, Relay!ProbeAnswers(p) \/ Starting!ProbeAnswers(p) PROVE RelayInv'
  <2>1. UNCHANGED <<v1, v2>>
    BY <1>6 DEF Relay!ProbeAnswers, Starting!ProbeAnswers, Relay!world, Starting!world
  <2>2. \/ UNCHANGED <<v10, v11>>
        \/ \E says : Relay!Paint("relay", says, 0, "none") \/ Starting!Paint("relay", says, 0, "none")
    BY <1>6 DEF Relay!ProbeAnswers, Starting!ProbeAnswers, Relay!data, Starting!data
  <2>3. 0 \in Nat
    OBVIOUS
  <2> QED  BY <1>1, <1>2, <2>1, <2>2, <2>3
<1>7. ASSUME NEW p, Relay!ScrapeAnswers(p) \/ Starting!ScrapeAnswers(p) PROVE RelayInv'
  <2>1. UNCHANGED <<v1, v2>>
    BY <1>7 DEF Relay!ScrapeAnswers, Starting!ScrapeAnswers, Relay!world, Starting!world
  <2>2. \E n \in Relay!Read(p) \union Starting!Read(p) : \E says, theirs :
          Relay!Paint("relay", says, n, theirs) \/ Starting!Paint("relay", says, n, theirs)
    BY <1>7 DEF Relay!ScrapeAnswers, Starting!ScrapeAnswers
  <2>3. Relay!Read(p) \union Starting!Read(p) \subseteq Nat
    BY <1>0 DEF Relay!Read, Starting!Read
  <2> QED  BY <1>2, <2>1, <2>2, <2>3
<1> QED
  BY <1>3, <1>4, <1>5, <1>6, <1>7 DEF Relay!Next, Starting!Next

LEMMA RelayStutter == RelayInv /\ UNCHANGED <<v1, v2, v10, v11>> => RelayInv'
BY DEF RelayInv

-----------------------------------------------------------------------------

\* Stuttering, and the slots of another machine, change nothing.
LEMMA Stutters ==
  ASSUME UNCHANGED slots
  PROVE  /\ AccessInv => AccessInv'
         /\ Node!Told => Node!Told'
         /\ Node!Orderly => Node!Orderly'
<1> USE DEF slots
<1>1. AccessInv => AccessInv'
  BY DEF AccessInv, Access!OkMeansReady, Access!AtRest
<1>2. Node!Told => Node!Told'
  BY DEF Node!Told, Node!OneAtATime, Node!TellsInTime, Node!Settled, Node!Asked
<1>3. Node!Orderly => Node!Orderly'
  BY DEF Node!Orderly, Node!OneAtATime, Node!SessionIsTheirs, Node!StaleIsAsked,
     Node!Settled, Node!Asked, Node!Fits
<1> QED
  BY <1>1, <1>2, <1>3

\* A status of ok is true, the header is the node's whose answers fill the screen, and
\* it is polled; a block producer without a pool is never shown untold: through tests,
\* disconnects, drops and outages, failed attempts, reloads, demo and late answers.
THEOREM ConnectionsHold == Spec => []ConnectionsAreAsShown
<1> DEFINE Inv == /\ machine = "access" => AccessInv
                  /\ machine = "node" => Node!Orderly /\ Node!Told
                  /\ machine = "hasty" => Node!Told
<1>1. Init => Inv
  BY InitReady, InitTold, InitOrderly DEF Init
<1>2. Inv /\ [Next]_slots => Inv'
  <2> SUFFICES ASSUME Inv, [Next]_slots
               PROVE  Inv'
    OBVIOUS
  <2>1. machine = "access" => AccessInv'
    BY MachineSteps, NextReady, Stutters
  <2>2. machine = "node" => Node!Told'
    BY MachineSteps, NextTold, Stutters
  <2>3. machine = "node" => Node!Orderly'
    BY <2>2, MachineSteps, NextOrderly, Stutters DEF Node!Orderly, Node!Told
  <2>4. machine = "hasty" => Node!Told'
    BY MachineSteps, NextTold, Stutters
  <2> QED
    BY <2>1, <2>2, <2>3, <2>4, MachineSteps
<1>3. Inv => ConnectionsAreAsShown
  <2> SUFFICES ASSUME Inv
               PROVE  ConnectionsAreAsShown
    OBVIOUS
  <2>1. Node!Told => Node!PoollessIsTold /\ Hasty!PoollessIsTold
    BY DEF Node!Told, Node!TellsInTime, Node!Asked, Node!PoollessIsTold,
       Hasty!PoollessIsTold, Node!InUse, Hasty!InUse
  <2>2. Node!Orderly => Node!HeaderIsTheNodes /\ Node!NotStranded
    BY DEF Node!Orderly, Node!SessionIsTheirs, Node!StaleIsAsked, Node!Settled,
       Node!Asked, Node!Fits, Node!HeaderIsTheNodes, Node!NotStranded, Node!InUse
  <2> QED
    BY <2>1, <2>2 DEF ConnectionsAreAsShown, AccessInv
<1> QED
  BY <1>1, <1>2, <1>3, PTL DEF Spec

\* What is announced is announced once: messages reach the screen in order and none twice
\* while no two calls overlap (their watermark, whatever fails, is cut or restarts), no
\* block beats twice however polls overlap and the tab is left, and toasts that come one
\* at a time stay within the cap.
THEOREM AnnouncedHolds == Spec => []AnnouncedOnce
<1> DEFINE Inv == /\ machine = "feed" => FeedInv
                  /\ machine = "notices" => NoticesInv
                  /\ machine \in {"relay", "starting"} => RelayInv
<1>1. Init => Inv
  BY FeedStart, NoticesStart, RelayStart DEF Init
<1>2. Inv /\ [Next]_slots => Inv'
  <2> SUFFICES ASSUME Inv, [Next]_slots
               PROVE  Inv'
    OBVIOUS
  <2>0. UNCHANGED slots => UNCHANGED <<v1, v2, v3, v5, v6, v7, v8, v9, v10, v11, v12>>
    BY DEF slots
  <2>1. machine = "feed" => FeedInv'
    BY <2>0, MachineSteps, FeedNext, FeedStutters
  <2>2. machine = "notices" => NoticesInv'
    BY <2>0, MachineSteps, NoticesNext, NoticesStutter
  <2>3. machine \in {"relay", "starting"} => RelayInv'
    BY <2>0, MachineSteps, RelayNext, RelayStutter
  <2> QED
    BY <2>1, <2>2, <2>3, MachineSteps
<1>3. Inv => AnnouncedOnce
  BY FeedHolds, NoticesHold, RelayHolds DEF AnnouncedOnce
<1> QED
  BY <1>1, <1>2, <1>3, PTL DEF Spec
=============================================================================
