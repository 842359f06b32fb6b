-------------------------- MODULE StakeMovesProofs --------------------------
(***************************************************************************)
(* For any accounts, thresholds, credits and surroundings: the types of    *)
(* the state, that no credit is subtracted twice, and what is reported in  *)
(* the surroundings that promise something of it.                          *)
(*                                                                         *)
(* What was subtracted for an epoch and what may still be subtracted never *)
(* exceed together what the epoch credited (Ledger).  It rests on the      *)
(* stored epoch: it is that of every poll past its mark, so credits come   *)
(* once for an epoch and never again for one that a restart forgot.        *)
(*                                                                         *)
(* Where only restarts disturb, a poll and the chain keep in step (InStep) *)
(* and three invariants say what a baseline lacks: nothing of an account   *)
(* that moved nothing (SilentInWindow); a whole roll's rewards, which trip *)
(* the breaker (BreakerInv); or the payments since the last list and the   *)
(* part of a reward not yet netted (PromptInv).                            *)
(***************************************************************************)
EXTENDS StakeMoves, FiniteSetTheorems, TLAPS

\* A poll keeps the epoch it was called with, from which the stored one never
\* runs ahead.
PollSound ==
    /\ markedEpoch <= epoch
    /\ ~At("idle") => job.tip \in Epochs /\ markedEpoch <= job.tip /\ job.tip <= epoch

\* The surroundings CreditNettedOnce is about.
Tame == world.disturb \cap {"reset", "storeFail", "unread"} = {}

\* A comparison uses the credits the module has.
InHand == At("compare") => job.known = (creditEpoch = job.tip) /\ job.credits = credits

\* Past its mark, a poll's epoch is the stored one; credits are that epoch's, and
\* nothing was subtracted for a later one.
Current ==
    /\ job.pc \in {"credits", "compare", "announce", "store"} => job.tip = markedEpoch
    /\ job.settling => settling /\ job.pc # "idle"
    /\ creditEpoch \in {NoEpoch, markedEpoch}
    /\ \A e \in Epochs, s \in Accounts : e > markedEpoch => netted[e][s] = 0

\* What was subtracted for the stored epoch and what may still be; before the
\* credits came, nothing was, if they may come at all.
Ledger ==
    /\ creditEpoch # NoEpoch =>
           \A s \in Accounts : netted[creditEpoch][s] + credits[s] <= credited[creditEpoch][s]
    /\ creditEpoch = NoEpoch /\ (settling \/ held \cup job.holds # {}) =>
           \A s \in Accounts : netted[markedEpoch][s] = 0

IInv ==
    /\ TypeOK /\ PollSound
    /\ Tame => Current /\ Ledger /\ CreditNettedOnce /\ InHand

-----------------------------------------------------------------------------
(* What a change is taken for.                                             *)

Actions == {"skip", "hold", "absorb", "emit"}

\* A verdict subtracts the credit or nothing, and holds only while settling.
VerdictSound(v, credit, have, settles) ==
    /\ v.action \in Actions /\ v.net \in Int /\ v.credit \in {0, credit}
    /\ v.action \in {"absorb", "emit"} => v.credit = credit
    /\ v.action = "hold" => have /\ settles

LEMMA ClassifyFacts ==
    ASSUME NEW delta \in Int, NEW credit \in Nat, NEW have \in BOOLEAN,
           NEW pending \in BOOLEAN, NEW settles \in BOOLEAN, settles => pending
    PROVE  VerdictSound(Classify(delta, credit, have, pending, settles), credit, have, settles)
<1> DEFINE v == Classify(delta, credit, have, pending, settles)
<1>1. CASE pending /\ ~have
  <2>1. v = Verdict("skip", 0, 0)
    BY <1>1, Zenon DEF Classify
  <2> QED
    BY <2>1 DEF Verdict, Actions, VerdictSound
<1>2. CASE ~(pending /\ ~have) /\ settles /\ (PartLanded(delta, credit) \/ delta < 0)
  <2>1. v = Verdict("hold", 0, credit)
    BY <1>2, Zenon DEF Classify
  <2>2. have = TRUE /\ settles = TRUE
    BY <1>2
  <2>3. VerdictSound(Verdict("hold", 0, credit), credit, have, settles)
    BY <2>2 DEF Verdict, Actions, VerdictSound
  <2> QED
    BY <2>1, <2>3, Zenon
<1>3. CASE ~(pending /\ ~have) /\ ~(settles /\ (PartLanded(delta, credit) \/ delta < 0))
  <2> DEFINE net == IF credit > 0 /\ delta > 0 THEN AtLeastZero(delta - credit) ELSE delta
             action == IF Abs(net) >= Threshold THEN "emit" ELSE "absorb"
  <2>1. v = Verdict(action, net, credit)
    BY <1>3, Zenon DEF Classify, Settle
  <2>2. net \in Int
    BY DEF AtLeastZero
  <2>3. action \in {"emit", "absorb"}
    OBVIOUS
  <2> HIDE DEF net, action
  <2>4. VerdictSound(Verdict(action, net, credit), credit, have, settles)
    BY <2>2, <2>3 DEF Verdict, Actions, VerdictSound
  <2> QED
    BY <2>1, <2>4, Zenon
<1> QED
  BY <1>1, <1>2, <1>3

Pending(s) == job.settling \/ s \in held
Credit(s) == IF job.known /\ Pending(s) THEN job.credits[s] ELSE 0
VerdictOf(s) ==
    Classify(job.list[s] - snapshot[s], Credit(s), job.known, Pending(s), job.settling)

LEMMA VerdictFacts ==
    ASSUME TypeOK, NEW s \in Accounts
    PROVE  /\ Credit(s) \in Nat
           /\ VerdictSound(VerdictOf(s), Credit(s), job.known, job.settling)
<1>1. /\ job.list[s] \in Int /\ snapshot[s] \in Int /\ job.credits[s] \in Nat
      /\ job.settling \in BOOLEAN /\ job.known \in BOOLEAN
  BY DEF TypeOK, Amount, Amounts
<1>2. Credit(s) \in Nat /\ job.list[s] - snapshot[s] \in Int
  BY <1>1 DEF Credit
<1>3. Pending(s) \in BOOLEAN /\ job.known \in BOOLEAN /\ (job.settling => Pending(s))
  BY <1>1 DEF Pending
<1> QED
  BY <1>1, <1>2, <1>3, ClassifyFacts, Zenon DEF VerdictOf

Taken(s) == VerdictOf(s).action \in {"absorb", "emit"}

\* What is reported of an account, unless too many changed at once.
Emits == {s \in Accounts : VerdictOf(s).action = "emit"}
Reported(s) == IF s \in Emits /\ ~(Cardinality(Emits) > MassLimit) THEN VerdictOf(s).net ELSE 0

\* What a comparison does.
LEMMA CompareMeans ==
    ASSUME Compare
    PROVE  /\ job.pc = "compare"
           /\ job' = [job EXCEPT !.pc = "announce", !.known = FALSE, !.credits = NoCredits,
                                 !.holds = {s \in Accounts : VerdictOf(s).action = "hold"},
                                 !.report = [s \in Accounts |-> Reported(s)]]
           /\ credits' = [s \in Accounts |->
                  IF creditEpoch = job.tip /\ Taken(s) /\ VerdictOf(s).credit > 0
                  THEN 0 ELSE credits[s]]
           /\ netted' = [netted EXCEPT ![job.tip] = [s \in Accounts |->
                  IF Taken(s) THEN @[s] + VerdictOf(s).credit ELSE @[s]]]
           /\ UNCHANGED <<chain, stored, settling, held, creditEpoch, told, late, disturbed>>
<1> DEFINE verdict == [s \in Accounts |-> VerdictOf(s)]
           emits == {s \in Accounts : verdict[s].action = "emit"}
           quiet == Cardinality(emits) > MassLimit
           report == [s \in Accounts |-> IF s \in emits /\ ~quiet THEN verdict[s].net ELSE 0]
<1>1. /\ job' = [job EXCEPT !.pc = "announce", !.known = FALSE, !.credits = NoCredits,
                            !.holds = {s \in Accounts : verdict[s].action = "hold"},
                            !.report = report]
      /\ credits' = [s \in Accounts |-> IF creditEpoch = job.tip THEN Spent(s, verdict[s])
                                        ELSE credits[s]]
      /\ netted' = [netted EXCEPT ![job.tip] = [s \in Accounts |->
            IF verdict[s].action \in {"absorb", "emit"} THEN @[s] + verdict[s].credit
            ELSE @[s]]]
  BY Zenon DEF Compare, VerdictOf, Credit, Pending
<1>2. \A s \in Accounts : verdict[s] = VerdictOf(s)
  OBVIOUS
<1>3. report = [s \in Accounts |-> Reported(s)]
  <2>1. emits = Emits
    BY <1>2 DEF Emits
  <2> QED
    BY <1>2, <2>1 DEF Reported
<1>4. {s \in Accounts : verdict[s].action = "hold"} = {s \in Accounts : VerdictOf(s).action = "hold"}
  BY <1>2
<1>5. credits' = [s \in Accounts |->
                  IF creditEpoch = job.tip /\ Taken(s) /\ VerdictOf(s).credit > 0
                  THEN 0 ELSE credits[s]]
  BY <1>1, <1>2 DEF Spent, Taken
<1>6. netted' = [netted EXCEPT ![job.tip] = [s \in Accounts |->
                  IF Taken(s) THEN @[s] + VerdictOf(s).credit ELSE @[s]]]
  BY <1>1, <1>2 DEF Taken
<1> HIDE DEF verdict, emits, quiet, report
<1>7. /\ job.pc = "compare"
      /\ UNCHANGED <<chain, stored, settling, held, creditEpoch, told, late, disturbed>>
  BY DEF Compare, At
<1> QED
  BY <1>1, <1>3, <1>4, <1>5, <1>6, <1>7

Steps == {"idle", "list", "mark", "credits", "compare", "announce", "store"}
JobRecord ==
    [pc : Steps, tip : Epochs \cup {NoEpoch}, list : Amount, settling : BOOLEAN,
     known : BOOLEAN, credits : [Accounts -> Nat], holds : SUBSET Accounts, report : Amount]

LEMMA CompareJob ==
    ASSUME Compare, job \in JobRecord
    PROVE  /\ job'.pc = "announce" /\ job'.list = job.list /\ job'.tip = job.tip
           /\ job'.settling = job.settling
           /\ \A s \in Accounts : job'.report[s] = Reported(s)
<1> DEFINE report == [s \in Accounts |-> Reported(s)]
           holds == {s \in Accounts : VerdictOf(s).action = "hold"}
<1>1. job' = [job EXCEPT !.pc = "announce", !.known = FALSE, !.credits = NoCredits,
                         !.holds = holds, !.report = report]
  BY CompareMeans
<1>2. \A s \in Accounts : report[s] = Reported(s)
  OBVIOUS
<1> HIDE DEF report, holds
<1> QED
  BY <1>1, <1>2 DEF JobRecord

-----------------------------------------------------------------------------
(* The types.                                                              *)

LEMMA ZeroFacts ==
    /\ Zero \in Amount /\ Zero \in [Accounts -> Nat] /\ NoCredits \in [Accounts -> Nat]
    /\ Idle \in JobRecord /\ Idle.pc = "idle"
    /\ NoEpoch \notin Epochs /\ \A e \in Epochs : e \in Int
<1>1. Zero \in Amount /\ Zero \in [Accounts -> Nat] /\ NoCredits \in [Accounts -> Nat]
  BY DEF Zero, NoCredits, Amount, Amounts
<1> QED
  BY <1>1, BoundsAssumption DEF Idle, JobRecord, Steps, NoEpoch, Epochs

LEMMA WorldFacts ==
    ASSUME TypeOK
    PROVE  /\ world.last \in 1..MaxEpoch /\ world.sizes \subseteq Int
           /\ world.movers \subseteq Accounts
<1>1. world \in World
  BY WorldsAssumption DEF TypeOK
<1> QED
  BY <1>1 DEF World

\* Either write keeps the disturbances in their range.
LEMMA DisturbedTyped ==
    ASSUME TypeOK, NEW kind, Disturbed(kind)
    PROVE  disturbed' \in 0..MaxDisturb
BY BoundsAssumption DEF TypeOK, Disturbed

LEMMA ChainTyped ==
    ASSUME TypeOK,
           \/ \E s \in world.movers : \E n \in world.sizes : Pay(s, n)
           \/ \E reward \in [Accounts -> Credits] : Roll(reward)
           \/ \E s \in Accounts : \E n \in 1..due[s] : Land(s, n)
           \/ WindowEnds
    PROVE  TypeOK'
<1>1. ASSUME NEW s \in world.movers, NEW n \in world.sizes, Pay(s, n)
      PROVE  TypeOK'
  <2>1. s \in Accounts /\ n \in Int
    BY WorldFacts
  <2>2. paid' \in Amount
    <3>1. paid \in [Accounts -> Int] /\ paid' = [paid EXCEPT ![s] = @ + n]
      BY <1>1 DEF Pay, TypeOK, Amount, Amounts
    <3> QED
      BY <2>1, <3>1 DEF Amount, Amounts
  <2>3. moves' \in [Accounts -> 0..MaxMoves]
    <3>1. /\ moves \in [Accounts -> 0..MaxMoves] /\ moves[s] < MaxMoves
          /\ moves' = [moves EXCEPT ![s] = @ + 1]
      BY <1>1 DEF Pay, TypeOK
    <3> QED
      BY <2>1, <3>1, BoundsAssumption
  <2> QED
    BY <1>1, <2>1, <2>2, <2>3 DEF Pay, TypeOK, stored, memory, history
<1>2. ASSUME NEW reward \in [Accounts -> Credits], Roll(reward)
      PROVE  TypeOK'
  <2>1. reward \in [Accounts -> Nat]
    BY CreditsAssumption
  <2>2. epoch' \in Epochs /\ epoch' = epoch + 1
    <3>1. epoch \in 1..MaxEpoch /\ epoch < world.last /\ epoch' = epoch + 1
      BY <1>2 DEF Roll, TypeOK, Epochs
    <3> QED
      BY <3>1, WorldFacts, BoundsAssumption DEF Epochs
  <2>3. credited' \in [Epochs -> [Accounts -> Nat]]
    BY <1>2, <2>1, <2>2 DEF Roll, TypeOK
  <2>4. due' \in [Accounts -> Nat] /\ landed' \in [Accounts -> Nat]
    BY <1>2, <2>1 DEF Roll, TypeOK
  <2> QED
    BY <1>2, <2>2, <2>3, <2>4 DEF Roll, TypeOK, stored, memory, history
<1>3. ASSUME NEW s \in Accounts, NEW n \in 1..due[s], Land(s, n)
      PROVE  TypeOK'
  <2>1. due' \in [Accounts -> Nat] /\ landed' \in [Accounts -> Nat]
    BY <1>3 DEF Land, TypeOK
  <2> QED
    BY <1>3, <2>1 DEF Land, TypeOK, stored, memory, history
<1>4. CASE WindowEnds
  BY <1>4 DEF WindowEnds, TypeOK, chain, stored, history
<1> QED
  BY <1>1, <1>2, <1>3, <1>4

\* A step of the poll that moves the poll only.
LEMMA JobTyped ==
    ASSUME TypeOK, job' \in JobRecord, UNCHANGED <<chain, stored, memory, history, disturbed>>
    PROVE  TypeOK'
<1>1. job' \in [pc : {"idle", "list", "mark", "credits", "compare", "announce", "store"},
                tip : Epochs \cup {NoEpoch}, list : Amount, settling : BOOLEAN,
                known : BOOLEAN, credits : [Accounts -> Nat], holds : SUBSET Accounts,
                report : Amount]
  BY DEF JobRecord, Steps
<1>2. /\ UNCHANGED <<world, epoch, paid, moves, due, landed, credited, snapshot, markedEpoch>>
      /\ UNCHANGED <<settling, held, credits, creditEpoch, told, netted, late, disturbed>>
  BY DEF chain, stored, memory, history
<1> QED
  BY <1>1, <1>2, Zenon DEF TypeOK

LEMMA PollTyped ==
    ASSUME TypeOK, PollSound, Poll
    PROVE  TypeOK'
<1>1. job \in JobRecord /\ Idle \in JobRecord
  BY ZeroFacts DEF TypeOK, JobRecord, Steps
<1> HIDE DEF Idle
<1>2. CASE StartPoll
  <2>1. job' \in JobRecord
    BY <1>1, <1>2 DEF StartPoll, JobRecord, Steps, TypeOK
  <2> QED
    BY <1>2, <2>1, JobTyped DEF StartPoll
<1>3. CASE FetchList
  <2>1. [s \in Accounts |-> Live(s)] \in Amount
    BY DEF TypeOK, Live, Amount, Amounts
  <2>2. job' \in JobRecord
    BY <1>1, <1>3, <2>1 DEF FetchList, JobRecord, Steps
  <2> QED
    BY <1>3, <2>2, JobTyped DEF FetchList
<1>4. CASE MarkEpoch
  <2>1. job' \in JobRecord
    <3>1. PICK b : job' = [job EXCEPT !.pc = "credits", !.settling = b] /\ b \in BOOLEAN
      <4>1. CASE job.tip # markedEpoch
        BY <1>4, <4>1 DEF MarkEpoch
      <4>2. CASE job.tip = markedEpoch
        BY <1>4, <4>2 DEF MarkEpoch
      <4> QED
        BY <4>1, <4>2
    <3> QED
      BY <1>1, <3>1 DEF JobRecord, Steps
  <2>2. job.tip \in Epochs
    BY <1>4 DEF MarkEpoch, At, PollSound
  <2>3. markedEpoch' \in Epochs /\ disturbed' \in 0..MaxDisturb
    BY <1>4, <2>2, DisturbedTyped DEF MarkEpoch, Stored, TypeOK
  <2>4. settling' \in BOOLEAN /\ held' \subseteq Accounts /\ creditEpoch' \in Epochs \cup {NoEpoch}
    BY <1>4 DEF MarkEpoch, TypeOK
  <2> QED
    BY <1>4, <2>1, <2>3, <2>4 DEF MarkEpoch, TypeOK, JobRecord, Steps, chain, history
<1>5. CASE FetchCredits
  <2>2. job.tip \in Epochs
    BY <1>5 DEF FetchCredits, At, PollSound
  <2>3. credits' \in [Accounts -> Nat] /\ creditEpoch' \in Epochs \cup {NoEpoch}
    BY <1>5, <2>2 DEF FetchCredits, TypeOK
  <2>1. job' \in JobRecord
    <3> DEFINE known == creditEpoch' = job.tip
    <3>1. job' = [job EXCEPT !.pc = "compare", !.known = known, !.credits = credits']
      BY <1>5 DEF FetchCredits
    <3>2. known \in BOOLEAN
      OBVIOUS
    <3> HIDE DEF known
    <3> QED
      BY <1>1, <2>3, <3>1, <3>2 DEF JobRecord, Steps
  <2> QED
    BY <1>5, <2>1, <2>3 DEF FetchCredits, TypeOK, JobRecord, Steps, chain, stored, history
<1>6. CASE Compare
  <2>1. job.tip \in Epochs
    BY <1>6 DEF Compare, At, PollSound
  <2>2. \A s \in Accounts : VerdictOf(s).net \in Int /\ VerdictOf(s).credit \in Nat
    BY VerdictFacts DEF VerdictSound
  <2> DEFINE report == [s \in Accounts |-> Reported(s)]
  <2>3. job' = [job EXCEPT !.pc = "announce", !.known = FALSE, !.credits = NoCredits,
                           !.holds = {s \in Accounts : VerdictOf(s).action = "hold"},
                           !.report = report]
    BY <1>6, CompareMeans
  <2>4. report \in Amount
    BY <2>2 DEF Reported, Emits, Amount, Amounts
  <2>5. job' \in JobRecord
    BY <1>1, <2>3, <2>4, ZeroFacts DEF JobRecord, Steps
  <2>6. credits' \in [Accounts -> Nat]
    <3>1. credits \in [Accounts -> Nat]
      BY DEF TypeOK
    <3>2. credits' = [s \in Accounts |->
                  IF creditEpoch = job.tip /\ Taken(s) /\ VerdictOf(s).credit > 0
                  THEN 0 ELSE credits[s]]
      BY <1>6, CompareMeans
    <3> QED
      BY <3>1, <3>2
  <2>7. netted' \in [Epochs -> [Accounts -> Nat]]
    <3> DEFINE row == [s \in Accounts |->
                  IF Taken(s) THEN netted[job.tip][s] + VerdictOf(s).credit
                  ELSE netted[job.tip][s]]
    <3>1. netted \in [Epochs -> [Accounts -> Nat]]
      BY DEF TypeOK
    <3>2. netted' = [netted EXCEPT ![job.tip] = row]
      BY <1>6, CompareMeans
    <3>3. row \in [Accounts -> Nat]
      BY <2>1, <2>2, <3>1
    <3> HIDE DEF row
    <3> QED
      BY <2>1, <3>1, <3>2, <3>3
  <2>8. UNCHANGED <<chain, stored, settling, held, creditEpoch, told, late, disturbed>>
    BY <1>6, CompareMeans
  <2> QED
    BY <2>5, <2>6, <2>7, <2>8 DEF TypeOK, JobRecord, Steps, chain, stored
<1>7. CASE Announce
  <2>1. told' \in Amount
    BY <1>1, <1>7 DEF Announce, TypeOK, JobRecord, Amount, Amounts
  <2>2. job' \in JobRecord
    BY <1>1, <1>7 DEF Announce, JobRecord, Steps
  <2> QED
    BY <1>7, <2>1, <2>2 DEF Announce, TypeOK, JobRecord, Steps, chain, stored, memory
<1>8. CASE StoreSnapshot
  <2>1. [s \in Accounts |-> Baseline(s)] \in Amount
    BY <1>1 DEF TypeOK, JobRecord, Baseline, Amount, Amounts
  <2>2. snapshot' \in Amount /\ disturbed' \in 0..MaxDisturb
    BY <1>8, <2>1, DisturbedTyped DEF StoreSnapshot, Stored, TypeOK
  <2>3. job' \in JobRecord /\ held' \subseteq Accounts
    BY <1>1, <1>8 DEF StoreSnapshot, JobRecord
  <2> QED
    BY <1>8, <2>2, <2>3 DEF StoreSnapshot, TypeOK, JobRecord, Steps, chain, history
<1>9. CASE Rebaseline
  <2>1. snapshot' \in Amount /\ disturbed' \in 0..MaxDisturb
    BY <1>1, <1>9, DisturbedTyped DEF Rebaseline, JobRecord
  <2> QED
    BY <1>1, <1>9, <2>1 DEF Rebaseline, TypeOK, JobRecord, Steps, chain, memory, history
<1>10. CASE MarkAgain
  <2>1. job' \in JobRecord
    BY <1>1, <1>10 DEF MarkAgain, JobRecord, Steps
  <2>2. disturbed' \in 0..MaxDisturb
    BY <1>10, DisturbedTyped DEF MarkAgain
  <2> QED
    BY <1>10, <2>1, <2>2 DEF MarkAgain, TypeOK, JobRecord, Steps, chain, stored, history
<1> QED
  BY <1>2, <1>3, <1>4, <1>5, <1>6, <1>7, <1>8, <1>9, <1>10 DEF Poll

LEMMA ForgetTyped ==
    ASSUME TypeOK, Restart \/ Reset
    PROVE  TypeOK'
<1>1. disturbed' \in 0..MaxDisturb
  BY DisturbedTyped DEF Restart, Reset
<1>2. settling' \in BOOLEAN /\ held' \subseteq Accounts /\ credits' \in [Accounts -> Nat]
      /\ creditEpoch' \in Epochs \cup {NoEpoch}
  BY ZeroFacts DEF Restart, Reset, Forget
<1>3. job' \in JobRecord
  BY ZeroFacts DEF Restart, Reset, TypeOK, JobRecord, Steps
<1>4. UNCHANGED <<chain, stored, history>>
  BY DEF Restart, Reset
<1> QED
  BY <1>1, <1>2, <1>3, <1>4 DEF TypeOK, JobRecord, Steps, chain, stored, history

LEMMA NextTyped ==
    ASSUME TypeOK, PollSound, [Next]_vars
    PROVE  TypeOK'
<1>1. CASE UNCHANGED vars
  BY <1>1 DEF vars, TypeOK, chain, stored, memory, history
<1> QED
  BY <1>1, ChainTyped, PollTyped, ForgetTyped DEF Next

\* The stored epoch only follows the polls', and these the chain's.
LEMMA PollSoundKept ==
    ASSUME TypeOK, PollSound, [Next]_vars
    PROVE  PollSound'
<1>1. job \in JobRecord /\ epoch \in Epochs /\ markedEpoch \in Epochs
  BY DEF TypeOK, JobRecord, Steps
<1>2. epoch' \in Epochs /\ epoch <= epoch'
  <2>1. epoch' = epoch \/ epoch' = epoch + 1
    BY DEF Next, Pay, Roll, Land, WindowEnds, Poll, StartPoll, FetchList, Rebaseline,
           MarkEpoch, MarkAgain, FetchCredits, Compare, Announce, StoreSnapshot, Restart,
           Reset, chain, vars
  <2> QED
    BY <1>1, <2>1, NextTyped DEF TypeOK, Epochs
<1>3. CASE StartPoll
  BY <1>1, <1>3, ZeroFacts DEF StartPoll, PollSound, At, chain, stored, Epochs
<1>4. CASE MarkEpoch
  <2>1. job'.tip = job.tip /\ markedEpoch' \in {markedEpoch, job.tip} /\ epoch' = epoch
    BY <1>1, <1>4 DEF MarkEpoch, Stored, JobRecord, chain
  <2> QED
    BY <1>1, <1>4, <2>1 DEF MarkEpoch, PollSound, At, Epochs
<1>5. ASSUME UNCHANGED markedEpoch, job'.pc = "idle" \/ (job.pc # "idle" /\ job'.tip = job.tip)
      PROVE  PollSound'
  BY <1>1, <1>2, <1>5 DEF PollSound, At, Epochs
<1>6. CASE FetchList \/ MarkAgain \/ FetchCredits \/ Announce
  <2>1. UNCHANGED markedEpoch /\ job.pc # "idle" /\ job'.tip = job.tip
    BY <1>1, <1>6 DEF FetchList, MarkAgain, FetchCredits, Announce, At, stored, JobRecord
  <2> QED
    BY <1>5, <2>1
<1>7. CASE Compare
  <2>1. UNCHANGED markedEpoch /\ job.pc # "idle" /\ job'.tip = job.tip
    BY <1>1, <1>7, CompareMeans DEF stored, JobRecord
  <2> QED
    BY <1>5, <2>1
<1>8. CASE StoreSnapshot \/ Rebaseline \/ Restart
  <2>1. UNCHANGED markedEpoch /\ job'.pc = "idle"
    <3>1. UNCHANGED markedEpoch /\ job' = Idle
      BY <1>8 DEF StoreSnapshot, Rebaseline, Restart, stored
    <3> QED
      BY <3>1, ZeroFacts
  <2> QED
    BY <1>5, <2>1
<1>9. ASSUME UNCHANGED <<markedEpoch, job>>
      PROVE  PollSound'
  BY <1>1, <1>2, <1>9 DEF PollSound, At, Epochs
<1>10. ASSUME NEW s \in world.movers, NEW n \in world.sizes, Pay(s, n)
       PROVE  PollSound'
  BY <1>9, <1>10 DEF Pay, stored
<1>11. ASSUME NEW reward \in [Accounts -> Credits], Roll(reward)
       PROVE  PollSound'
  BY <1>9, <1>11 DEF Roll, stored
<1>12. ASSUME NEW s \in Accounts, NEW n \in 1..due[s], Land(s, n)
       PROVE  PollSound'
  BY <1>9, <1>12 DEF Land, stored
<1>13. CASE WindowEnds \/ Reset \/ UNCHANGED vars
  BY <1>9, <1>13 DEF WindowEnds, Reset, stored, vars
<1> QED
  BY <1>3, <1>4, <1>6, <1>7, <1>8, <1>10, <1>11, <1>12, <1>13 DEF Next, Poll

-----------------------------------------------------------------------------
(* The credits.                                                            *)

Netting == Current /\ Ledger /\ CreditNettedOnce

\* A step that moves no credit and opens no window.
LEMMA NothingNetted ==
    ASSUME TypeOK, PollSound, Netting, Tame,
           UNCHANGED <<world, credited, markedEpoch, creditEpoch, credits, netted>>,
           settling' => settling, job'.settling => settling' /\ job'.pc # "idle",
           held' \cup job'.holds # {} => held \cup job.holds # {},
           job'.pc \in {"credits", "compare", "announce", "store"} =>
               job'.tip = job.tip /\ job.pc \in {"credits", "compare", "announce", "store"}
    PROVE  Netting'
BY DEF Netting, Current, Ledger, CreditNettedOnce

LEMMA RollNets ==
    ASSUME TypeOK, PollSound, Netting, Tame, NEW reward \in [Accounts -> Credits], Roll(reward)
    PROVE  Netting'
<1>1. /\ credited' = [credited EXCEPT ![epoch + 1] = reward]
      /\ UNCHANGED <<world, stored, memory, job, history>>
  BY DEF Roll
<1>2. /\ epoch \in Epochs /\ markedEpoch \in Epochs /\ markedEpoch <= epoch
      /\ credited \in [Epochs -> [Accounts -> Nat]]
      /\ reward \in [Accounts -> Nat]
      /\ creditEpoch \in {NoEpoch, markedEpoch}
  BY CreditsAssumption DEF TypeOK, PollSound, Netting, Current
<1>3. \A e \in Epochs : e <= epoch => credited'[e] = credited[e]
  BY <1>1, <1>2 DEF Epochs
<1>4. Current'
  BY <1>1 DEF Netting, Current, stored, memory, history
<1>5. Ledger'
  BY <1>1, <1>2, <1>3 DEF Netting, Ledger, stored, memory, history
<1>6. ASSUME NEW e \in Epochs, NEW s \in Accounts
      PROVE  netted'[e][s] <= credited'[e][s]
  <2>1. netted'[e][s] = netted[e][s] /\ netted[e][s] <= credited[e][s]
    BY <1>1 DEF history, Netting, CreditNettedOnce, Tame
  <2>2. CASE e = epoch + 1
    <3>1. netted[e][s] = 0
      BY <1>2, <2>2 DEF Netting, Current, Epochs
    <3> QED
      BY <1>1, <1>2, <2>1, <2>2, <3>1
  <2>3. CASE e # epoch + 1
    BY <1>1, <1>2, <2>1, <2>3
  <2> QED
    BY <2>2, <2>3
<1> QED
  BY <1>4, <1>5, <1>6 DEF Netting, CreditNettedOnce

LEMMA MarkNets ==
    ASSUME TypeOK, PollSound, Netting, Tame, MarkEpoch
    PROVE  Netting'
<1>1. /\ UNCHANGED <<world, credited, credits, netted>> /\ job \in JobRecord
      /\ markedEpoch \in Epochs /\ job.tip \in Epochs /\ markedEpoch <= job.tip
  BY DEF MarkEpoch, At, chain, history, TypeOK, PollSound, JobRecord, Steps
<1>2. CASE job.tip # markedEpoch
  <2>1. markedEpoch' = job.tip /\ settling' = TRUE /\ held' = {} /\ creditEpoch' = NoEpoch
    BY <1>2 DEF MarkEpoch, Stored, Disturbed, Tame
  <2>2. job'.pc = "credits" /\ job'.tip = job.tip /\ job'.settling = TRUE
    BY <1>1, <1>2 DEF MarkEpoch, JobRecord
  <2>3. job.tip > markedEpoch
    BY <1>1, <1>2 DEF Epochs
  <2>4. Current'
    BY <1>1, <2>1, <2>2, <2>3 DEF Netting, Current, Epochs
  <2>5. Ledger'
    BY <1>1, <2>1, <2>3 DEF Netting, Current, Ledger
  <2> QED
    BY <1>1, <2>4, <2>5 DEF Netting, CreditNettedOnce
<1>3. CASE job.tip = markedEpoch
  <2>1. UNCHANGED <<markedEpoch, settling, held, creditEpoch>>
    BY <1>3 DEF MarkEpoch
  <2>2. /\ job'.pc = "credits" /\ job'.tip = job.tip /\ job'.holds = job.holds
        /\ job'.settling => settling
    BY <1>1, <1>3 DEF MarkEpoch, JobRecord, TypeOK
  <2> QED
    BY <1>1, <1>3, <2>1, <2>2 DEF Netting, Current, Ledger, CreditNettedOnce
<1> QED
  BY <1>2, <1>3

LEMMA FetchNets ==
    ASSUME TypeOK, PollSound, Netting, Tame, FetchCredits
    PROVE  Netting'
<1>1. /\ UNCHANGED <<world, credited, markedEpoch, settling, held, netted>>
      /\ job \in JobRecord /\ job.pc = "credits" /\ job.tip = markedEpoch
      /\ markedEpoch \in Epochs
  BY DEF FetchCredits, At, chain, stored, history, TypeOK, JobRecord, Steps, Netting, Current
<1>2. /\ job'.pc = "compare" /\ job'.tip = job.tip /\ job'.holds = job.holds
      /\ job'.settling = job.settling
  BY <1>1 DEF FetchCredits, JobRecord
<1>3. CASE UNCHANGED <<credits, creditEpoch>>
  BY <1>1, <1>2, <1>3 DEF Netting, Current, Ledger, CreditNettedOnce
<1>4. CASE /\ (job.settling \/ held # {}) /\ creditEpoch # job.tip
           /\ credits' = credited[job.tip] /\ creditEpoch' = job.tip
  <2>1. creditEpoch = NoEpoch /\ (settling \/ held \cup job.holds # {})
    BY <1>1, <1>4 DEF Netting, Current
  <2>2. \A s \in Accounts : netted[markedEpoch][s] = 0
    BY <2>1 DEF Netting, Ledger
  <2>3. \A s \in Accounts : credited[markedEpoch][s] \in Nat
    BY <1>1 DEF TypeOK
  <2>4. Ledger'
    BY <1>1, <1>4, <2>2, <2>3, ZeroFacts DEF Ledger
  <2>5. Current'
    BY <1>1, <1>2, <1>4 DEF Netting, Current
  <2> QED
    BY <1>1, <2>4, <2>5 DEF Netting, CreditNettedOnce
<1> QED
  BY <1>3, <1>4 DEF FetchCredits

\* A change that is absorbed or reported takes from the credit what it adds to
\* what was subtracted.
LEMMA CompareNets ==
    ASSUME TypeOK, PollSound, Netting, Tame, InHand, Compare
    PROVE  Netting'
<1>0. job.known = (creditEpoch = job.tip) /\ job.credits = credits
  BY DEF InHand, Compare
<1>1. /\ UNCHANGED <<world, credited, markedEpoch, settling, held, creditEpoch>>
      /\ job \in JobRecord /\ job.tip = markedEpoch /\ markedEpoch \in Epochs
      /\ credits \in [Accounts -> Nat] /\ netted \in [Epochs -> [Accounts -> Nat]]
      /\ creditEpoch \in {NoEpoch, markedEpoch} /\ NoEpoch \notin Epochs
  BY CompareMeans, ZeroFacts DEF chain, stored, TypeOK, JobRecord, Steps, Netting, Current
<1>2. /\ job'.tip = job.tip /\ job'.settling = job.settling /\ job'.pc = "announce"
      /\ job'.holds = {s \in Accounts : VerdictOf(s).action = "hold"}
  BY <1>1, CompareMeans DEF JobRecord
<1>3. \A e \in Epochs \ {job.tip} : netted'[e] = netted[e]
  BY <1>1, CompareMeans
<1>4. ASSUME NEW s \in Accounts
      PROVE  /\ creditEpoch = job.tip =>
                    netted'[job.tip][s] + credits'[s] = netted[job.tip][s] + credits[s]
             /\ creditEpoch # job.tip => netted'[job.tip][s] = netted[job.tip][s]
             /\ credits'[s] \in Nat /\ netted'[job.tip][s] \in Nat
             /\ VerdictOf(s).action = "hold" => creditEpoch = job.tip
  <2>1. /\ credits'[s] = IF creditEpoch = job.tip /\ Taken(s) /\ VerdictOf(s).credit > 0
                         THEN 0 ELSE credits[s]
        /\ netted'[job.tip][s] = IF Taken(s) THEN netted[job.tip][s] + VerdictOf(s).credit
                                 ELSE netted[job.tip][s]
    <3> DEFINE row == [t \in Accounts |->
                  IF Taken(t) THEN netted[job.tip][t] + VerdictOf(t).credit
                  ELSE netted[job.tip][t]]
    <3>1. netted' = [netted EXCEPT ![job.tip] = row]
      BY CompareMeans
    <3>2. netted'[job.tip] = row
      BY <1>1, <3>1
    <3>3. credits'[s] = IF creditEpoch = job.tip /\ Taken(s) /\ VerdictOf(s).credit > 0
                        THEN 0 ELSE credits[s]
      BY CompareMeans
    <3> QED
      BY <3>2, <3>3
  <2>2. VerdictSound(VerdictOf(s), Credit(s), job.known, job.settling)
    BY VerdictFacts
  <2>3. /\ Taken(s) => VerdictOf(s).credit = Credit(s)
        /\ VerdictOf(s).action = "hold" => creditEpoch = job.tip
    BY <1>0, <2>2, Zenon DEF VerdictSound, Taken
  <2>4. Credit(s) = 0 \/ (creditEpoch = job.tip /\ Credit(s) = credits[s])
    BY <1>0 DEF Credit
  <2>5. credits[s] \in Nat /\ netted[job.tip][s] \in Nat
    BY <1>1
  <2>6. CASE Taken(s)
    BY <2>1, <2>3, <2>4, <2>5, <2>6
  <2>7. CASE ~Taken(s)
    BY <2>1, <2>3, <2>5, <2>7
  <2> QED
    BY <2>6, <2>7
<1>5. Current'
  BY <1>1, <1>2, <1>3 DEF Netting, Current, Epochs
<1>6. creditEpoch = NoEpoch => job'.holds = {}
  BY <1>1, <1>2, <1>4
<1>7. Ledger'
  <2>1. CASE creditEpoch = NoEpoch
    BY <1>1, <1>2, <1>4, <1>6, <2>1 DEF Netting, Ledger
  <2>2. CASE creditEpoch # NoEpoch
    BY <1>1, <1>4, <2>2 DEF Netting, Ledger
  <2> QED
    BY <2>1, <2>2
<1>8. ASSUME NEW e \in Epochs, NEW s \in Accounts
      PROVE  netted'[e][s] <= credited'[e][s]
  <2>1. netted[e][s] <= credited[e][s] /\ credited[e][s] \in Nat
    BY DEF Netting, CreditNettedOnce, Tame, TypeOK
  <2>2. CASE e # job.tip \/ creditEpoch # job.tip
    BY <1>1, <1>3, <1>4, <2>1, <2>2
  <2>3. CASE e = job.tip /\ creditEpoch = job.tip
    <3>1. netted[job.tip][s] + credits[s] <= credited[job.tip][s]
      BY <1>1, <2>3 DEF Netting, Ledger
    <3> QED
      BY <1>1, <1>4, <2>1, <2>3, <3>1
  <2> QED
    BY <2>2, <2>3
<1> QED
  BY <1>5, <1>7, <1>8 DEF Netting, CreditNettedOnce

-----------------------------------------------------------------------------
(* The specification.                                                      *)

LEMMA InitInv == Init => IInv
<1> SUFFICES ASSUME Init PROVE IInv
  OBVIOUS
<1>1. TypeOK
  <2>1. 1 \in Epochs
    BY WorldsAssumption, BoundsAssumption DEF Init, World, Epochs
  <2>2. job \in JobRecord
    BY ZeroFacts DEF Init
  <2>3. moves \in [Accounts -> 0..MaxMoves] /\ disturbed \in 0..MaxDisturb
    BY BoundsAssumption DEF Init, Zero
  <2>4. /\ credited \in [Epochs -> [Accounts -> Nat]]
        /\ netted \in [Epochs -> [Accounts -> Nat]]
    BY ZeroFacts DEF Init
  <2> QED
    BY <2>1, <2>2, <2>3, <2>4, ZeroFacts DEF Init, TypeOK, JobRecord, Steps
<1>2. PollSound
  BY ZeroFacts DEF Init, PollSound, At
<1>3. \A e \in Epochs, s \in Accounts : netted[e][s] = 0 /\ credited[e][s] = 0
  BY DEF Init, Zero
<1>4. job.pc = "idle" /\ job.settling = FALSE /\ job.holds = {}
  BY DEF Init, Idle
<1>5. Current /\ Ledger /\ CreditNettedOnce /\ InHand
  BY <1>3, <1>4 DEF Init, Current, Ledger, CreditNettedOnce, InHand, At
<1> QED
  BY <1>1, <1>2, <1>5 DEF IInv

\* The credits in hand are taken in the step before the comparison, and nothing
\* touches the module's in between.
LEMMA InHandKept ==
    ASSUME TypeOK, Tame, InHand, [Next]_vars
    PROVE  InHand'
<1>1. job \in JobRecord
  BY DEF TypeOK, JobRecord, Steps
<1>2. ASSUME UNCHANGED <<job, credits, creditEpoch>>
      PROVE  InHand'
  BY <1>2 DEF InHand, At
<1>3. ASSUME job'.pc # "compare"
      PROVE  InHand'
  BY <1>3 DEF InHand, At
<1>4. ASSUME NEW s, NEW n, Pay(s, n) \/ Land(s, n)
      PROVE  InHand'
  BY <1>2, <1>4 DEF Pay, Land, memory
<1>5. ASSUME NEW reward, Roll(reward)
      PROVE  InHand'
  BY <1>2, <1>5 DEF Roll, memory
<1>6. CASE WindowEnds \/ UNCHANGED vars
  BY <1>2, <1>6 DEF WindowEnds, vars, memory
<1>7. CASE FetchCredits
  <2> DEFINE known == creditEpoch' = job.tip
  <2>1. job' = [job EXCEPT !.pc = "compare", !.known = known, !.credits = credits']
    BY <1>7 DEF FetchCredits
  <2>2. job'.known = known /\ job'.credits = credits' /\ job'.tip = job.tip
    BY <1>1, <2>1 DEF JobRecord
  <2> QED
    BY <2>2, Zenon DEF InHand
<1>8. CASE StartPoll \/ FetchList \/ MarkEpoch \/ Announce \/ StoreSnapshot \/ Restart
  <2>1. job'.pc \in {"list", "mark", "credits", "store", "idle"}
    BY <1>1, <1>8, ZeroFacts DEF StartPoll, FetchList, MarkEpoch, Announce, StoreSnapshot,
       Restart, JobRecord, Idle
  <2> QED
    BY <1>3, <2>1
<1>9. CASE Compare
  BY <1>1, <1>3, <1>9, CompareJob
<1>10. CASE Rebaseline \/ MarkAgain \/ Reset
  BY <1>10 DEF Rebaseline, MarkAgain, Reset, Disturbed, Tame
<1> QED
  BY <1>4, <1>5, <1>6, <1>7, <1>8, <1>9, <1>10 DEF Next, Poll

LEMMA NextNets ==
    ASSUME TypeOK, PollSound, Netting, Tame, InHand, [Next]_vars
    PROVE  Netting'
<1>1. job \in JobRecord
  BY DEF TypeOK, JobRecord, Steps
<1>2. CASE UNCHANGED vars
  BY <1>2, NothingNetted DEF vars, chain, stored, memory, history, Netting, Current
<1>3. CASE WindowEnds
  <2>1. job.settling = FALSE
    BY <1>3 DEF WindowEnds, At, Netting, Current
  <2> QED
    BY <1>3, <2>1, NothingNetted DEF WindowEnds, At, chain, stored, history
<1>4. ASSUME NEW s \in world.movers, NEW n \in world.sizes, Pay(s, n)
      PROVE  Netting'
  BY <1>4, NothingNetted DEF Pay, stored, memory, history, Netting, Current
<1>5. ASSUME NEW s \in Accounts, NEW n \in 1..due[s], Land(s, n)
      PROVE  Netting'
  BY <1>5, NothingNetted DEF Land, stored, memory, history, Netting, Current
<1>6. CASE StartPoll
  <2>1. job'.pc = "list" /\ job'.settling = settling /\ job'.holds = {}
    BY <1>6 DEF StartPoll, Idle
  <2> QED
    BY <1>6, <2>1, NothingNetted DEF StartPoll, chain, stored, memory, history
<1>7. CASE FetchList \/ Announce
  <2>1. /\ job'.tip = job.tip /\ job'.settling = job.settling /\ job'.holds = job.holds
        /\ job'.pc = "mark" \/ (job.pc = "announce" /\ job'.pc = "store")
    BY <1>1, <1>7 DEF FetchList, Announce, At, JobRecord
  <2>2. UNCHANGED <<chain, stored, memory, netted>>
    BY <1>7 DEF FetchList, Announce, history
  <2> QED
    BY <2>1, <2>2, NothingNetted DEF chain, stored, memory, Netting, Current
<1>8. CASE StoreSnapshot
  <2>1. job'.pc = "idle" /\ job'.settling = FALSE /\ job'.holds = {}
    BY <1>8 DEF StoreSnapshot, Idle
  <2>2. held' = job.holds /\ UNCHANGED <<chain, markedEpoch, settling, credits, creditEpoch, history>>
    BY <1>8 DEF StoreSnapshot
  <2> QED
    BY <2>1, <2>2, NothingNetted DEF chain, history
<1>9. CASE Restart
  <2>1. job'.pc = "idle" /\ job'.settling = FALSE /\ job'.holds = {}
    BY <1>9 DEF Restart, Idle
  <2>2. settling' = FALSE /\ held' = {} /\ creditEpoch' = NoEpoch
    BY <1>9 DEF Restart, Forget
  <2>3. UNCHANGED <<world, credited, markedEpoch, netted>>
    BY <1>9 DEF Restart, chain, stored, history
  <2> QED
    BY <2>1, <2>2, <2>3 DEF Netting, Current, Ledger, CreditNettedOnce
<1>10. CASE Reset \/ Rebaseline \/ MarkAgain
  BY <1>10 DEF Reset, Rebaseline, MarkAgain, Disturbed, Tame
<1> QED
  BY <1>2, <1>3, <1>4, <1>5, <1>6, <1>7, <1>8, <1>9, <1>10, RollNets, MarkNets, FetchNets,
     CompareNets DEF Next, Poll

LEMMA NextInv ==
    ASSUME IInv, [Next]_vars
    PROVE  IInv'
<1>1. TypeOK' /\ PollSound'
  BY NextTyped, PollSoundKept DEF IInv
<1>2. world' = world
  BY DEF Next, Pay, Roll, Land, WindowEnds, Poll, StartPoll, FetchList, Rebaseline, MarkEpoch,
         MarkAgain, FetchCredits, Compare, Announce, StoreSnapshot, Restart, Reset, chain, vars
<1>3. ASSUME Tame'
      PROVE  Current' /\ Ledger' /\ CreditNettedOnce' /\ InHand'
  BY <1>2, <1>3, NextNets, InHandKept DEF IInv, Tame, Netting
<1> QED
  BY <1>1, <1>3 DEF IInv

LEMMA InvHolds == Spec => []IInv
BY InitInv, NextInv, PTL DEF Spec

\* The state stays within its types: a poll's changes are whole numbers, what was
\* subtracted is never negative, and no poll has an epoch the chain did not reach.
THEOREM StakeMovesTyped == Spec => []TypeOK
BY InvHolds, PTL DEF IInv

\* "Netting the same credit again on a later poll would hide the next real movement"
\* (read-model.js, refreshNotifications): what is subtracted for an epoch is never
\* more than it credited, over any number of polls, holds, rolls and restarts.
THEOREM CreditSpentOnce == Spec => []CreditNettedOnce
<1>1. IInv => CreditNettedOnce
  BY DEF IInv, Tame, CreditNettedOnce
<1> QED
  BY <1>1, InvHolds, PTL

-----------------------------------------------------------------------------
(* Surroundings that at most restart the application: a poll and the chain *)
(* keep in step.                                                           *)

Plain == world.disturb \subseteq {"restart"}

Past == {"credits", "compare", "announce", "store"}
Listed == Past \cup {"mark"}

\* A poll has the chain's epoch and settles when the application does, which it
\* does in an epoch it has stored.
InStep ==
    /\ settling => markedEpoch = epoch /\ epoch # 1
    /\ job.pc # "idle" => job.tip = epoch /\ job.settling = settling
    /\ job.pc \in Past => markedEpoch = epoch
    /\ creditEpoch \in {NoEpoch, markedEpoch}

LEMMA HistoryStays ==
    ASSUME TypeOK, [Next]_vars
    PROVE  /\ world' = world /\ epoch <= epoch' /\ epoch \in Nat
           /\ \A e \in 1..epoch : credited'[e] = credited[e]
<1>1. epoch \in 1..MaxEpoch /\ credited \in [1..MaxEpoch -> [Accounts -> Nat]]
  BY DEF TypeOK, Epochs
<1>2. ASSUME NEW reward \in [Accounts -> Credits], Roll(reward)
      PROVE  /\ world' = world /\ epoch <= epoch'
             /\ \A e \in 1..epoch : credited'[e] = credited[e]
  BY <1>1, <1>2, BoundsAssumption DEF Roll, Epochs
<1>3. ASSUME UNCHANGED <<world, epoch, credited>>
      PROVE  /\ world' = world /\ epoch <= epoch'
             /\ \A e \in 1..epoch : credited'[e] = credited[e]
  BY <1>1, <1>3
<1>4. ASSUME NEW s, NEW n, Pay(s, n) \/ Land(s, n)
      PROVE  UNCHANGED <<world, epoch, credited>>
  BY <1>4 DEF Pay, Land
<1>5. ASSUME WindowEnds \/ Poll \/ Restart \/ Reset \/ UNCHANGED vars
      PROVE  UNCHANGED <<world, epoch, credited>>
  BY <1>5 DEF WindowEnds, Poll, StartPoll, FetchList, Rebaseline, MarkEpoch, MarkAgain,
         FetchCredits, Compare, Announce, StoreSnapshot, Restart, Reset, chain, vars
<1> QED
  BY <1>1, <1>2, <1>3, <1>4, <1>5 DEF Next

\* A step that neither rolls nor moves the poll, or ends it.
LEMMA InStepStays ==
    ASSUME TypeOK, InStep, UNCHANGED <<epoch, markedEpoch>>,
           creditEpoch' \in {creditEpoch, NoEpoch},
           \/ job' = job /\ settling' = settling
           \/ job'.pc = "idle" /\ (settling' => settling)
    PROVE  InStep'
BY DEF InStep, Past

LEMMA InStepKept ==
    ASSUME TypeOK, PollSound, Plain, InStep, [Next]_vars
    PROVE  InStep'
<1>1. /\ job \in JobRecord /\ epoch \in Epochs /\ markedEpoch \in Epochs
      /\ settling \in BOOLEAN /\ \A e \in Epochs : e \in Int
  BY ZeroFacts DEF TypeOK, JobRecord, Steps
<1>2. ASSUME NEW s \in world.movers, NEW n \in world.sizes, Pay(s, n)
      PROVE  InStep'
  BY <1>2, InStepStays DEF Pay, stored, memory
<1>3. ASSUME NEW reward \in [Accounts -> Credits], Roll(reward)
      PROVE  InStep'
  <2>1. /\ ~settling /\ job.pc = "idle" /\ UNCHANGED <<markedEpoch, settling, creditEpoch, job>>
    BY <1>3 DEF Roll, Plain, At, stored, memory
  <2> QED
    BY <2>1 DEF InStep, Past
<1>4. ASSUME NEW s \in Accounts, NEW n \in 1..due[s], Land(s, n)
      PROVE  InStep'
  BY <1>4, InStepStays DEF Land, stored, memory
<1>5. CASE WindowEnds
  BY <1>5, InStepStays DEF WindowEnds, At, chain, stored
<1>6. CASE StartPoll
  <2>1. job'.pc = "list" /\ job'.tip = epoch /\ job'.settling = settling
    BY <1>6 DEF StartPoll, Idle
  <2> QED
    BY <1>6, <2>1 DEF StartPoll, InStep, Past, chain, stored, memory
<1>7. CASE FetchList \/ Announce
  <2>1. /\ job'.tip = job.tip /\ job'.settling = job.settling /\ job.pc # "idle"
        /\ job'.pc = "mark" \/ (job.pc = "announce" /\ job'.pc = "store")
    BY <1>1, <1>7 DEF FetchList, Announce, At, JobRecord
  <2>2. UNCHANGED <<epoch, stored, memory>>
    BY <1>7 DEF FetchList, Announce, chain
  <2> QED
    BY <2>1, <2>2 DEF InStep, Past, stored, memory
<1>8. CASE MarkEpoch
  <2>1. /\ job.pc = "mark" /\ job.tip = epoch /\ job.settling = settling
        /\ UNCHANGED epoch
    BY <1>8 DEF MarkEpoch, At, InStep, chain
  <2>2. CASE job.tip # markedEpoch
    <3>1. markedEpoch' = job.tip /\ settling' = TRUE /\ creditEpoch' = NoEpoch
      BY <1>8, <2>2 DEF MarkEpoch, Stored, Disturbed, Plain
    <3>2. job'.pc = "credits" /\ job'.tip = job.tip /\ job'.settling = TRUE
      BY <1>1, <1>8, <2>2 DEF MarkEpoch, JobRecord
    <3>3. epoch # 1
      BY <1>1, <2>1, <2>2 DEF PollSound, Epochs
    <3> QED
      BY <2>1, <3>1, <3>2, <3>3 DEF InStep
  <2>3. CASE job.tip = markedEpoch
    <3>1. /\ UNCHANGED <<markedEpoch, settling, creditEpoch>>
          /\ job'.pc = "credits" /\ job'.tip = job.tip /\ job'.settling = (job.settling /\ settling)
      BY <1>1, <1>8, <2>3 DEF MarkEpoch, JobRecord
    <3> QED
      BY <1>1, <2>1, <2>3, <3>1 DEF InStep
  <2> QED
    BY <2>2, <2>3
<1>9. CASE FetchCredits
  <2>1. /\ job'.tip = job.tip /\ job'.settling = job.settling /\ job.pc = "credits"
        /\ job'.pc = "compare" /\ UNCHANGED <<epoch, markedEpoch, settling>>
        /\ creditEpoch' \in {creditEpoch, job.tip}
    BY <1>1, <1>9 DEF FetchCredits, At, JobRecord, chain, stored
  <2> QED
    BY <2>1 DEF InStep, Past
<1>10. CASE Compare
  <2>1. /\ job'.tip = job.tip /\ job'.settling = job.settling /\ job.pc = "compare"
        /\ job'.pc = "announce" /\ UNCHANGED <<epoch, markedEpoch, settling, creditEpoch>>
    BY <1>1, <1>10, CompareMeans DEF JobRecord, chain, stored
  <2> QED
    BY <2>1 DEF InStep, Past
<1>11. CASE StoreSnapshot
  <2>1. job'.pc = "idle" /\ UNCHANGED <<epoch, markedEpoch, settling, creditEpoch>>
    BY <1>11, ZeroFacts DEF StoreSnapshot, chain
  <2> QED
    BY <2>1, InStepStays
<1>12. CASE Restart
  <2>1. job'.pc = "idle" /\ UNCHANGED <<epoch, markedEpoch>> /\ settling' = FALSE
        /\ creditEpoch' = NoEpoch
    BY <1>12, ZeroFacts DEF Restart, Forget, chain, stored
  <2> QED
    BY <2>1, InStepStays
<1>13. CASE Reset \/ Rebaseline \/ MarkAgain
  BY <1>13 DEF Reset, Rebaseline, MarkAgain, Disturbed, Plain
<1>14. CASE UNCHANGED vars
  BY <1>14, InStepStays DEF vars, chain, stored, memory
<1> QED
  BY <1>2, <1>3, <1>4, <1>5, <1>6, <1>7, <1>8, <1>9, <1>10, <1>11, <1>12, <1>13, <1>14
     DEF Next, Poll
-----------------------------------------------------------------------------
(* Surroundings without reward data.                                       *)

\* The change as it is, less a credit that it contains.
LEMMA SettleMeans ==
    ASSUME NEW d \in Int, NEW credit \in Nat, d >= 0 \/ credit = 0
    PROVE  Settle(d + credit, credit)
             = Verdict(IF Abs(d) >= Threshold THEN "emit" ELSE "absorb", d, credit)
<1> DEFINE net == IF credit > 0 /\ d + credit > 0 THEN AtLeastZero((d + credit) - credit)
                  ELSE d + credit
<1>1. net = d
  <2>1. CASE credit = 0
    BY <2>1
  <2>2. CASE credit > 0 /\ d >= 0
    BY <2>2 DEF AtLeastZero
  <2> QED
    BY <2>1, <2>2
<1>2. Settle(d + credit, credit)
        = Verdict(IF Abs(net) >= Threshold THEN "emit" ELSE "absorb", net, credit)
  BY Zenon DEF Settle
<1> HIDE DEF net
<1> QED
  BY <1>1, <1>2

\* Outside the window a change is what it is; in it nothing is judged without credits.
LEMMA PlainVerdict ==
    ASSUME TypeOK, NEW s \in Accounts, ~Pending(s)
    PROVE  LET d == job.list[s] - snapshot[s]
           IN  VerdictOf(s) = Verdict(IF Abs(d) >= Threshold THEN "emit" ELSE "absorb", d, 0)
<1> DEFINE d == job.list[s] - snapshot[s]
<1>1. d \in Int /\ d + 0 = d
  BY DEF TypeOK, Amount, Amounts
<1>2. VerdictOf(s) = Classify(d, 0, job.known, FALSE, FALSE)
  BY DEF VerdictOf, Credit, Pending, TypeOK
<1>3. VerdictOf(s) = Settle(d, 0)
  BY <1>2, Zenon DEF Classify
<1> HIDE DEF d
<1>4. Settle(d + 0, 0) = Verdict(IF Abs(d) >= Threshold THEN "emit" ELSE "absorb", d, 0)
  BY <1>1, SettleMeans
<1>5. VerdictOf(s) = Verdict(IF Abs(d) >= Threshold THEN "emit" ELSE "absorb", d, 0)
  BY <1>1, <1>3, <1>4
<1> QED
  BY <1>5, Zenon DEF d

LEMMA PausedVerdict ==
    ASSUME NEW s \in Accounts, Pending(s), ~job.known
    PROVE  VerdictOf(s) = Verdict("skip", 0, 0)
BY Zenon DEF VerdictOf, Classify

Uncredited == creditEpoch = NoEpoch /\ held = {} /\ job.holds = {}

LEMMA UncreditedKept ==
    ASSUME TypeOK, Plain, InStep, InHand, Uncredited, world.credits = "none", [Next]_vars
    PROVE  Uncredited'
<1>1. job \in JobRecord /\ NoEpoch \notin Epochs /\ epoch \in Epochs
  BY ZeroFacts DEF TypeOK, JobRecord, Steps
<1>2. ASSUME UNCHANGED <<creditEpoch, held>>, job'.holds = job.holds
      PROVE  Uncredited'
  BY <1>2 DEF Uncredited
<1>3. ASSUME NEW s, NEW n, Pay(s, n) \/ Land(s, n)
      PROVE  Uncredited'
  BY <1>2, <1>3 DEF Pay, Land, memory
<1>4. ASSUME NEW reward, Roll(reward)
      PROVE  Uncredited'
  BY <1>2, <1>4 DEF Roll, memory
<1>5. CASE WindowEnds \/ UNCHANGED vars
  BY <1>2, <1>5 DEF WindowEnds, vars, memory
<1>6. CASE StartPoll
  BY <1>6 DEF StartPoll, Idle, Uncredited, memory
<1>7. CASE FetchList \/ Announce
  BY <1>1, <1>2, <1>7 DEF FetchList, Announce, JobRecord, memory
<1>8. CASE MarkEpoch
  <2>1. job'.holds = job.holds
    BY <1>1, <1>8 DEF MarkEpoch, JobRecord
  <2> QED
    BY <1>8, <2>1 DEF MarkEpoch, Uncredited
<1>9. CASE FetchCredits
  <2>1. job'.holds = job.holds
    BY <1>1, <1>9 DEF FetchCredits, JobRecord
  <2> QED
    BY <1>2, <1>9, <2>1 DEF FetchCredits, Known
<1>10. CASE Compare
  <2>1. ~job.known
    BY <1>1, <1>10, CompareMeans DEF InStep, Uncredited, InHand, At
  <2>2. \A s \in Accounts : VerdictOf(s).action # "hold"
    BY <2>1, VerdictFacts DEF VerdictSound
  <2>3. job'.holds = {s \in Accounts : VerdictOf(s).action = "hold"}
    BY <1>1, <1>10, CompareMeans DEF JobRecord
  <2> QED
    BY <1>10, <2>2, <2>3, CompareMeans DEF Uncredited
<1>11. CASE StoreSnapshot
  BY <1>11 DEF StoreSnapshot, Idle, Uncredited
<1>12. CASE Restart \/ Reset
  BY <1>12 DEF Restart, Reset, Forget, Idle, Uncredited
<1>13. CASE Rebaseline \/ MarkAgain
  BY <1>13 DEF Rebaseline, MarkAgain, Disturbed, Plain
<1> QED
  BY <1>13, <1>3, <1>4, <1>5, <1>6, <1>7, <1>8, <1>9, <1>10, <1>11, <1>12 DEF Next, Poll

-----------------------------------------------------------------------------
(* The window as a blanket pause.                                          *)

\* The account's baseline is its live figure, and no reward is on its way.
AtPar(s) ==
    due[s] = 0 /\ snapshot[s] = Live(s) /\ (job.pc \in Listed => job.list[s] = snapshot[s])

\* Outside the window, and with no roll unseen, an account that moved nothing is
\* where its baseline is, if it was when each window ended.
SilentInWindow ==
    \A s \in Accounts \ late : moves[s] = 0 =>
        /\ told[s] = 0 /\ job.report[s] = 0
        /\ ~settling /\ markedEpoch = epoch => AtPar(s)

\* No step takes a movement back.
LEMMA MovesStay ==
    ASSUME TypeOK, NEW s \in Accounts, [Next]_vars, moves'[s] = 0
    PROVE  moves[s] = 0
<1>1. moves \in [Accounts -> Nat]
  BY BoundsAssumption DEF TypeOK
<1>2. ASSUME NEW t \in world.movers, NEW n \in world.sizes, Pay(t, n)
      PROVE  moves[s] = 0
  BY <1>1, <1>2, WorldFacts DEF Pay
<1>3. ASSUME UNCHANGED moves
      PROVE  moves[s] = 0
  BY <1>3
<1>4. ASSUME NEW t, NEW n, Land(t, n)
      PROVE  UNCHANGED moves
  BY <1>4 DEF Land
<1>5. ASSUME NEW reward, Roll(reward)
      PROVE  UNCHANGED moves
  BY <1>5 DEF Roll
<1>6. ASSUME WindowEnds \/ Poll \/ Restart \/ Reset \/ UNCHANGED vars
      PROVE  UNCHANGED moves
  BY <1>6 DEF WindowEnds, Poll, StartPoll, FetchList, Rebaseline, MarkEpoch, MarkAgain,
         FetchCredits, Compare, Announce, StoreSnapshot, Restart, Reset, chain, vars
<1> QED
  BY <1>2, <1>3, <1>4, <1>5, <1>6 DEF Next

\* What a window ended on stays on record.
LEMMA LateStays ==
    ASSUME [Next]_vars
    PROVE  late \subseteq late'
<1>1. ASSUME NEW s, NEW n, Pay(s, n) \/ Land(s, n)
      PROVE  late' = late
  BY <1>1 DEF Pay, Land, history
<1>2. ASSUME NEW reward, Roll(reward)
      PROVE  late' = late
  BY <1>2 DEF Roll, history
<1>3. CASE WindowEnds
  BY <1>3 DEF WindowEnds
<1>4. CASE Compare
  BY <1>4 DEF Compare
<1>5. ASSUME Poll \/ Restart \/ Reset \/ UNCHANGED vars, ~Compare
      PROVE  late' = late
  BY <1>5 DEF Poll, StartPoll, FetchList, Rebaseline, MarkEpoch, MarkAgain, FetchCredits,
     Announce, StoreSnapshot, Restart, Reset, vars, history
<1> QED
  BY <1>1, <1>2, <1>3, <1>4, <1>5 DEF Next

LEMMA SilentInWindowKept ==
    ASSUME TypeOK, PollSound, InStep, InHand, Uncredited, Paused, SilentInWindow, [Next]_vars
    PROVE  SilentInWindow'
<1>0. SUFFICES ASSUME NEW s \in Accounts \ late', moves'[s] = 0
               PROVE  /\ told'[s] = 0 /\ job'.report[s] = 0
                      /\ ~settling' /\ markedEpoch' = epoch' => AtPar(s)'
  BY DEF SilentInWindow
<1>1. s \in Accounts /\ s \notin late /\ s \notin late' /\ moves[s] = 0 /\ moves'[s] = 0
  BY <1>0, MovesStay, LateStays
<1>2. /\ job \in JobRecord /\ NoEpoch \notin Epochs /\ epoch \in Nat /\ markedEpoch \in Nat
      /\ told[s] = 0 /\ job.report[s] = 0
      /\ ~settling /\ markedEpoch = epoch => AtPar(s)
      /\ paid \in [Accounts -> Int] /\ landed \in [Accounts -> Int] /\ due \in [Accounts -> Nat]
      /\ settling \in BOOLEAN /\ Idle.pc = "idle" /\ Idle.report[s] = 0
  BY <1>1, ZeroFacts DEF TypeOK, JobRecord, Steps, SilentInWindow, Epochs, Amount, Amounts,
     Idle, Zero
<1>3. ASSUME NEW t \in world.movers, NEW n \in world.sizes, Pay(t, n)
      PROVE  /\ told'[s] = 0 /\ job'.report[s] = 0
             /\ ~settling' /\ markedEpoch' = epoch' => AtPar(s)'
  <2>1. t # s
    BY <1>1, <1>3, BoundsAssumption, WorldFacts DEF Pay, TypeOK
  <2>2. paid'[s] = paid[s] /\ UNCHANGED <<landed, due, epoch, stored, memory, job, history>>
    BY <1>2, <1>3, <2>1 DEF Pay
  <2> QED
    BY <1>2, <2>2 DEF AtPar, Live, stored, memory, history
<1>4. ASSUME NEW reward \in [Accounts -> Credits], Roll(reward)
      PROVE  /\ told'[s] = 0 /\ job'.report[s] = 0
             /\ ~settling' /\ markedEpoch' = epoch' => AtPar(s)'
  <2>1. markedEpoch' # epoch' /\ UNCHANGED <<told, job>>
    BY <1>2, <1>4 DEF Roll, PollSound, stored, history
  <2> QED
    BY <1>2, <2>1
<1>5. ASSUME NEW t \in Accounts, NEW n \in 1..due[t], Land(t, n)
      PROVE  /\ told'[s] = 0 /\ job'.report[s] = 0
             /\ ~settling' /\ markedEpoch' = epoch' => AtPar(s)'
  <2>1. UNCHANGED <<paid, epoch, stored, memory, job, history>>
    BY <1>5 DEF Land
  <2>2. ASSUME ~settling, markedEpoch = epoch
        PROVE  due'[s] = due[s] /\ landed'[s] = landed[s]
    <3>1. t # s
      BY <1>2, <1>5, <2>2 DEF AtPar
    <3> QED
      BY <1>2, <1>5, <3>1 DEF Land
  <2> QED
    BY <1>2, <2>1, <2>2 DEF AtPar, Live, stored, memory, history
<1>6. CASE WindowEnds
  <2>1. /\ due[s] = 0 /\ snapshot[s] = Live(s) /\ job.pc = "idle"
        /\ UNCHANGED <<chain, stored, job, told>>
    BY <1>1, <1>6 DEF WindowEnds, Unsettled, At
  <2> QED
    BY <1>2, <2>1 DEF AtPar, Live, Listed, Past, chain, stored
<1>7. CASE StartPoll
  <2>1. job'.pc = "list" /\ job'.report[s] = 0 /\ UNCHANGED <<chain, stored, memory, history>>
    BY <1>2, <1>7 DEF StartPoll, Idle
  <2> QED
    BY <1>2, <2>1 DEF AtPar, Live, Listed, Past, chain, stored, memory, history
<1>8. CASE FetchList
  <2>1. /\ job'.report = job.report /\ job'.list[s] = Live(s)
        /\ UNCHANGED <<chain, stored, memory, history>>
    BY <1>2, <1>8 DEF FetchList, JobRecord
  <2> QED
    BY <1>2, <2>1 DEF AtPar, Live, chain, stored, memory, history
<1>9. CASE MarkEpoch
  <2>1. /\ job'.report = job.report /\ job'.list = job.list /\ job.pc = "mark"
        /\ UNCHANGED <<chain, snapshot, history>>
    BY <1>2, <1>9 DEF MarkEpoch, At, JobRecord
  <2>2. settling' \/ UNCHANGED <<markedEpoch, settling>>
    BY <1>9 DEF MarkEpoch
  <2> QED
    BY <1>2, <2>1, <2>2 DEF AtPar, Live, Listed, chain, history
<1>10. CASE FetchCredits
  <2>1. /\ job'.report = job.report /\ job'.list = job.list /\ job.pc = "credits"
        /\ UNCHANGED <<chain, stored, settling, history>>
    BY <1>2, <1>10 DEF FetchCredits, At, JobRecord
  <2> QED
    BY <1>2, <2>1 DEF AtPar, Live, Listed, Past, chain, stored, history
<1>11. CASE Compare
  <2>1. /\ job'.list = job.list /\ job'.report[s] = Reported(s) /\ job.pc = "compare"
        /\ UNCHANGED <<chain, stored, settling, told>>
    BY <1>2, <1>11, CompareJob, CompareMeans
  <2>2. /\ job.tip = epoch /\ job.settling = settling /\ markedEpoch = epoch
        /\ held = {} /\ ~job.known
    BY <1>2, <2>1 DEF InStep, InHand, At, Past, Uncredited, TypeOK
  <2>3. VerdictOf(s).net = 0
    <3>1. CASE settling
      <4>1. VerdictOf(s) = Verdict("skip", 0, 0)
        BY <2>2, <3>1, PausedVerdict DEF Pending
      <4> QED
        BY <4>1 DEF Verdict
    <3>2. CASE ~settling
      <4> DEFINE d == job.list[s] - snapshot[s]
      <4>1. VerdictOf(s) = Verdict(IF Abs(d) >= Threshold THEN "emit" ELSE "absorb", d, 0)
        BY <2>2, <3>2, PlainVerdict DEF Pending
      <4>2. d = 0
        BY <1>2, <2>1, <2>2, <3>2 DEF AtPar, Listed, Past, TypeOK, Amount, Amounts
      <4> QED
        BY <4>1, <4>2 DEF Verdict
    <3> QED
      BY <3>1, <3>2
  <2>4. job'.report[s] = 0
    BY <2>1, <2>3 DEF Reported
  <2> QED
    BY <1>2, <2>1, <2>4 DEF AtPar, Live, Listed, Past, chain, stored
<1>12. CASE Announce
  <2>1. /\ job'.list = job.list /\ job'.report = job.report /\ job.pc = "announce"
        /\ told'[s] = told[s] + job.report[s] /\ UNCHANGED <<chain, stored, memory>>
    BY <1>2, <1>12 DEF Announce, At, JobRecord
  <2> QED
    BY <1>2, <2>1 DEF AtPar, Live, Listed, Past, chain, stored, memory
<1>13. CASE StoreSnapshot
  <2>1. /\ job.pc = "store" /\ job'.pc = "idle" /\ job'.report[s] = 0
        /\ UNCHANGED <<chain, markedEpoch, settling, history>>
    BY <1>2, <1>13 DEF StoreSnapshot, At
  <2>2. snapshot'[s] = job.list[s]
    BY <1>13 DEF StoreSnapshot, Stored, Disturbed, Paused, Baseline, Uncredited
  <2> QED
    BY <1>2, <2>1, <2>2 DEF AtPar, Live, Listed, Past, chain, history
<1>14. CASE Restart \/ Reset \/ Rebaseline \/ MarkAgain
  BY <1>14 DEF Restart, Reset, Rebaseline, MarkAgain, Disturbed, Paused
<1>15. CASE UNCHANGED vars
  BY <1>2, <1>15 DEF vars, AtPar, Live, chain, stored, memory, history
<1> QED
  BY <1>3, <1>4, <1>5, <1>6, <1>7, <1>8, <1>9, <1>10, <1>11, <1>12, <1>13, <1>14, <1>15
     DEF Next, Poll
-----------------------------------------------------------------------------
(* The circuit breaker behind a window that a restart forgot.              *)

Figures == [s \in Accounts |-> Live(s)]

\* The figures hold some roll's rewards, which the snapshot does not.
Swollen(figures) ==
    \E e \in 2..epoch : \A s \in Accounts : snapshot[s] + credited[e][s] <= figures[s]

\* Only payments show against the snapshot.
Still == \A s \in Accounts : moves[s] = 0 => snapshot[s] = Live(s)

\* Figures only rise, so an unseen roll stays visible in all that it credited, and
\* a poll that has taken the list sees it or stores it.
BreakerInv ==
    /\ due = Zero
    /\ \A s \in Accounts :
         /\ snapshot[s] <= Live(s)
         /\ job.pc \in Listed => job.list[s] <= Live(s)
         /\ moves[s] = 0 => /\ told[s] = 0 /\ job.report[s] = 0
                            /\ job.pc \in Listed => job.list[s] = Live(s)
    /\ Still \/ Swollen(Figures)
    /\ job.pc \in Listed => Still \/ Swollen(job.list)

LEMMA MassLimitTyped == MassLimit \in Int
<1> DEFINE limit == (Cardinality(Accounts) + 4) \div 5
           S == {MassFloor, limit}
<1>1. Cardinality(Accounts) \in Nat
  BY AccountsAssumption, FS_CardinalityType
<1>2. limit \in Int /\ MassFloor \in Int
  BY <1>1, CreditsAssumption
<1> HIDE DEF limit
<1>3. \E x \in S : \A y \in S : x >= y
  BY <1>2
<1>4. Max(S) \in S
  BY <1>3 DEF Max
<1>5. Max(S) \in Int
  BY <1>2, <1>4
<1> QED
  BY <1>5 DEF MassLimit, limit

\* More accounts than it lets pass stop the breaker.
LEMMA BreakerTrips ==
    ASSUME TypeOK, Breaks, NEW e \in 2..epoch, \A s \in Accounts : ~Pending(s),
           \A s \in Accounts : snapshot[s] + credited[e][s] <= job.list[s]
    PROVE  Cardinality(Emits) > MassLimit
<1> DEFINE S == {s \in Accounts : credited[e][s] >= Threshold}
<1>1. S \subseteq Emits
  <2> SUFFICES ASSUME NEW s \in S
               PROVE  s \in Emits
    OBVIOUS
  <2> DEFINE d == job.list[s] - snapshot[s]
  <2>1. /\ job.list[s] \in Int /\ snapshot[s] \in Int /\ credited[e][s] \in Nat
        /\ credited[e][s] >= Threshold /\ Threshold \in Nat
    <3>1. e \in Epochs
      BY BoundsAssumption DEF TypeOK, Epochs
    <3> QED
      BY <3>1, ThresholdAssumption DEF TypeOK, Amount, Amounts
  <2>2. Abs(d) >= Threshold
    BY <2>1 DEF Abs
  <2>3. VerdictOf(s) = Verdict(IF Abs(d) >= Threshold THEN "emit" ELSE "absorb", d, 0)
    BY PlainVerdict
  <2> HIDE DEF d
  <2> QED
    BY <2>2, <2>3 DEF Verdict, Emits
<1>2. IsFiniteSet(Emits)
  BY AccountsAssumption, FS_Subset DEF Emits
<1>3. Cardinality(S) <= Cardinality(Emits) /\ Cardinality(S) \in Nat /\ Cardinality(Emits) \in Nat
  BY <1>1, <1>2, FS_Subset, FS_CardinalityType
<1>4. Cardinality(S) > MassLimit
  BY DEF Breaks
<1> HIDE DEF S
<1> QED
  BY <1>3, <1>4, MassLimitTyped

\* A step that leaves figures and snapshot alone.
LEMMA BreakerStays ==
    ASSUME BreakerInv, UNCHANGED <<chain, snapshot, told>>,
           job'.pc \in Listed => job.pc \in Listed /\ job'.list = job.list,
           \A s \in Accounts : moves[s] = 0 => job'.report[s] = 0
    PROVE  BreakerInv'
<1>1. /\ \A s : Live(s)' = Live(s)
      /\ UNCHANGED <<epoch, moves, due, credited, snapshot, told>>
  BY DEF chain, Live
<1>2. Figures' = Figures
  BY <1>1 DEF Figures
<1>3. (Still <=> Still') /\ \A f : Swollen(f) => Swollen(f)'
  BY <1>1 DEF Still, Swollen
<1> QED
  BY <1>1, <1>2, <1>3 DEF BreakerInv

LEMMA BreakerKept ==
    ASSUME TypeOK, PollSound, InStep, InHand, Uncredited, Breaks, BreakerInv, [Next]_vars
    PROVE  BreakerInv'
<1>1. /\ job \in JobRecord /\ NoEpoch \notin Epochs /\ epoch \in Nat /\ epoch >= 1
      /\ paid \in [Accounts -> Int] /\ landed \in [Accounts -> Int]
      /\ snapshot \in [Accounts -> Int] /\ job.list \in [Accounts -> Int]
      /\ credited \in [Epochs -> [Accounts -> Nat]]
      /\ \A s \in Accounts : Live(s) \in Int
      /\ \A s \in Accounts : Idle.report[s] = 0 /\ Zero[s] = 0
  BY ZeroFacts DEF TypeOK, JobRecord, Steps, Epochs, Amount, Amounts, Idle, Zero, Live
<1>2. ASSUME NEW t \in world.movers, NEW n \in world.sizes, Pay(t, n)
      PROVE  BreakerInv'
  <2>1. n \in Nat /\ t \in Accounts
    BY WorldFacts DEF Breaks
  <2>2. /\ paid' = [paid EXCEPT ![t] = @ + n] /\ moves' = [moves EXCEPT ![t] = @ + 1]
        /\ UNCHANGED <<epoch, due, landed, credited, snapshot, job, told>>
    BY <1>2 DEF Pay, stored, history
  <2>3. \A s \in Accounts : Live(s)' \in Int /\ Live(s) <= Live(s)' /\ (s # t => Live(s)' = Live(s))
    BY <1>1, <2>1, <2>2 DEF Live
  <2>4. \A s \in Accounts : moves'[s] = 0 => moves[s] = 0 /\ s # t
    BY <2>1, <2>2, BoundsAssumption DEF TypeOK
  <2>5. Still => Still'
    BY <2>2, <2>3, <2>4 DEF Still
  <2>6. Swollen(Figures) => Swollen(Figures)'
    <3> SUFFICES ASSUME NEW e \in 2..epoch,
                        \A s \in Accounts : snapshot[s] + credited[e][s] <= Figures[s]
                 PROVE  \A s \in Accounts : snapshot'[s] + credited'[e][s] <= Figures'[s]
      BY <2>2 DEF Swollen
    <3>1. e \in Epochs
      <4>1. epoch \in 1..MaxEpoch /\ MaxEpoch \in Nat
        BY BoundsAssumption DEF TypeOK, Epochs
      <4> QED
        BY <4>1 DEF Epochs
    <3>2. \A s \in Accounts : snapshot[s] \in Int /\ credited[e][s] \in Nat
      BY <1>1, <3>1
    <3> QED
      BY <1>1, <2>2, <2>3, <3>2 DEF Figures
  <2>7. \A f : Swollen(f) => Swollen(f)'
    BY <2>2 DEF Swollen
  <2>8. \A s \in Accounts : /\ snapshot[s] <= Live(s)'
                            /\ job.pc \in Listed => job.list[s] <= Live(s)'
    BY <1>1, <2>3 DEF BreakerInv
  <2> QED
    BY <2>2, <2>3, <2>4, <2>5, <2>6, <2>7, <2>8 DEF BreakerInv
<1>3. ASSUME NEW reward \in [Accounts -> Credits], Roll(reward)
      PROVE  BreakerInv'
  <2>1. /\ job.pc = "idle" /\ epoch' = epoch + 1 /\ reward \in [Accounts -> Nat]
        /\ landed' = [s \in Accounts |-> landed[s] + reward[s]]
        /\ UNCHANGED <<paid, moves, due, snapshot, job, told>>
    BY <1>3, CreditsAssumption DEF Roll, Breaks, At, stored, history
  <2>2. epoch + 1 \in Epochs /\ credited'[epoch + 1] = reward
    <3>1. epoch < world.last /\ credited' = [credited EXCEPT ![epoch + 1] = reward]
      BY <1>3 DEF Roll
    <3>2. epoch \in 1..MaxEpoch /\ world.last \in 1..MaxEpoch /\ MaxEpoch \in Nat
      BY WorldFacts, BoundsAssumption DEF TypeOK, Epochs
    <3>3. epoch + 1 \in Epochs
      BY <3>1, <3>2 DEF Epochs
    <3> QED
      BY <1>1, <3>1, <3>3
  <2>3. \A s \in Accounts : Live(s)' = Live(s) + reward[s]
    BY <1>1, <2>1 DEF Live
  <2>4. \A s \in Accounts : snapshot[s] + reward[s] <= Live(s)'
    BY <1>1, <2>1, <2>3 DEF BreakerInv
  <2>5. Swollen(Figures)'
    BY <1>1, <2>1, <2>2, <2>4 DEF Swollen, Figures
  <2>6. \A s \in Accounts : snapshot[s] <= Live(s)'
    BY <1>1, <2>1, <2>3 DEF BreakerInv
  <2> QED
    BY <2>1, <2>5, <2>6 DEF BreakerInv, Listed, Past
<1>4. ASSUME NEW t \in Accounts, NEW n \in 1..due[t], Land(t, n)
      PROVE  BreakerInv'
  BY <1>1, <1>4 DEF BreakerInv
<1>5. CASE WindowEnds \/ UNCHANGED vars
  BY <1>5, BreakerStays DEF WindowEnds, vars, chain, stored, history, BreakerInv
<1>6. CASE StartPoll
  <2>1. job'.pc = "list" /\ job'.report = Idle.report /\ UNCHANGED <<chain, snapshot, told>>
    BY <1>6 DEF StartPoll, Idle, stored, history
  <2> QED
    BY <1>1, <2>1, BreakerStays DEF Listed, Past
<1>7. CASE FetchList
  <2>1. job' = [job EXCEPT !.pc = "mark", !.list = Figures] /\ UNCHANGED <<chain, stored, history>>
    BY <1>7 DEF FetchList, Figures
  <2>2. job'.list = Figures /\ job'.report = job.report
    BY <1>1, <2>1 DEF JobRecord
  <2>3. UNCHANGED <<epoch, moves, due, credited, snapshot, told>> /\ \A s : Live(s)' = Live(s)
    BY <2>1 DEF chain, stored, history, Live
  <2>4. Figures' = Figures /\ (Still <=> Still') /\ \A f : Swollen(f) => Swollen(f)'
    BY <2>3 DEF Figures, Still, Swollen
  <2>5. \A s \in Accounts : job'.list[s] = Live(s)
    BY <2>2 DEF Figures
  <2> QED
    BY <1>1, <2>2, <2>3, <2>4, <2>5 DEF BreakerInv
<1>8. CASE MarkEpoch \/ FetchCredits
  <2>1. /\ job'.report = job.report /\ job'.list = job.list /\ job.pc \in Listed
        /\ UNCHANGED <<chain, snapshot, told>>
    BY <1>1, <1>8 DEF MarkEpoch, FetchCredits, At, JobRecord, Listed, Past, stored, history
  <2> QED
    BY <2>1, BreakerStays DEF BreakerInv
<1>9. CASE Compare
  <2>1. /\ job'.list = job.list /\ job.pc = "compare" /\ UNCHANGED <<chain, stored, told>>
        /\ \A s \in Accounts : job'.report[s] = Reported(s)
    BY <1>1, <1>9, CompareJob, CompareMeans
  <2>2. job.tip = epoch /\ held = {} /\ ~job.known
    BY <1>1, <2>1 DEF InStep, InHand, At, Uncredited, TypeOK
  <2>3. ASSUME NEW s \in Accounts, moves[s] = 0
        PROVE  Reported(s) = 0
    <3> DEFINE d == job.list[s] - snapshot[s]
    <3>1. CASE job.settling
      <4>1. VerdictOf(s) = Verdict("skip", 0, 0)
        BY <2>2, <3>1, PausedVerdict DEF Pending
      <4> QED
        BY <4>1 DEF Verdict, Reported
    <3>2. CASE ~job.settling /\ Still
      <4>1. VerdictOf(s) = Verdict(IF Abs(d) >= Threshold THEN "emit" ELSE "absorb", d, 0)
        BY <2>2, <3>2, PlainVerdict DEF Pending
      <4>2. d = 0
        BY <1>1, <2>1, <2>3, <3>2 DEF BreakerInv, Still, Listed, Past
      <4> QED
        BY <4>1, <4>2 DEF Verdict, Reported
    <3>3. CASE ~job.settling /\ Swollen(job.list)
      <4>1. \A t \in Accounts : ~Pending(t)
        BY <2>2, <3>3 DEF Pending
      <4>2. Cardinality(Emits) > MassLimit
        BY <3>3, <4>1, BreakerTrips DEF Swollen
      <4> QED
        BY <4>2 DEF Reported
    <3> QED
      BY <2>1, <3>1, <3>2, <3>3 DEF BreakerInv, Listed, Past
  <2> QED
    BY <2>1, <2>3, BreakerStays DEF stored, Listed, Past
<1>10. CASE Announce
  <2>1. /\ job'.list = job.list /\ job'.report = job.report /\ job.pc \in Listed
        /\ UNCHANGED <<chain, snapshot>>
        /\ told' = [s \in Accounts |-> told[s] + job.report[s]]
    BY <1>1, <1>10 DEF Announce, At, JobRecord, Listed, Past, stored
  <2>2. UNCHANGED <<epoch, moves, due, credited, snapshot>> /\ \A s : Live(s)' = Live(s)
    BY <2>1 DEF chain, Live
  <2>3. Figures' = Figures /\ (Still <=> Still') /\ \A f : Swollen(f) => Swollen(f)'
    BY <2>2 DEF Figures, Still, Swollen
  <2>4. \A s \in Accounts : moves[s] = 0 => told'[s] = 0
    BY <2>1 DEF BreakerInv
  <2> QED
    BY <2>1, <2>2, <2>3, <2>4 DEF BreakerInv
<1>11. CASE StoreSnapshot
  <2>1. /\ job.pc = "store" /\ job' = Idle /\ UNCHANGED <<chain, told>>
    BY <1>11 DEF StoreSnapshot, At, history
  <2>2. \A s \in Accounts : snapshot'[s] = job.list[s]
    BY <1>11 DEF StoreSnapshot, Stored, Disturbed, Breaks, Baseline, Uncredited
  <2>3. UNCHANGED <<moves, due>> /\ \A s : Live(s)' = Live(s)
    BY <2>1 DEF chain, Live
  <2>4. Still'
    BY <2>1, <2>2, <2>3 DEF BreakerInv, Still, Listed, Past
  <2>5. \A s \in Accounts : snapshot'[s] <= Live(s)'
    BY <2>1, <2>2, <2>3 DEF BreakerInv, Listed, Past
  <2> QED
    BY <1>1, <2>1, <2>3, <2>4, <2>5, ZeroFacts DEF BreakerInv, Listed, Past
<1>12. CASE Restart
  BY <1>1, <1>12, ZeroFacts, BreakerStays DEF Restart, stored, history, Listed, Past
<1>13. CASE Reset \/ Rebaseline \/ MarkAgain
  BY <1>13 DEF Reset, Rebaseline, MarkAgain, Disturbed, Breaks
<1> QED
  BY <1>2, <1>3, <1>4, <1>5, <1>6, <1>7, <1>8, <1>9, <1>10, <1>11, <1>12, <1>13
     DEF Next, Poll

-----------------------------------------------------------------------------
(* Credits that are known at the roll and land with it.                    *)

\* The part of a reward in the figures that no change was netted with yet.
Rest(s) ==
    IF markedEpoch # epoch THEN credited[epoch][s]
    ELSE IF creditEpoch = epoch THEN credits[s]
    ELSE IF settling THEN credited[epoch][s] ELSE 0

Payment(n) == n = 0 \/ n >= Threshold

Unjudged == {"idle", "list", "mark", "credits", "compare"}

\* What a poll has yet to judge of an account is a payment over the rest of its
\* reward; a payment after the list was taken is for the next poll.
Even(s) ==
    /\ told[s] >= 0
    /\ s \notin world.movers => paid[s] = 0
    /\ job.pc \in Unjudged => landed[s] = snapshot[s] - told[s] + Rest(s)
    /\ job.pc \in {"idle", "list"} => Payment(paid[s] - told[s])
    /\ job.pc \in Listed => Payment(Live(s) - job.list[s])
    /\ job.pc \in {"mark", "credits", "compare"} => Payment(job.list[s] - landed[s] - told[s])
    /\ job.pc = "announce" =>
         job.list[s] = landed[s] + told[s] + job.report[s] /\ job.report[s] >= 0
    /\ job.pc = "store" => job.list[s] = landed[s] + told[s]

\* Credits are there when a window's change is judged, and spent by it at once.
CreditsInTime ==
    /\ settling /\ job.pc # "credits" => creditEpoch = epoch
    /\ creditEpoch = epoch /\ (job.pc # "compare" \/ ~settling) =>
         \A s \in Accounts : credits[s] = 0

PromptInv ==
    /\ held = {} /\ job.holds = {} /\ due = Zero
    /\ CreditsInTime
    /\ \A s \in Accounts : Even(s)

LEMMA PromptTypes ==
    ASSUME TypeOK
    PROVE  /\ job \in JobRecord /\ NoEpoch \notin Epochs /\ epoch \in Epochs
           /\ settling \in BOOLEAN /\ Threshold \in Nat /\ Threshold >= 1
           /\ \A s \in Accounts :
                /\ paid[s] \in Int /\ landed[s] \in Int /\ snapshot[s] \in Int /\ told[s] \in Int
                /\ job.list[s] \in Int /\ job.report[s] \in Int /\ credits[s] \in Nat
                /\ credited[epoch][s] \in Nat /\ Live(s) = paid[s] + landed[s] /\ Live(s) \in Int
                /\ Rest(s) \in Nat
<1>1. ASSUME NEW s \in Accounts
      PROVE  /\ paid[s] \in Int /\ landed[s] \in Int /\ snapshot[s] \in Int /\ told[s] \in Int
             /\ job.list[s] \in Int /\ job.report[s] \in Int /\ credits[s] \in Nat
             /\ credited[epoch][s] \in Nat
  BY DEF TypeOK, Amount, Amounts
<1> QED
  BY <1>1, ZeroFacts, ThresholdAssumption DEF TypeOK, JobRecord, Steps, Live, Rest

\* Everything a poll sees of an account is told apart: the reward and the payment.
LEMMA PromptVerdict ==
    ASSUME TypeOK, InStep, InHand, Prompt, PromptInv, job.pc = "compare", NEW s \in Accounts
    PROVE  LET d == job.list[s] - landed[s] - told[s]
           IN  /\ VerdictOf(s) = Verdict(IF Abs(d) >= Threshold THEN "emit" ELSE "absorb", d, Rest(s))
               /\ d \in Int /\ d >= 0 /\ Payment(d) /\ (s \notin world.movers => d = 0)
<1> DEFINE d == job.list[s] - landed[s] - told[s]
           delta == job.list[s] - snapshot[s]
<1>1. /\ Even(s) /\ job.tip = epoch /\ job.settling = settling /\ markedEpoch = epoch
      /\ held = {} /\ job.known = (creditEpoch = epoch) /\ job.credits = credits
  BY DEF PromptInv, InStep, InHand, At, Past
<1>2. d \in Int /\ Payment(d) /\ d >= 0 /\ delta = d + Rest(s)
  BY <1>1, PromptTypes DEF Even, Payment, Unjudged
<1>3. s \notin world.movers => d = 0
  <2>1. Payment(Live(s) - job.list[s]) /\ told[s] >= 0 /\ (s \notin world.movers => paid[s] = 0)
    BY <1>1 DEF Even, Listed, Past
  <2> QED
    BY <1>2, <2>1, PromptTypes DEF Payment
<1>4. CASE settling
  <2>1. creditEpoch = epoch /\ Rest(s) = credits[s] /\ Rest(s) \in Nat
    BY <1>1, <1>4, PromptTypes DEF PromptInv, CreditsInTime, Rest
  <2>2. VerdictOf(s) = Classify(delta, Rest(s), TRUE, TRUE, TRUE)
    BY <1>1, <1>4, <2>1 DEF VerdictOf, Pending, Credit
  <2>3. ~PartLanded(delta, Rest(s)) /\ ~(delta < 0)
    BY <1>2, <2>1 DEF PartLanded
  <2> HIDE DEF d, delta
  <2>4. VerdictOf(s) = Settle(delta, Rest(s))
    BY <2>2, <2>3, Zenon DEF Classify
  <2>5. Settle(d + Rest(s), Rest(s))
          = Verdict(IF Abs(d) >= Threshold THEN "emit" ELSE "absorb", d, Rest(s))
    BY <1>2, <2>1, SettleMeans
  <2>6. VerdictOf(s) = Verdict(IF Abs(d) >= Threshold THEN "emit" ELSE "absorb", d, Rest(s))
    BY <1>2, <2>4, <2>5
  <2> QED
    BY <1>2, <1>3, <2>6 DEF d
<1>5. CASE ~settling
  <2>1. Rest(s) = 0
    BY <1>1, <1>5 DEF PromptInv, CreditsInTime, Rest
  <2>2. ~Pending(s)
    BY <1>1, <1>5 DEF Pending
  <2>3. delta = d
    BY <1>2, <2>1
  <2>4. VerdictOf(s) = Verdict(IF Abs(delta) >= Threshold THEN "emit" ELSE "absorb", delta, 0)
    BY <2>2, PlainVerdict
  <2> HIDE DEF d, delta
  <2>5. VerdictOf(s) = Verdict(IF Abs(d) >= Threshold THEN "emit" ELSE "absorb", d, Rest(s))
    BY <2>1, <2>3, <2>4
  <2> QED
    BY <1>2, <1>3, <2>5 DEF d
<1> QED
  BY <1>4, <1>5, PromptTypes

\* So few accounts pay that every payment is reported.
LEMMA PromptReport ==
    ASSUME TypeOK, InStep, InHand, Prompt, PromptInv, job.pc = "compare", NEW s \in Accounts
    PROVE  /\ Reported(s) = job.list[s] - landed[s] - told[s]
           /\ Taken(s) /\ VerdictOf(s).action # "hold" /\ VerdictOf(s).credit = Rest(s)
<1> DEFINE D(t) == job.list[t] - landed[t] - told[t]
<1>1. ASSUME NEW t \in Accounts
      PROVE  /\ VerdictOf(t) = Verdict(IF Abs(D(t)) >= Threshold THEN "emit" ELSE "absorb",
                                       D(t), Rest(t))
             /\ D(t) \in Int /\ D(t) >= 0 /\ Payment(D(t)) /\ (t \notin world.movers => D(t) = 0)
  BY PromptVerdict
<1> HIDE DEF D
<1>2. ASSUME NEW t \in Accounts
      PROVE  t \in Emits <=> D(t) >= Threshold
  <2>1. VerdictOf(t).action = IF Abs(D(t)) >= Threshold THEN "emit" ELSE "absorb"
    BY <1>1 DEF Verdict
  <2>2. Abs(D(t)) = D(t)
    BY <1>1 DEF Abs
  <2> QED
    BY <2>1, <2>2 DEF Emits
<1>3. Emits \subseteq world.movers
  <2> SUFFICES ASSUME NEW t \in Emits
               PROVE  t \in world.movers
    OBVIOUS
  <2>1. t \in Accounts
    BY DEF Emits
  <2> QED
    BY <1>1, <1>2, <2>1, ThresholdAssumption
<1>4. Cardinality(Emits) <= MassLimit
  <2>1. world.movers \subseteq Accounts /\ IsFiniteSet(world.movers)
    BY WorldFacts, AccountsAssumption, FS_Subset
  <2>2. /\ Cardinality(Emits) <= Cardinality(world.movers)
        /\ Cardinality(Emits) \in Nat /\ Cardinality(world.movers) \in Nat
    BY <1>3, <2>1, FS_Subset, FS_CardinalityType
  <2> QED
    BY <2>2, MassLimitTyped DEF Prompt
<1>5. ~(Cardinality(Emits) > MassLimit)
  <2>1. IsFiniteSet(Emits)
    BY AccountsAssumption, FS_Subset DEF Emits
  <2>2. Cardinality(Emits) \in Nat
    BY <2>1, FS_CardinalityType
  <2> QED
    BY <1>4, <2>2, MassLimitTyped
<1>6. VerdictOf(s).net = D(s) /\ VerdictOf(s).credit = Rest(s)
      /\ VerdictOf(s).action \in {"emit", "absorb"}
  BY <1>1 DEF Verdict
<1>7. s \notin Emits => D(s) = 0
  BY <1>1, <1>2 DEF Payment
<1>8. Reported(s) = D(s)
  BY <1>5, <1>6, <1>7 DEF Reported
<1> QED
  BY <1>6, <1>8 DEF D, Taken

\* Step by step, every payment is reported once and every reward nets to nothing.
LEMMA PromptKept ==
    ASSUME TypeOK, PollSound, InStep, InHand, Prompt, PromptInv, [Next]_vars
    PROVE  PromptInv'
<1> DEFINE Types(s) ==
      /\ paid[s] \in Int /\ landed[s] \in Int /\ snapshot[s] \in Int /\ told[s] \in Int
      /\ job.list[s] \in Int /\ job.report[s] \in Int /\ credits[s] \in Nat
      /\ credited[epoch][s] \in Nat /\ Live(s) = paid[s] + landed[s] /\ Live(s) \in Int
      /\ Rest(s) \in Nat
<1>1. /\ job \in JobRecord /\ NoEpoch \notin Epochs /\ epoch \in Epochs /\ epoch \in Nat
      /\ settling \in BOOLEAN /\ Threshold \in Nat /\ Threshold >= 1
      /\ \A s \in Accounts : Types(s) /\ Even(s)
  BY PromptTypes DEF PromptInv, Epochs
<1> HIDE DEF Types
<1>2. CreditsInTime /\ held = {} /\ job.holds = {} /\ due = Zero /\ world.disturb = {}
  BY DEF PromptInv, Prompt
<1>3. ASSUME NEW t \in world.movers, NEW n \in world.sizes, Pay(t, n)
      PROVE  PromptInv'
  <2>1. n \in Int /\ n >= Threshold /\ t \in Accounts
    BY WorldFacts DEF Prompt
  <2>2. /\ paid' = [paid EXCEPT ![t] = @ + n] /\ paid \in [Accounts -> Int]
        /\ UNCHANGED <<world, epoch, due, landed, credited, snapshot, markedEpoch, settling, held,
                       credits, creditEpoch, job, told>>
    BY <1>3 DEF Pay, stored, memory, history, TypeOK, Amount, Amounts
  <2>3. ASSUME NEW s \in Accounts
        PROVE  Even(s)'
    <3>1. Rest(s)' = Rest(s) /\ Live(s)' = paid'[s] + landed[s]
      BY <2>2 DEF Rest, Live
    <3>2. CASE s # t
      <4>1. paid'[s] = paid[s] /\ Live(s)' = Live(s)
        BY <2>2, <3>1, <3>2 DEF Live
      <4> QED
        BY <1>1, <2>2, <3>1, <4>1 DEF Even
    <3>3. CASE s = t
      <4>1. paid'[s] = paid[s] + n /\ s \in world.movers
        BY <2>1, <2>2, <3>3
      <4>2. Live(s)' = Live(s) + n
        BY <1>1, <2>1, <3>1, <4>1 DEF Types
      <4>3. \A a, b \in Int : Payment(a - b) => Payment((a + n) - b)
        BY <1>1, <2>1 DEF Payment
      <4>4. /\ Payment(paid[s] - told[s]) => Payment(paid'[s] - told[s])
            /\ Payment(Live(s) - job.list[s]) => Payment(Live(s)' - job.list[s])
        BY <1>1, <4>1, <4>2, <4>3 DEF Types
      <4> QED
        BY <1>1, <2>2, <3>1, <4>1, <4>4 DEF Even
    <3> QED
      BY <3>2, <3>3
  <2>4. CreditsInTime'
    BY <1>2, <2>2 DEF CreditsInTime
  <2> QED
    BY <1>2, <2>2, <2>3, <2>4 DEF PromptInv
<1>4. ASSUME NEW reward \in [Accounts -> Credits], Roll(reward)
      PROVE  PromptInv'
  <2>1. /\ job.pc = "idle" /\ ~settling /\ markedEpoch = epoch /\ epoch' = epoch + 1
        /\ landed' = [s \in Accounts |-> landed[s] + reward[s]]
        /\ UNCHANGED <<world, paid, due, snapshot, markedEpoch, settling, held, credits,
                       creditEpoch, job, told>>
    BY <1>2, <1>4 DEF Roll, At, stored, memory, history, Prompt
  <2>2. epoch + 1 \in Epochs /\ credited'[epoch + 1] = reward /\ reward \in [Accounts -> Nat]
    <3>1. epoch < world.last /\ credited' = [credited EXCEPT ![epoch + 1] = reward]
      BY <1>4 DEF Roll
    <3>2. epoch \in 1..MaxEpoch /\ world.last \in 1..MaxEpoch /\ MaxEpoch \in Nat
      BY WorldFacts, BoundsAssumption DEF TypeOK, Epochs
    <3>3. epoch + 1 \in Epochs
      BY <3>1, <3>2 DEF Epochs
    <3> QED
      BY <3>1, <3>3, CreditsAssumption DEF TypeOK
  <2>3. creditEpoch # epoch'
    BY <1>1, <2>1, <2>2 DEF InStep
  <2>4. ASSUME NEW s \in Accounts
        PROVE  Even(s)'
    <3>1. Rest(s) = 0
      BY <1>2, <2>1 DEF Rest, CreditsInTime
    <3>2. Rest(s)' = reward[s]
      BY <1>1, <2>1, <2>2 DEF Rest
    <3>3. landed'[s] = snapshot[s] - told[s] + Rest(s)'
      BY <1>1, <2>1, <2>2, <3>1, <3>2 DEF Even, Unjudged, Types
    <3> QED
      BY <1>1, <2>1, <3>3 DEF Even, Listed, Past
  <2>5. CreditsInTime'
    BY <2>1, <2>3 DEF CreditsInTime
  <2> QED
    BY <1>2, <2>1, <2>4, <2>5 DEF PromptInv
<1>5. ASSUME NEW t \in Accounts, NEW n \in 1..due[t], Land(t, n)
      PROVE  PromptInv'
  BY <1>2, <1>5 DEF Zero
<1>6. ASSUME UNCHANGED <<chain, stored, settling, held, credits, creditEpoch, job, told>>
      PROVE  PromptInv'
  <2>1. \A s \in Accounts : Even(s)'
    BY <1>1, <1>6 DEF Even, Rest, Live, chain, stored
  <2>2. CreditsInTime'
    BY <1>2, <1>6 DEF CreditsInTime, chain
  <2> QED
    BY <1>2, <1>6, <2>1, <2>2 DEF PromptInv, chain
<1>7. CASE WindowEnds
  <2>1. /\ job.pc = "idle" /\ settling /\ settling' = FALSE
        /\ UNCHANGED <<world, epoch, paid, due, landed, credited, snapshot, markedEpoch, held,
                       credits, creditEpoch, job, told>>
    BY <1>7 DEF WindowEnds, At, chain, stored
  <2>2. creditEpoch = epoch
    BY <1>2, <2>1 DEF CreditsInTime
  <2>3. \A s \in Accounts : Rest(s)' = Rest(s)
    BY <2>1, <2>2 DEF Rest
  <2>4. \A s \in Accounts : Even(s)'
    BY <1>1, <2>1, <2>3 DEF Even, Live
  <2>5. CreditsInTime'
    BY <1>2, <2>1 DEF CreditsInTime
  <2> QED
    BY <1>2, <2>1, <2>4, <2>5 DEF PromptInv
<1>8. CASE StartPoll
  <2>1. /\ job.pc = "idle" /\ job'.pc = "list" /\ job'.holds = {}
        /\ UNCHANGED <<chain, stored, memory, history>>
    BY <1>8 DEF StartPoll, At, Idle
  <2>2. \A s \in Accounts : Rest(s)' = Rest(s) /\ Live(s)' = Live(s)
    BY <2>1 DEF Rest, Live, chain, stored, memory
  <2>3. \A s \in Accounts : Even(s)'
    BY <1>1, <2>1, <2>2 DEF Even, Unjudged, Listed, Past, chain, stored, history
  <2>4. CreditsInTime'
    BY <1>2, <2>1 DEF CreditsInTime, chain, memory
  <2> QED
    BY <1>2, <2>1, <2>3, <2>4 DEF PromptInv, chain, memory
<1>9. CASE FetchList
  <2>1. /\ job.pc = "list" /\ job'.pc = "mark" /\ job'.holds = job.holds
        /\ job'.list = [s \in Accounts |-> Live(s)]
        /\ UNCHANGED <<chain, stored, memory, history>>
    BY <1>1, <1>9 DEF FetchList, At, JobRecord
  <2>2. \A s \in Accounts : Rest(s)' = Rest(s) /\ Live(s)' = Live(s)
    BY <2>1 DEF Rest, Live, chain, stored, memory
  <2>3. ASSUME NEW s \in Accounts
        PROVE  Even(s)'
    <3>1. job'.list[s] = Live(s) /\ Live(s) - Live(s) = 0
          /\ job'.list[s] - landed[s] - told[s] = paid[s] - told[s]
      BY <1>1, <2>1 DEF Types
    <3> QED
      BY <1>1, <2>1, <2>2, <3>1 DEF Even, Unjudged, Listed, Payment, chain, stored, history
  <2>4. CreditsInTime'
    BY <1>2, <2>1 DEF CreditsInTime, chain, memory
  <2> QED
    BY <1>2, <2>1, <2>3, <2>4 DEF PromptInv, chain, memory
<1>10. CASE MarkEpoch
  <2>1. /\ job.pc = "mark" /\ job.tip = epoch /\ job'.pc = "credits" /\ job'.holds = job.holds
        /\ job'.list = job.list
        /\ UNCHANGED <<chain, snapshot, credits, history>>
    BY <1>1, <1>10 DEF MarkEpoch, At, JobRecord, InStep
  <2>2. CASE job.tip # markedEpoch
    <3>1. markedEpoch' = epoch /\ settling' = TRUE /\ held' = {} /\ creditEpoch' = NoEpoch
      BY <1>2, <1>10, <2>1, <2>2 DEF MarkEpoch, Stored, Disturbed
    <3>2. creditEpoch' # epoch'
      BY <1>1, <2>1, <3>1 DEF chain
    <3>3. \A s \in Accounts : Rest(s)' = Rest(s) /\ Live(s)' = Live(s)
      BY <2>1, <2>2, <3>1, <3>2 DEF Rest, Live, chain
    <3>4. \A s \in Accounts : Even(s)'
      BY <1>1, <2>1, <3>3 DEF Even, Unjudged, Listed, Past, chain, history
    <3>5. CreditsInTime'
      BY <2>1, <3>2 DEF CreditsInTime
    <3> QED
      BY <1>2, <2>1, <3>1, <3>4, <3>5 DEF PromptInv, chain
  <2>3. CASE job.tip = markedEpoch
    <3>1. UNCHANGED <<markedEpoch, settling, held, creditEpoch>>
      BY <1>10, <2>3 DEF MarkEpoch
    <3>2. \A s \in Accounts : Rest(s)' = Rest(s) /\ Live(s)' = Live(s)
      BY <2>1, <3>1 DEF Rest, Live, chain
    <3>3. \A s \in Accounts : Even(s)'
      BY <1>1, <2>1, <3>2 DEF Even, Unjudged, Listed, Past, chain, history
    <3>4. CreditsInTime'
      BY <1>2, <2>1, <3>1 DEF CreditsInTime, chain
    <3> QED
      BY <1>2, <2>1, <3>1, <3>3, <3>4 DEF PromptInv, chain
  <2> QED
    BY <2>2, <2>3
<1>11. CASE FetchCredits
  <2>1. /\ job.pc = "credits" /\ job.tip = epoch /\ job'.pc = "compare" /\ job'.holds = job.holds
        /\ job'.list = job.list /\ job.settling = settling /\ markedEpoch = epoch
        /\ UNCHANGED <<chain, stored, settling, held, history>>
    BY <1>1, <1>11 DEF FetchCredits, At, JobRecord, InStep, Past
  <2>2. CASE settling /\ creditEpoch # epoch
    <3>1. epoch \in 2..epoch
      BY <1>1, <2>2 DEF InStep, Epochs
    <3>2. Known(job.tip) /\ world.credits # "late"
      BY <2>1, <3>1 DEF Known, Prompt
    <3>3. credits' = credited[epoch] /\ creditEpoch' = epoch
      BY <1>11, <2>1, <2>2, <3>2 DEF FetchCredits
    <3>4. \A s \in Accounts : Rest(s)' = Rest(s) /\ Live(s)' = Live(s)
      BY <2>1, <2>2, <3>3 DEF Rest, Live, chain, stored
    <3>5. \A s \in Accounts : Even(s)'
      BY <1>1, <2>1, <3>4 DEF Even, Unjudged, Listed, Past, chain, stored, history
    <3>6. CreditsInTime'
      BY <2>1, <2>2, <3>3 DEF CreditsInTime, chain
    <3> QED
      BY <1>2, <2>1, <3>5, <3>6 DEF PromptInv, chain
  <2>3. CASE ~(settling /\ creditEpoch # epoch)
    <3>1. UNCHANGED <<credits, creditEpoch>>
      BY <1>2, <1>11, <2>1, <2>3 DEF FetchCredits
    <3>2. \A s \in Accounts : Rest(s)' = Rest(s) /\ Live(s)' = Live(s)
      BY <2>1, <3>1 DEF Rest, Live, chain, stored
    <3>3. \A s \in Accounts : Even(s)'
      BY <1>1, <2>1, <3>2 DEF Even, Unjudged, Listed, Past, chain, stored, history
    <3>4. CreditsInTime'
      BY <1>2, <2>1, <2>3, <3>1 DEF CreditsInTime, chain
    <3> QED
      BY <1>2, <2>1, <3>3, <3>4 DEF PromptInv, chain
  <2> QED
    BY <2>2, <2>3
<1>12. CASE Compare
  <2>1. /\ job.pc = "compare" /\ job.tip = epoch /\ job'.pc = "announce"
        /\ job'.list = job.list /\ markedEpoch = epoch
        /\ UNCHANGED <<chain, stored, settling, held, creditEpoch, told>>
        /\ \A s \in Accounts : job'.report[s] = Reported(s)
    BY <1>1, <1>12, CompareJob, CompareMeans DEF InStep, Past
  <2>2. ASSUME NEW s \in Accounts
        PROVE  /\ Reported(s) = job.list[s] - landed[s] - told[s]
               /\ Taken(s) /\ VerdictOf(s).action # "hold" /\ VerdictOf(s).credit = Rest(s)
    BY <2>1, PromptReport
  <2>3. job'.holds = {}
    <3>1. job'.holds = {s \in Accounts : VerdictOf(s).action = "hold"}
      BY <1>1, <1>12, CompareMeans DEF JobRecord
    <3> QED
      BY <2>2, <3>1
  <2>4. creditEpoch = epoch => \A s \in Accounts : credits'[s] = 0
    <3> SUFFICES ASSUME creditEpoch = epoch, NEW s \in Accounts
                 PROVE  credits'[s] = 0
      OBVIOUS
    <3>1. credits'[s] = IF creditEpoch = job.tip /\ Taken(s) /\ VerdictOf(s).credit > 0
                        THEN 0 ELSE credits[s]
      BY <1>12, CompareMeans
    <3>2. VerdictOf(s).credit = credits[s] /\ credits[s] \in Nat /\ Taken(s)
      BY <1>1, <2>1, <2>2 DEF Rest, Types
    <3> QED
      BY <2>1, <3>1, <3>2
  <2>5. ASSUME NEW s \in Accounts
        PROVE  Even(s)'
    <3> DEFINE d == job.list[s] - landed[s] - told[s]
    <3>1. Payment(d) /\ d \in Int /\ job'.report[s] = d /\ Live(s)' = Live(s)
      BY <1>1, <2>1, <2>2 DEF Even, Types, Live, chain
    <3>2. d >= 0 /\ job.list[s] = landed[s] + told[s] + d
      BY <1>1, <3>1 DEF Payment, Types
    <3> QED
      BY <1>1, <2>1, <3>1, <3>2 DEF Even, Unjudged, Listed, Past, chain
  <2>6. CreditsInTime'
    BY <1>2, <2>1, <2>4 DEF CreditsInTime, chain
  <2> QED
    BY <1>2, <2>1, <2>3, <2>5, <2>6 DEF PromptInv, chain
<1>13. CASE Announce
  <2>1. /\ job.pc = "announce" /\ job'.pc = "store" /\ job'.list = job.list /\ job'.holds = job.holds
        /\ told' = [s \in Accounts |-> told[s] + job.report[s]]
        /\ UNCHANGED <<chain, stored, memory>>
    BY <1>1, <1>13 DEF Announce, At, JobRecord
  <2>2. ASSUME NEW s \in Accounts
        PROVE  Even(s)'
    <3>1. told'[s] = told[s] + job.report[s] /\ Live(s)' = Live(s)
      BY <2>1 DEF Live, chain
    <3>2. job.list[s] = landed[s] + told'[s] /\ told'[s] >= 0
      BY <1>1, <2>1, <3>1 DEF Even, Types
    <3> QED
      BY <1>1, <2>1, <3>1, <3>2 DEF Even, Unjudged, Listed, Past, chain
  <2>3. CreditsInTime'
    BY <1>2, <2>1 DEF CreditsInTime, chain, memory
  <2> QED
    BY <1>2, <2>1, <2>2, <2>3 DEF PromptInv, chain, memory
<1>14. CASE StoreSnapshot
  <2>1. /\ job.pc = "store" /\ job'.pc = "idle" /\ job'.holds = {} /\ held' = {}
        /\ markedEpoch = epoch
        /\ UNCHANGED <<chain, markedEpoch, settling, credits, creditEpoch, history>>
    BY <1>2, <1>14, ZeroFacts DEF StoreSnapshot, At, InStep, Past, Idle
  <2>2. \A s \in Accounts : snapshot'[s] = job.list[s]
    BY <1>2, <1>14 DEF StoreSnapshot, Stored, Disturbed, Baseline
  <2>3. ASSUME NEW s \in Accounts
        PROVE  Even(s)'
    <3>1. Rest(s)' = 0
      BY <1>2, <2>1 DEF Rest, CreditsInTime, chain
    <3>2. landed[s] = snapshot'[s] - told[s] + 0
      BY <1>1, <2>1, <2>2 DEF Even, Types
    <3>3. Payment(paid[s] - told[s])
      <4>1. Payment(Live(s) - job.list[s]) /\ job.list[s] = landed[s] + told[s]
        BY <1>1, <2>1 DEF Even, Listed, Past
      <4>2. Live(s) - job.list[s] = paid[s] - told[s]
        BY <1>1, <4>1 DEF Types
      <4> QED
        BY <4>1, <4>2
    <3> QED
      BY <1>1, <2>1, <3>1, <3>2, <3>3 DEF Even, Listed, Past, chain, history
  <2>4. CreditsInTime'
    BY <1>2, <2>1 DEF CreditsInTime, chain
  <2> QED
    BY <1>2, <2>1, <2>3, <2>4 DEF PromptInv, chain
<1>15. CASE Restart \/ Reset \/ Rebaseline \/ MarkAgain
  BY <1>2, <1>15 DEF Restart, Reset, Rebaseline, MarkAgain, Disturbed
<1>16. CASE UNCHANGED vars
  BY <1>6, <1>16 DEF vars, memory, history
<1> QED
  BY <1>3, <1>4, <1>5, <1>7, <1>8, <1>9, <1>10, <1>11, <1>12, <1>13, <1>14, <1>15, <1>16
     DEF Next, Poll
-----------------------------------------------------------------------------
(* What the surroundings promise of the reports.                           *)

ToldInv ==
    /\ Plain => InStep
    /\ Paused => Uncredited /\ SilentInWindow
    /\ Breaks => Uncredited /\ BreakerInv
    /\ Prompt => PromptInv

LEMMA InitTold == Init => ToldInv
<1> SUFFICES ASSUME Init PROVE ToldInv
  OBVIOUS
<1>1. /\ job.pc = "idle" /\ job.holds = {} /\ job.report = Zero /\ epoch = 1 /\ markedEpoch = 1
      /\ settling = FALSE /\ held = {} /\ creditEpoch = NoEpoch /\ NoEpoch # 1 /\ due = Zero
  BY DEF Init, Idle, NoEpoch
<1>2. \A s \in Accounts : /\ paid[s] = 0 /\ moves[s] = 0 /\ due[s] = 0 /\ landed[s] = 0
                          /\ snapshot[s] = 0 /\ told[s] = 0 /\ job.report[s] = 0 /\ Live(s) = 0
                          /\ Rest(s) = 0
  BY <1>1 DEF Init, Zero, Live, Rest
<1>3. InStep /\ Uncredited
  BY <1>1 DEF InStep, Uncredited, Past
<1>4. SilentInWindow
  BY <1>1, <1>2 DEF SilentInWindow, AtPar, Listed, Past
<1>5. BreakerInv
  BY <1>1, <1>2 DEF BreakerInv, Still, Listed, Past
<1>6. PromptInv
  BY <1>1, <1>2 DEF PromptInv, CreditsInTime, Even, Payment, Unjudged, Listed, Past
<1> QED
  BY <1>3, <1>4, <1>5, <1>6 DEF ToldInv

LEMMA NextTold ==
    ASSUME IInv, ToldInv, [Next]_vars
    PROVE  ToldInv'
<1>1. TypeOK /\ PollSound
  BY DEF IInv
<1>2. /\ world' = world /\ epoch <= epoch' /\ epoch \in Nat /\ epoch' \in Nat
      /\ \A e \in 1..epoch : credited'[e] = credited[e]
  <2>1. TypeOK'
    BY <1>1, NextTyped
  <2>2. epoch \in Nat /\ epoch' \in Nat
    BY <1>1, <2>1 DEF TypeOK, Epochs
  <2> QED
    BY <1>1, <2>2, HistoryStays
<1>3. \A e \in 2..epoch : e \in 2..epoch' /\ credited'[e] = credited[e]
  BY <1>2
<1>4. /\ Plain' => Plain
      /\ Paused' => Paused
      /\ Breaks' => Breaks
      /\ Prompt' => Prompt
  <2>1. (Plain' => Plain) /\ (Paused' => Paused)
    BY <1>2 DEF Plain, Paused
  <2>2. Breaks' => Breaks
    BY <1>2, <1>3 DEF Breaks
  <2>3. Prompt' => Prompt
    BY <1>2, <1>3 DEF Prompt
  <2> QED
    BY <2>1, <2>2, <2>3
<1>5. /\ (Paused \/ Breaks \/ Prompt) => Plain
      /\ Plain => InHand
  BY DEF Paused, Breaks, Prompt, Plain, IInv, Tame
<1>6. (Paused \/ Breaks) => world.credits = "none"
  BY DEF Paused, Breaks
<1>7. ASSUME Plain'
      PROVE  InStep'
  <2>1. Plain /\ InStep
    BY <1>4, <1>7 DEF ToldInv
  <2> QED
    BY <1>1, <2>1, InStepKept
<1>8. ASSUME Paused'
      PROVE  Uncredited' /\ SilentInWindow'
  <2>1. Plain /\ InStep /\ InHand /\ Paused /\ Uncredited /\ SilentInWindow /\ world.credits = "none"
    BY <1>4, <1>5, <1>6, <1>8 DEF ToldInv
  <2> QED
    BY <1>1, <2>1, UncreditedKept, SilentInWindowKept
<1>9. ASSUME Breaks'
      PROVE  Uncredited' /\ BreakerInv'
  <2>1. Plain /\ InStep /\ InHand /\ Breaks /\ Uncredited /\ BreakerInv /\ world.credits = "none"
    BY <1>4, <1>5, <1>6, <1>9 DEF ToldInv
  <2> QED
    BY <1>1, <2>1, UncreditedKept, BreakerKept
<1>10. ASSUME Prompt'
       PROVE  PromptInv'
  <2>1. InStep /\ InHand /\ Prompt /\ PromptInv
    BY <1>4, <1>5, <1>10 DEF ToldInv
  <2> QED
    BY <1>1, <2>1, PromptKept
<1> QED
  BY <1>7, <1>8, <1>9, <1>10 DEF ToldInv

LEMMA ToldHolds == Spec => []ToldInv
BY InitTold, NextTold, InvHolds, PTL DEF Spec

\* Without reward data (read-model.js, classifyStakeMove and the mass-change limit):
\* rewards that have landed and reached the baseline when the window's clock runs out,
\* or that land all at once, after a restart even, on more accounts than the
\* mass-change limit, are never reported for an account that moved nothing.
THEOREM RewardsStaySilent == Spec => []RewardsNeverReported
<1>1. ToldInv => RewardsNeverReported
  <2> SUFFICES ASSUME ToldInv, NEW s \in Accounts, moves[s] = 0,
                      Breaks \/ (Paused /\ s \notin late)
               PROVE  told[s] = 0
    BY DEF RewardsNeverReported
  <2> QED
    BY DEF ToldInv, SilentInWindow, BreakerInv
<1> QED
  BY <1>1, ToldHolds, PTL

\* "The reward bump nets to nothing while a genuine payment landing in the same
\* window still fires" (README, NOTIFICATIONS): whenever an account is at rest, the
\* changes reported for it add up to the payments it made.
THEOREM PaymentsAllTold == Spec => []PromptReportsAddUp
<1>1. IInv /\ ToldInv => PromptReportsAddUp
  <2> SUFFICES ASSUME TypeOK, PromptInv, Prompt, NEW s \in Accounts, AtRest(s)
               PROVE  told[s] = paid[s]
    BY DEF IInv, ToldInv, PromptReportsAddUp, ReportsAddUp
  <2>1. Even(s) /\ job.pc = "idle" /\ snapshot[s] = Live(s)
    BY DEF PromptInv, AtRest, At
  <2>2. /\ paid[s] \in Int /\ landed[s] \in Int /\ told[s] \in Int /\ Rest(s) \in Nat
        /\ Live(s) = paid[s] + landed[s] /\ Threshold \in Nat /\ Threshold >= 1
    BY PromptTypes
  <2>3. landed[s] = snapshot[s] - told[s] + Rest(s) /\ Payment(paid[s] - told[s])
    BY <2>1 DEF Even, Unjudged
  <2>4. paid[s] - told[s] = -Rest(s)
    BY <2>1, <2>2, <2>3
  <2> QED
    BY <2>2, <2>3, <2>4 DEF Payment
<1> QED
  BY <1>1, InvHolds, ToldHolds, PTL
=============================================================================
