------------------------ MODULE DelegationFeedProofs ------------------------
(***************************************************************************)
(* The poll implements CertReports when a single poll runs at a time, no   *)
(* demo visit begins during a poll and the watermark's writes do not fail: *)
(* whatever crashes, outages, source switches and cache clears happen,     *)
(* certificates are reported in order and at most once, for every number   *)
(* of accounts, certificates and every scan limit.                         *)
(*                                                                         *)
(* And with any number of polls side by side only a seed passes a          *)
(* certificate over, in the second part, which has an invariant of its own. *)
(***************************************************************************)
EXTENDS DelegationFeed, TLAPS

\* One poll at a time, no demo visit begun during a poll, no failing cache write.
Undisturbed(p) == Polls = {p} /\ Disturb \cap {"demo", "storeFail"} = {}

Carrying == {"scanned", "advance", "diff", "store"}

PollState ==
    [pc : Steps, cur : SUBSET Stakes, src : Sources \cup {"", "demo"},
     prev : SUBSET Stakes, mark : Int, devs : SUBSET CertIds, upTo : Int,
     dbActive : BOOLEAN, joins : SUBSET Stakes, leavers : SUBSET Stakes]

\* The part of the type invariant the argument needs.
LocalTypes(p) ==
    /\ certs \in Seq([stake : Stakes, to : {"ours", "other"}])
    /\ Len(certs) <= MaxCerts
    /\ mode = "live" \/ job[p].pc = "idle"
    /\ watermark \in {NoMark} \cup 0..Len(certs)
    /\ dispatched \in [CertIds -> 0..2]
    /\ job \in [Polls -> PollState]
    /\ live \subseteq Stakes /\ snapshot \subseteq Stakes /\ source \in Sources

\* What was shown lies at or below a stored watermark.
ShownBelowWatermark ==
    \A id \in CertIds : dispatched[id] > 0 =>
        /\ id <= Len(certs)
        /\ watermark # NoMark => id <= watermark

\* What a scan carries is above everything shown, and has landed.
CarriedIsNew(p) ==
    job[p].pc \in Carrying =>
        \A id \in job[p].devs :
            /\ id <= Len(certs)
            /\ \A seen \in CertIds : dispatched[seen] > 0 => seen < id

\* Between the scan and the watermark's write the watermark is the one scanned
\* from, or was cleared; the new one covers what the scan carries.
ScanIsCurrent(p) ==
    job[p].pc \in {"scanned", "advance"} =>
        /\ job[p].mark \in 0..Len(certs)
        /\ watermark \in {NoMark, job[p].mark}
        /\ \A id \in job[p].devs : job[p].mark < id /\ id <= job[p].mark + Limit
        /\ \A seen \in CertIds : dispatched[seen] > 0 => seen <= job[p].mark
        /\ job[p].pc = "advance" =>
             /\ job[p].upTo \in job[p].mark..Len(certs)
             /\ \A id \in job[p].devs : id <= job[p].upTo

\* After it, a stored watermark covers what the scan carries.
CarriedIsCovered(p) ==
    job[p].pc \in {"diff", "store"} =>
        \A id \in job[p].devs : watermark # NoMark => id <= watermark

\* Before the scan the poll carries nothing.
NothingBeforeScan(p) ==
    job[p].pc \in Steps \ (Carrying \cup {"snap"}) => job[p].devs = {}

IInv(p) ==
    /\ LocalTypes(p)
    /\ AtMostOnce
    /\ ShownBelowWatermark
    /\ CarriedIsNew(p)
    /\ ScanIsCurrent(p)
    /\ CarriedIsCovered(p)
    /\ NothingBeforeScan(p)

USE LimitAssumption, MaxCertsAssumption, MoversAssumption

-----------------------------------------------------------------------------
LEMMA InitEstablishes ==
    ASSUME NEW p, Undisturbed(p), Init
    PROVE  IInv(p)
<1> USE DEF Undisturbed
<1>1. LocalTypes(p)
  <2>1. certs \in Seq([stake : Stakes, to : {"ours", "other"}]) /\ Len(certs) = 0
    BY DEF Init
  <2>2. dispatched \in [CertIds -> 0..2]
    BY DEF Init, CertIds
  <2>3. Idle \in PollState
    BY DEF Idle, Steps, NoMark, PollState
  <2>4. watermark \in {NoMark} \cup 0..Len(certs)
    BY <2>1 DEF Init
  <2>5. job \in [Polls -> PollState]
    BY <2>3 DEF Init
  <2> QED
    BY <2>1, <2>2, <2>4, <2>5 DEF Init, LocalTypes, Sources
<1>2. AtMostOnce /\ ShownBelowWatermark
  BY DEF Init, AtMostOnce, ShownBelowWatermark, CertIds
<1>3. job[p].pc = "idle" /\ job[p].devs = {}
  BY DEF Init, Idle
<1> QED
  BY <1>1, <1>2, <1>3 DEF IInv, CarriedIsNew, ScanIsCurrent, CarriedIsCovered,
     NothingBeforeScan, Carrying, Steps

-----------------------------------------------------------------------------
\* A step of the poll outside the scan: it carries nothing afterwards, and the
\* watermark stays, is cleared, or is seeded from the table's maximum.
LEMMA QuietStep ==
    ASSUME NEW p, Undisturbed(p), IInv(p),
           UNCHANGED <<certs, dispatched>>,
           mode' = "live" \/ job'[p].pc = "idle",
           job' \in [Polls -> PollState],
           live' \subseteq Stakes, snapshot' \subseteq Stakes, source' \in Sources,
           watermark' \in {watermark, NoMark, Len(certs)},
           job'[p].devs = {}, job'[p].pc \notin {"scanned", "advance"}
    PROVE  IInv(p)'
<1> USE DEF IInv
<1>1. LocalTypes(p)'
  BY DEF LocalTypes
<1>2. AtMostOnce' /\ ShownBelowWatermark'
  BY DEF AtMostOnce, ShownBelowWatermark
<1>3. CarriedIsNew(p)' /\ CarriedIsCovered(p)' /\ NothingBeforeScan(p)'
  BY DEF CarriedIsNew, CarriedIsCovered, NothingBeforeScan
<1>4. ScanIsCurrent(p)'
  BY DEF ScanIsCurrent
<1> QED
  BY <1>1, <1>2, <1>3, <1>4

\* A step of the surroundings: at most the watermark is cleared.
LEMMA SurroundingStep ==
    ASSUME NEW p, Undisturbed(p), IInv(p),
           UNCHANGED <<certs, dispatched, job>>,
           mode' = "live" \/ job[p].pc = "idle",
           live' \subseteq Stakes, snapshot' \subseteq Stakes, source' \in Sources,
           watermark' \in {watermark, NoMark}
    PROVE  IInv(p)'
<1> USE DEF IInv
<1>1. LocalTypes(p)'
  BY DEF LocalTypes
<1>2. AtMostOnce' /\ ShownBelowWatermark'
  BY DEF AtMostOnce, ShownBelowWatermark
<1>3. CarriedIsNew(p)' /\ CarriedIsCovered(p)' /\ NothingBeforeScan(p)'
  BY DEF CarriedIsNew, CarriedIsCovered, NothingBeforeScan
<1>4. ScanIsCurrent(p)'
  BY DEF ScanIsCurrent
<1> QED
  BY <1>1, <1>2, <1>3, <1>4

\* A certificate lands.
LEMMA NewCertStep ==
    ASSUME NEW p, Undisturbed(p), IInv(p),
           NEW s \in Stakes, NEW to \in {"ours", "other"}, NewCert(s, to)
    PROVE  IInv(p)'
<1> USE DEF IInv
<1>1. /\ certs' \in Seq([stake : Stakes, to : {"ours", "other"}])
      /\ Len(certs') = Len(certs) + 1 /\ Len(certs) \in Nat
      /\ UNCHANGED <<watermark, dispatched, job, mode, live, snapshot, source>>
      /\ Len(certs') <= MaxCerts
  BY DEF NewCert, LocalTypes, cache, history
<1>2. LocalTypes(p)'
  BY <1>1 DEF LocalTypes
<1>3. AtMostOnce' /\ ShownBelowWatermark'
  BY <1>1 DEF AtMostOnce, ShownBelowWatermark, CertIds
<1>4. CarriedIsNew(p)' /\ CarriedIsCovered(p)' /\ NothingBeforeScan(p)'
  <2>1. job[p].devs \subseteq CertIds
    BY DEF LocalTypes, Undisturbed, PollState
  <2> QED
    BY <1>1, <2>1 DEF CarriedIsNew, CarriedIsCovered, NothingBeforeScan, CertIds
<1>5. ScanIsCurrent(p)'
  BY <1>1 DEF ScanIsCurrent
<1> QED
  BY <1>2, <1>3, <1>4, <1>5

-----------------------------------------------------------------------------
(* The poll's steps.                                                       *)

\* What the poll's record is made of.
LEMMA JobTyped ==
    ASSUME NEW p, Undisturbed(p), LocalTypes(p)
    PROVE  /\ job[p] \in PollState
           /\ job \in [Polls -> PollState]
           /\ p \in Polls /\ Idle \in PollState /\ Idle.devs = {} /\ Idle.pc = "idle"
<1>1. p \in Polls /\ job \in [Polls -> PollState]
  BY DEF LocalTypes, Undisturbed
<1>2. Idle \in PollState
  BY DEF Idle, Steps, NoMark, PollState
<1> QED
  BY <1>1, <1>2 DEF Idle

\* Going on to another step of the poll leaves its local variables alone.
LEMMA GotoTyped ==
    ASSUME NEW p \in Polls, job \in [Polls -> PollState], NEW step \in Steps,
           Goto(p, step)
    PROVE  job' \in [Polls -> PollState] /\ job'[p] = [job[p] EXCEPT !.pc = step]
<1>1. job[p] \in PollState /\ [job[p] EXCEPT !.pc = step] \in PollState
  BY DEF PollState
<1> QED
  BY <1>1 DEF Goto

\* Ending the poll clears them.
LEMMA FinishTyped ==
    ASSUME NEW p, Undisturbed(p), LocalTypes(p), Finish(p)
    PROVE  job' \in [Polls -> PollState] /\ job'[p].devs = {} /\ job'[p].pc = "idle"
BY JobTyped DEF Finish

\* Where the gate leads, whatever could be read.
LEMMA GateGoes ==
    ASSUME NEW p \in Polls, snapshot \subseteq Stakes, Gate(p)
    PROVE  \E prev \in SUBSET Stakes, to \in {"base", "certs", "diff"}, db \in BOOLEAN :
             job' = [job EXCEPT ![p].prev = prev, ![p].src = CurSource,
                                ![p].pc = to, ![p].dbActive = db]
<1>1. PICK marker \in Reads, rows \in Reads, last \in Reads :
        LET prev == IF rows THEN snapshot ELSE {}
            rebase == \/ ~(marker /\ baselined) \/ prev = {}
                      \/ last /\ lastSource # "" /\ lastSource # CurSource
        IN  job' = [job EXCEPT ![p].prev = prev, ![p].src = CurSource,
                               ![p].pc = IF rebase THEN "base"
                                         ELSE IF reachable THEN "certs" ELSE "diff",
                               ![p].dbActive = ~rebase /\ reachable]
  BY DEF Gate
<1> DEFINE prev == IF rows THEN snapshot ELSE {}
           rebase == \/ ~(marker /\ baselined) \/ prev = {}
                     \/ last /\ lastSource # "" /\ lastSource # CurSource
           to == IF rebase THEN "base" ELSE IF reachable THEN "certs" ELSE "diff"
           db == ~rebase /\ reachable
<1>2. prev \in SUBSET Stakes /\ to \in {"base", "certs", "diff"} /\ db \in BOOLEAN
  OBVIOUS
<1>3. job' = [job EXCEPT ![p].prev = prev, ![p].src = CurSource,
                         ![p].pc = to, ![p].dbActive = db]
  BY <1>1
<1> HIDE DEF prev, to, db
<1> QED
  BY <1>2, <1>3

LEMMA PollBeforeScan ==
    ASSUME NEW p, Undisturbed(p), IInv(p),
           \/ StartPoll(p) \/ FetchList(p) \/ Gate(p) \/ StoreBaseline(p)
           \/ StoreBaselineMeta(p) \/ SeedWatermark(p)
    PROVE  IInv(p)'
<1>1. /\ job[p] \in PollState /\ job \in [Polls -> PollState] /\ p \in Polls
      /\ Idle \in PollState /\ Idle.devs = {} /\ Idle.pc = "idle"
  BY JobTyped DEF IInv
<1>2. live \subseteq Stakes /\ snapshot \subseteq Stakes /\ source \in Sources
  BY DEF IInv, LocalTypes
<1>3. UNCHANGED <<certs, dispatched, live, source>> /\ mode' = "live"
  BY DEF StartPoll, FetchList, Gate, StoreBaseline, StoreBaselineMeta, SeedWatermark,
     chain, history, At, IInv, LocalTypes
<1> USE DEF IInv, NothingBeforeScan, Carrying, Steps, At, Goto, Finish
<1>4. CASE StartPoll(p)
  <2>1. /\ job' \in [Polls -> PollState] /\ job'[p].devs = {} /\ job'[p].pc = "list"
    BY <1>1, <1>4 DEF StartPoll, PollState, Idle
  <2> QED
    BY <1>2, <1>3, <1>4, <2>1, QuietStep DEF StartPoll, cache
<1>5. CASE FetchList(p)
  <2>1. job[p].devs = {}
    BY <1>1, <1>5 DEF FetchList
  <2>2. /\ job' \in [Polls -> PollState] /\ job'[p].devs = {}
        /\ job'[p].pc \in {"gate", "idle"}
    <3>1. CASE job' = [job EXCEPT ![p].pc = "gate", ![p].cur = live]
      <4>1. [job[p] EXCEPT !.pc = "gate", !.cur = live] \in PollState
        BY <1>1, <1>2 DEF PollState
      <4>2. job' = [job EXCEPT ![p] = [job[p] EXCEPT !.pc = "gate", !.cur = live]]
        BY <1>1, <3>1
      <4> QED
        BY <1>1, <4>1, <4>2, <2>1 DEF PollState
    <3>2. CASE Finish(p)
      BY <3>2, FinishTyped
    <3> QED
      BY <1>5, <3>1, <3>2 DEF FetchList
  <2> QED
    BY <1>2, <1>3, <1>5, <2>2, QuietStep DEF FetchList, cache
<1>6. CASE Gate(p)
  <2>1. job[p].devs = {}
    BY <1>1, <1>6 DEF Gate
  <2>2. CurSource \in Sources \cup {"", "demo"}
    BY <1>2 DEF CurSource
  <2>3. /\ job' \in [Polls -> PollState] /\ job'[p].devs = {}
        /\ job'[p].pc \in {"base", "certs", "diff"}
    <3>1. PICK prev \in SUBSET Stakes, to \in {"base", "certs", "diff"}, db \in BOOLEAN :
            job' = [job EXCEPT ![p].prev = prev, ![p].src = CurSource,
                               ![p].pc = to, ![p].dbActive = db]
      BY <1>1, <1>2, <1>6, GateGoes
    <3> DEFINE j == [job[p] EXCEPT !.prev = prev, !.src = CurSource,
                                   !.pc = to, !.dbActive = db]
    <3>2. j \in PollState /\ j.pc = to /\ j.devs = {}
      BY <1>1, <2>1, <2>2, <3>1 DEF PollState, Steps
    <3>3. job' = [job EXCEPT ![p] = j]
      BY <1>1, <3>1
    <3>4. to \in {"base", "certs", "diff"}
      BY <3>1
    <3> HIDE DEF j
    <3>5. job'[p] = j /\ job' \in [Polls -> PollState]
      BY <1>1, <3>2, <3>3
    <3> QED
      BY <3>2, <3>4, <3>5
  <2> QED
    BY <1>2, <1>3, <1>6, <2>3, QuietStep DEF Gate, cache
<1>7. CASE StoreBaseline(p)
  <2>1. job[p].devs = {}
    BY <1>1, <1>7 DEF StoreBaseline
  <2>2. /\ job' \in [Polls -> PollState] /\ job'[p].devs = {}
        /\ job'[p].pc = "baseMeta" /\ snapshot' \subseteq Stakes
    BY <1>1, <1>2, <1>7, <2>1 DEF StoreBaseline, PollState
  <2> QED
    BY <1>2, <1>3, <1>7, <2>2, QuietStep DEF StoreBaseline
<1>8. CASE StoreBaselineMeta(p)
  <2>1. job[p].devs = {}
    BY <1>1, <1>8 DEF StoreBaselineMeta
  <2>2. /\ job' \in [Polls -> PollState] /\ job'[p].devs = {}
        /\ job'[p].pc \in {"seed", "idle"}
    <3>1. CASE Goto(p, "seed")
      BY <1>1, <2>1, <3>1, GotoTyped DEF PollState
    <3>2. CASE Finish(p)
      BY <3>2, FinishTyped
    <3> QED
      BY <1>8, <3>1, <3>2 DEF StoreBaselineMeta
  <2> QED
    BY <1>2, <1>3, <1>8, <2>2, QuietStep DEF StoreBaselineMeta
<1>9. CASE SeedWatermark(p)
  <2>1. job[p].devs = {}
    BY <1>1, <1>9 DEF SeedWatermark
  <2>2. /\ job' \in [Polls -> PollState] /\ job'[p].devs = {}
        /\ job'[p].pc \in {"diff", "idle"}
    <3>1. CASE Goto(p, "diff")
      BY <1>1, <2>1, <3>1, GotoTyped DEF PollState
    <3>2. CASE Finish(p)
      BY <3>2, FinishTyped
    <3> QED
      BY <1>9, <3>1, <3>2 DEF SeedWatermark
  <2>3. watermark' \in {watermark, Len(certs)} /\ UNCHANGED snapshot
    BY <1>9 DEF SeedWatermark
  <2> QED
    BY <1>2, <1>3, <2>2, <2>3, QuietStep
<1> QED
  BY <1>4, <1>5, <1>6, <1>7, <1>8, <1>9

\* The scan reads certificates above the watermark only.
LEMMA ScanCertsStep ==
    ASSUME NEW p, Undisturbed(p), IInv(p), ScanCerts(p)
    PROVE  IInv(p)'
<1>1. /\ job[p] \in PollState /\ job \in [Polls -> PollState] /\ p \in Polls
  BY JobTyped DEF IInv
<1>2. /\ live \subseteq Stakes /\ snapshot \subseteq Stakes /\ source \in Sources
      /\ Len(certs) \in Nat /\ Len(certs) <= MaxCerts
      /\ watermark \in {NoMark} \cup 0..Len(certs)
  BY DEF IInv, LocalTypes
<1>3. UNCHANGED <<certs, dispatched, live, source, snapshot, watermark, mode>>
  BY DEF ScanCerts, chain, history, cache
<1>4. job[p].devs = {} /\ job[p].pc = "certs" /\ mode = "live"
  BY <1>1 DEF ScanCerts, IInv, LocalTypes, NothingBeforeScan, Carrying, Steps, At
<1>5. CASE Goto(p, "seed") \/ Goto(p, "diff")
  <2>1. /\ job' \in [Polls -> PollState] /\ job'[p].devs = {}
        /\ job'[p].pc \in {"seed", "diff"}
    <3>1. "seed" \in Steps /\ "diff" \in Steps
      BY DEF Steps
    <3>2. PICK step \in {"seed", "diff"} : Goto(p, step) /\ step \in Steps
      BY <1>5, <3>1
    <3>3. job' \in [Polls -> PollState] /\ job'[p] = [job[p] EXCEPT !.pc = step]
      BY <1>1, <3>2, GotoTyped
    <3> QED
      BY <1>1, <1>4, <3>2, <3>3 DEF PollState
  <2> QED
    BY <1>2, <1>3, <1>4, <2>1, QuietStep
<1>6. CASE /\ watermark # NoMark
           /\ job' = [job EXCEPT ![p].pc = "scanned", ![p].mark = watermark,
                                 ![p].devs = ScanEvents(watermark)]
  <2>1. watermark \in 0..Len(certs)
    BY <1>2, <1>6
  <2>2. \A id \in ScanEvents(watermark) :
           id \in 1..Len(certs) /\ watermark < id /\ id <= watermark + Limit
    BY DEF ScanEvents
  <2>3. ScanEvents(watermark) \subseteq CertIds
    BY <1>2, <2>2 DEF CertIds
  <2>4. /\ job' \in [Polls -> PollState] /\ job'[p].pc = "scanned"
        /\ job'[p].mark = watermark /\ job'[p].devs = ScanEvents(watermark)
    <3> DEFINE j == [job[p] EXCEPT !.pc = "scanned", !.mark = watermark,
                                   !.devs = ScanEvents(watermark)]
    <3>1. j \in PollState
      <4>1. watermark \in Int /\ ScanEvents(watermark) \in SUBSET CertIds
        BY <1>2, <2>1, <2>3
      <4> QED
        BY <1>1, <4>1 DEF PollState, Steps
    <3>2. job' = [job EXCEPT ![p] = j]
      BY <1>1, <1>6
    <3>3. j.pc = "scanned" /\ j.mark = watermark /\ j.devs = ScanEvents(watermark)
      BY <1>1 DEF PollState
    <3> HIDE DEF j
    <3> QED
      BY <1>1, <3>1, <3>2, <3>3
  <2>5. \A seen \in CertIds : dispatched[seen] > 0 => seen <= watermark
    BY <1>6 DEF IInv, ShownBelowWatermark
  <2>6. LocalTypes(p)'
    BY <1>2, <1>3, <1>4, <2>4 DEF IInv, LocalTypes
  <2>7. AtMostOnce' /\ ShownBelowWatermark'
    BY <1>3 DEF IInv, AtMostOnce, ShownBelowWatermark
  <2>8. CarriedIsNew(p)'
    BY <1>2, <1>3, <2>1, <2>2, <2>4, <2>5 DEF CarriedIsNew, CertIds
  <2>9. ScanIsCurrent(p)'
    BY <1>2, <1>3, <2>1, <2>2, <2>4, <2>5 DEF ScanIsCurrent
  <2>10. CarriedIsCovered(p)' /\ NothingBeforeScan(p)'
    BY <2>4 DEF CarriedIsCovered, NothingBeforeScan, Carrying
  <2> QED
    BY <2>6, <2>7, <2>8, <2>9, <2>10 DEF IInv
<1> QED
  BY <1>5, <1>6 DEF ScanCerts

\* The new watermark covers every certificate the scan may have read.
LEMMA ScanTopStep ==
    ASSUME NEW p, Undisturbed(p), IInv(p), ScanTop(p)
    PROVE  IInv(p)'
<1>1. /\ job[p] \in PollState /\ job \in [Polls -> PollState] /\ p \in Polls
  BY JobTyped DEF IInv
<1>2. /\ live \subseteq Stakes /\ snapshot \subseteq Stakes /\ source \in Sources
      /\ Len(certs) \in Nat
  BY DEF IInv, LocalTypes
<1>3. UNCHANGED <<certs, dispatched, live, source, snapshot, watermark, mode>>
  BY DEF ScanTop, chain, history, cache
<1>4. job[p].pc = "scanned" /\ mode = "live"
  BY DEF ScanTop, At, IInv, LocalTypes
<1>5. CASE job' = [job EXCEPT ![p].pc = "diff", ![p].devs = {}]
  <2>1. [job[p] EXCEPT !.pc = "diff", !.devs = {}] \in PollState
    BY <1>1 DEF PollState, Steps
  <2>2. /\ job' \in [Polls -> PollState] /\ job'[p].devs = {} /\ job'[p].pc = "diff"
    BY <1>1, <1>5, <2>1 DEF PollState
  <2> QED
    BY <1>2, <1>3, <1>4, <2>2, QuietStep
<1>6. CASE job' = [job EXCEPT ![p].pc = "advance", ![p].upTo = ScanMax(job[p].mark)]
  <2> DEFINE mark == job[p].mark
             j == [job[p] EXCEPT !.pc = "advance", !.upTo = ScanMax(mark)]
  <2>1. /\ mark \in 0..Len(certs)
        /\ watermark \in {NoMark, mark}
        /\ \A id \in job[p].devs : mark < id /\ id <= mark + Limit
        /\ \A seen \in CertIds : dispatched[seen] > 0 => seen <= mark
    BY <1>4 DEF IInv, ScanIsCurrent
  <2>2. job[p].devs \subseteq CertIds
    BY <1>1 DEF PollState
  <2>3. \A id \in job[p].devs :
           id <= Len(certs) /\ \A seen \in CertIds : dispatched[seen] > 0 => seen < id
    BY <1>4 DEF IInv, CarriedIsNew, Carrying
  <2>4. ScanMax(mark) \in mark..Len(certs)
    BY <1>2, <2>1 DEF ScanMax
  <2>5. \A id \in job[p].devs : id <= ScanMax(mark)
    BY <1>2, <2>1, <2>2, <2>3 DEF ScanMax, CertIds
  <2>6. j \in PollState
    <3>1. ScanMax(mark) \in Int
      BY <1>2, <2>1, <2>4
    <3> QED
      BY <1>1, <3>1 DEF PollState, Steps
  <2>7. /\ job' \in [Polls -> PollState]
        /\ job'[p].pc = "advance" /\ job'[p].mark = mark
        /\ job'[p].devs = job[p].devs /\ job'[p].upTo = ScanMax(mark)
    <3>1. job' = [job EXCEPT ![p] = j]
      BY <1>1, <1>6
    <3>2. /\ j.pc = "advance" /\ j.mark = mark /\ j.devs = job[p].devs
          /\ j.upTo = ScanMax(mark)
      BY <1>1 DEF PollState
    <3> HIDE DEF j
    <3> QED
      BY <1>1, <2>6, <3>1, <3>2
  <2> HIDE DEF mark, j
  <2>8. LocalTypes(p)' /\ AtMostOnce' /\ ShownBelowWatermark'
    BY <1>2, <1>3, <1>4, <2>7 DEF IInv, LocalTypes, AtMostOnce, ShownBelowWatermark
  <2>9. CarriedIsNew(p)'
    BY <1>3, <2>3, <2>7 DEF CarriedIsNew
  <2>10. ScanIsCurrent(p)'
    BY <1>3, <2>1, <2>4, <2>5, <2>7 DEF ScanIsCurrent
  <2>11. CarriedIsCovered(p)' /\ NothingBeforeScan(p)'
    BY <2>7 DEF CarriedIsCovered, NothingBeforeScan, Carrying
  <2> QED
    BY <2>8, <2>9, <2>10, <2>11 DEF IInv
<1> QED
  BY <1>5, <1>6 DEF ScanTop

\* The watermark is stored before the events are: from here on it covers them.
LEMMA AdvanceWatermarkStep ==
    ASSUME NEW p, Undisturbed(p), IInv(p), AdvanceWatermark(p)
    PROVE  IInv(p)'
<1>1. /\ job[p] \in PollState /\ job \in [Polls -> PollState] /\ p \in Polls
  BY JobTyped DEF IInv
<1>2. /\ live \subseteq Stakes /\ snapshot \subseteq Stakes /\ source \in Sources
      /\ Len(certs) \in Nat /\ mode = "live"
  BY DEF IInv, LocalTypes, AdvanceWatermark, At
<1>3. UNCHANGED <<certs, dispatched, live, source, snapshot, mode>>
  BY DEF AdvanceWatermark, chain, history
<1>4. job[p].pc = "advance" /\ Goto(p, "diff")
  BY DEF AdvanceWatermark, At
<1>5. /\ job[p].mark \in 0..Len(certs)
      /\ watermark \in {NoMark, job[p].mark}
      /\ \A id \in job[p].devs : job[p].mark < id
      /\ \A seen \in CertIds : dispatched[seen] > 0 => seen <= job[p].mark
      /\ job[p].upTo \in job[p].mark..Len(certs)
      /\ \A id \in job[p].devs : id <= job[p].upTo
  BY <1>4 DEF IInv, ScanIsCurrent
<1>6. watermark' = IF job[p].upTo > job[p].mark THEN job[p].upTo ELSE watermark
  BY <1>2 DEF AdvanceWatermark, Happens, Undisturbed
<1>7. /\ job' \in [Polls -> PollState] /\ job'[p].pc = "diff"
      /\ job'[p].devs = job[p].devs
  <2>1. "diff" \in Steps
    BY DEF Steps
  <2>2. job' \in [Polls -> PollState] /\ job'[p] = [job[p] EXCEPT !.pc = "diff"]
    BY <1>1, <1>4, <2>1, GotoTyped
  <2> QED
    BY <1>1, <2>2 DEF PollState
<1>8. job[p].devs \subseteq CertIds
  BY <1>1 DEF PollState
<1>9. LocalTypes(p)'
  <2>1. watermark' \in {NoMark} \cup 0..Len(certs)
    BY <1>2, <1>5, <1>6
  <2> QED
    BY <1>2, <1>3, <1>7, <2>1 DEF IInv, LocalTypes
<1>10. AtMostOnce' /\ ShownBelowWatermark'
  BY <1>2, <1>3, <1>5, <1>6 DEF IInv, AtMostOnce, ShownBelowWatermark, CertIds
<1>11. CarriedIsNew(p)'
  <2>1. \A id \in job[p].devs :
           id <= Len(certs) /\ \A seen \in CertIds : dispatched[seen] > 0 => seen < id
    BY <1>4 DEF IInv, CarriedIsNew, Carrying
  <2> QED
    BY <1>3, <1>7, <2>1 DEF CarriedIsNew
<1>12. CarriedIsCovered(p)'
  BY <1>2, <1>5, <1>6, <1>7, <1>8 DEF CarriedIsCovered, CertIds
<1>13. ScanIsCurrent(p)' /\ NothingBeforeScan(p)'
  BY <1>7 DEF ScanIsCurrent, NothingBeforeScan, Carrying
<1> QED
  BY <1>9, <1>10, <1>11, <1>12, <1>13 DEF IInv

\* Comparing the lists adds joins and leaves, and touches no certificate.
LEMMA DiffStep ==
    ASSUME NEW p, Undisturbed(p), IInv(p), Diff(p)
    PROVE  IInv(p)'
<1>1. /\ job[p] \in PollState /\ job \in [Polls -> PollState] /\ p \in Polls
  BY JobTyped DEF IInv
<1>2. UNCHANGED <<certs, dispatched, live, source, snapshot, watermark, mode>>
  BY DEF Diff, chain, history, cache
<1>3. job[p].pc = "diff" /\ mode = "live"
  BY DEF Diff, At, IInv, LocalTypes
<1>4. /\ job' \in [Polls -> PollState] /\ job'[p].pc \in {"snap", "store"}
      /\ job'[p].devs = job[p].devs
  <2>1. PICK known \in BOOLEAN, to \in {"snap", "store"} :
           job' = [job EXCEPT ![p].joins = Joins(job[p]),
                              ![p].leavers = Leavers(job[p], known), ![p].pc = to]
    BY DEF Diff
  <2>2. Joins(job[p]) \subseteq Stakes /\ Leavers(job[p], known) \subseteq Stakes
    BY <1>1 DEF Joins, Leavers, PollState
  <2> DEFINE j == [job[p] EXCEPT !.joins = Joins(job[p]),
                                 !.leavers = Leavers(job[p], known), !.pc = to]
  <2>3. j \in PollState
    BY <1>1, <2>1, <2>2 DEF PollState, Steps
  <2>4. job' = [job EXCEPT ![p] = j]
    BY <1>1, <2>1
  <2>5. j.pc = to /\ j.devs = job[p].devs
    BY <1>1 DEF PollState
  <2> HIDE DEF j
  <2> QED
    BY <1>1, <2>1, <2>3, <2>4, <2>5
<1>5. LocalTypes(p)' /\ AtMostOnce' /\ ShownBelowWatermark'
  BY <1>2, <1>3, <1>4 DEF IInv, LocalTypes, AtMostOnce, ShownBelowWatermark
<1>6. CarriedIsNew(p)' /\ CarriedIsCovered(p)'
  BY <1>2, <1>3, <1>4 DEF IInv, CarriedIsNew, CarriedIsCovered, Carrying
<1>7. ScanIsCurrent(p)' /\ NothingBeforeScan(p)'
  BY <1>4 DEF ScanIsCurrent, NothingBeforeScan, Carrying
<1> QED
  BY <1>5, <1>6, <1>7 DEF IInv

\* What is shown has not been shown before, and the watermark covers it.
LEMMA StoreEventsStep ==
    ASSUME NEW p, Undisturbed(p), IInv(p), StoreEvents(p)
    PROVE  /\ IInv(p)'
           /\ job[p].devs \subseteq 1..Len(certs)
           /\ \A id \in job[p].devs, seen \in CertIds : dispatched[seen] > 0 => seen < id
           /\ dispatched' = [id \in CertIds |-> IF id \in job[p].devs
                                               THEN dispatched[id] + 1 ELSE dispatched[id]]
<1>1. /\ job[p] \in PollState /\ job \in [Polls -> PollState] /\ p \in Polls
  BY JobTyped DEF IInv
<1>2. UNCHANGED <<certs, live, source, snapshot, watermark, mode>>
  BY DEF StoreEvents, chain
<1>3. job[p].pc = "store" /\ Goto(p, "snap") /\ mode = "live"
  BY DEF StoreEvents, At, IInv, LocalTypes
<1>4. job'[p].pc = "snap" /\ job' \in [Polls -> PollState]
  <2>1. "snap" \in Steps
    BY DEF Steps
  <2>2. job' \in [Polls -> PollState] /\ job'[p] = [job[p] EXCEPT !.pc = "snap"]
    BY <1>1, <1>3, <2>1, GotoTyped
  <2> QED
    BY <1>1, <2>2 DEF PollState
<1>5. dispatched \in [CertIds -> 0..2] /\ Len(certs) \in Nat
  BY DEF IInv, LocalTypes
<1>6. job[p].devs \subseteq CertIds
  BY <1>1 DEF PollState
<1>7. \A id \in job[p].devs :
         id <= Len(certs) /\ \A seen \in CertIds : dispatched[seen] > 0 => seen < id
  BY <1>3 DEF IInv, CarriedIsNew, Carrying
<1>8. \A id \in job[p].devs : dispatched[id] = 0
  BY <1>5, <1>6, <1>7 DEF CertIds
<1>9. dispatched' = [id \in CertIds |-> IF id \in job[p].devs
                                       THEN dispatched[id] + 1 ELSE dispatched[id]]
  BY <1>5, <1>6, <1>8 DEF StoreEvents, Again
<1>10. dispatched' \in [CertIds -> 0..2] /\ AtMostOnce'
  BY <1>5, <1>8, <1>9 DEF IInv, AtMostOnce
<1>11. LocalTypes(p)'
  BY <1>2, <1>3, <1>4, <1>10 DEF IInv, LocalTypes
<1>12. ShownBelowWatermark'
  <2>1. \A id \in job[p].devs : watermark # NoMark => id <= watermark
    BY <1>3 DEF IInv, CarriedIsCovered
  <2> QED
    BY <1>2, <1>5, <1>7, <1>9, <2>1 DEF IInv, ShownBelowWatermark
<1>13. CarriedIsNew(p)' /\ ScanIsCurrent(p)' /\ CarriedIsCovered(p)' /\ NothingBeforeScan(p)'
  BY <1>4 DEF CarriedIsNew, ScanIsCurrent, CarriedIsCovered, NothingBeforeScan, Carrying
<1>14. job[p].devs \subseteq 1..Len(certs)
  BY <1>5, <1>6, <1>7 DEF CertIds
<1> QED
  BY <1>7, <1>9, <1>10, <1>11, <1>12, <1>13, <1>14, <1>6 DEF IInv

-----------------------------------------------------------------------------
\* Every other step leaves what was shown, and what has landed, alone.
LEMMA QuietNext ==
    ASSUME NEW p, Undisturbed(p), IInv(p),
           \/ \E q \in Polls : PollStep(q) /\ ~StoreEvents(q)
           \/ SourceCatchesUp \/ Disturbance
           \/ UNCHANGED vars
    PROVE  IInv(p)' /\ UNCHANGED <<certs, dispatched>>
<1>1. /\ job[p] \in PollState /\ job \in [Polls -> PollState] /\ p \in Polls
      /\ Idle \in PollState /\ Idle.devs = {} /\ Idle.pc = "idle"
  BY JobTyped DEF IInv
<1>2. live \subseteq Stakes /\ snapshot \subseteq Stakes /\ source \in Sources
  BY DEF IInv, LocalTypes
<1>0. mode = "live" \/ job[p].pc = "idle"
  BY DEF IInv, LocalTypes
<1>3. CASE \E q \in Polls : PollStep(q) /\ ~StoreEvents(q)
  <2>1. PollStep(p) /\ ~StoreEvents(p)
    BY <1>3 DEF Undisturbed
  <2>2. UNCHANGED <<certs, dispatched>>
    BY <2>1 DEF PollStep, StartPoll, FetchList, Gate, StoreBaseline, StoreBaselineMeta,
       SeedWatermark, ScanCerts, ScanTop, AdvanceWatermark, Diff, StoreSnapshot,
       chain, history
  <2>3. CASE StoreSnapshot(p)
    <3>1. snapshot' \subseteq Stakes
      BY <1>1, <1>2, <2>3 DEF StoreSnapshot, PollState
    <3>2. job' \in [Polls -> PollState] /\ job'[p].devs = {} /\ job'[p].pc = "idle"
      BY <2>3, FinishTyped DEF StoreSnapshot, IInv
    <3> QED
      BY <1>2, <2>2, <2>3, <3>1, <3>2, QuietStep DEF StoreSnapshot, chain
  <2> QED
    BY <2>1, <2>2, <2>3, PollBeforeScan, ScanCertsStep, ScanTopStep,
       AdvanceWatermarkStep, DiffStep DEF PollStep
<1>4. CASE SourceCatchesUp
  <2>1. live' \subseteq Stakes /\ UNCHANGED <<certs, dispatched, mode, job, snapshot, source, watermark>>
    BY <1>4 DEF SourceCatchesUp, cache, history
  <2> QED
    BY <1>0, <1>2, <2>1, SurroundingStep
<1>5. CASE Restart
  <2>1. /\ UNCHANGED <<certs, dispatched, live, snapshot, source, watermark>>
        /\ mode' = "live" /\ job' = [q \in Polls |-> Idle]
    BY <1>5 DEF Restart, chain, cache, history
  <2>2. job' \in [Polls -> PollState] /\ job'[p].devs = {} /\ job'[p].pc = "idle"
    BY <1>1, <2>1
  <2> QED
    BY <1>2, <2>1, <2>2, QuietStep
<1>6. CASE ClearCache
  <2>1. /\ UNCHANGED <<certs, dispatched, mode, job, live, source>>
        /\ snapshot' = {} /\ watermark' = NoMark
    BY <1>6 DEF ClearCache, chain, history
  <2> QED
    BY <1>0, <1>2, <2>1, SurroundingStep
<1>7. CASE SwitchSource
  <2>1. /\ UNCHANGED <<certs, dispatched, mode, job, live, snapshot, watermark>>
        /\ source' \in Sources
    BY <1>7 DEF SwitchSource, cache, history
  <2> QED
    BY <1>0, <1>2, <2>1, SurroundingStep
<1>8. ASSUME \/ \E s \in Movers : Deregister(s)
             \/ DbsyncToggles \/ FlipMode \/ Reset \/ ClearFeed \/ UNCHANGED vars
      PROVE  IInv(p)' /\ UNCHANGED <<certs, dispatched>>
  <2>1. mode' = "live" \/ job[p].pc = "idle"
    <3>1. CASE FlipMode
      BY <1>1, <3>1 DEF FlipMode, Disturbed, Undisturbed, At
    <3> QED
      BY <1>0, <1>8, <3>1 DEF Deregister, DbsyncToggles, Reset, ClearFeed, vars
  <2>2. UNCHANGED <<certs, dispatched, job, live, source, snapshot, watermark>>
    BY <1>8 DEF FlipMode, Deregister, DbsyncToggles, Reset, ClearFeed, vars, chain, cache, history
  <2> QED
    BY <1>2, <2>1, <2>2, SurroundingStep
<1> QED
  BY <1>3, <1>4, <1>5, <1>6, <1>7, <1>8 DEF Disturbance

\* The strengthened invariant is inductive.
LEMMA NextPreserves ==
    ASSUME NEW p, Undisturbed(p), IInv(p), [Next]_vars
    PROVE  IInv(p)'
<1>1. CASE \E q \in Polls : StoreEvents(q)
  BY <1>1, StoreEventsStep DEF Undisturbed
<1>2. CASE \E s \in Movers, to \in {"ours", "other"} : NewCert(s, to)
  BY <1>2, NewCertStep
<1> QED
  BY <1>1, <1>2, QuietNext DEF Next

\* No certificate is shown to the operator twice ("each cert emits exactly
\* once"), whatever crashes, outages, source switches and cache clears happen.
THEOREM ShownAtMostOnce ==
    ASSUME NEW p, Undisturbed(p)
    PROVE  Spec => []AtMostOnce
<1>1. Init => IInv(p)
  BY InitEstablishes
<1>2. IInv(p) /\ [Next]_vars => IInv(p)'
  BY NextPreserves
<1>3. IInv(p) => AtMostOnce
  BY DEF IInv
<1> QED
  BY <1>1, <1>2, <1>3, PTL DEF Spec

\* The poll implements CertReports: certificates are reported in the order they
\* landed, and never again.
THEOREM ReportsInOrder ==
    ASSUME NEW p, Undisturbed(p)
    PROVE  Spec => InOrderOnce
<1>1. Init => Reports!Init
  BY DEF Init, Reports!Init, CertIds
<1>2. IInv(p) /\ [Next]_vars => [Reports!Next]_<<Len(certs), dispatched>>
  <2> SUFFICES ASSUME IInv(p), [Next]_vars
               PROVE  [Reports!Next]_<<Len(certs), dispatched>>
    OBVIOUS
  <2>1. CASE \E q \in Polls : StoreEvents(q)
    <3>1. StoreEvents(p)
      BY <2>1 DEF Undisturbed
    <3>2. /\ job[p].devs \subseteq 1..Len(certs)
          /\ \A id \in job[p].devs, seen \in CertIds : dispatched[seen] > 0 => seen < id
          /\ dispatched' = [id \in CertIds |-> IF id \in job[p].devs
                                              THEN dispatched[id] + 1 ELSE dispatched[id]]
          /\ Len(certs)' = Len(certs)
      BY <3>1, StoreEventsStep DEF StoreEvents, chain
    <3>3. Reports!Report(job[p].devs)
      BY <3>2 DEF Reports!Report, CertIds
    <3> QED
      BY <3>2, <3>3 DEF Reports!Next
  <2>2. CASE \E s \in Movers, to \in {"ours", "other"} : NewCert(s, to)
    <3>1. PICK s \in Movers, to \in {"ours", "other"} : NewCert(s, to)
      BY <2>2
    <3>2. certs \in Seq([stake : Stakes, to : {"ours", "other"}]) /\ s \in Stakes
      BY DEF IInv, LocalTypes
    <3>3. /\ Len(certs) < MaxCerts /\ Len(certs') = Len(certs) + 1
          /\ dispatched' = dispatched
      BY <3>1, <3>2 DEF NewCert, history
    <3> QED
      BY <3>3 DEF Reports!Next, Reports!Land
  <2> QED
    BY <2>1, <2>2, QuietNext DEF Next
<1>3. Init => IInv(p)
  BY InitEstablishes
<1>4. IInv(p) /\ [Next]_vars => IInv(p)'
  BY NextPreserves
<1> QED
  BY <1>1, <1>2, <1>3, <1>4, PTL DEF Spec, InOrderOnce, Reports!Spec

-----------------------------------------------------------------------------
(* No certificate is passed over but by a seed: one that touches our pool,  *)
(* lies at or below the watermark and is newer than the last seed has been  *)
(* shown, or a running poll is about to show it.  For any accounts, number  *)
(* of certificates, scan limit and number of polls side by side, through    *)
(* failing reads, writes and queries, outages of db-sync, resets, cleared   *)
(* caches, changes of source and demo visits at any moment.                 *)
(*                                                                          *)
(* The watermark moves only by a seed, or to the end of a window that was   *)
(* read, by a poll that carries what the window holds.                      *)
\* No crash, and no certificate between the two statements of a scan.
Steady == Disturb \cap {"restart", "race"} = {}

Carries(j) == j.pc \in {"advance", "diff", "store"}

Surroundings ==
    live \subseteq Stakes /\ snapshot \subseteq Stakes /\ source \in Sources
    /\ reachable \in BOOLEAN

Types ==
    /\ certs \in Seq([stake : Stakes, to : {"ours", "other"}])
    /\ Len(certs) <= MaxCerts
    /\ watermark \in {NoMark} \cup 0..Len(certs)
    /\ seeded \in 0..Len(certs)
    /\ job \in [Polls -> PollState]
    /\ dispatched \in [CertIds -> 0..2]
    /\ Surroundings

\* Shown, carried to be shown, or passed over by a seed.
Known(id) == Shown(id) \/ id <= seeded

KnownUpTo(n) == \A id \in 1..Len(certs) : id <= n /\ Touches(id) => Known(id)

\* A scan begins where everything is known, and holds what its window does.
ScanSound(p) ==
    job[p].pc \in {"scanned", "advance"} =>
        /\ job[p].mark \in 0..Len(certs) /\ KnownUpTo(job[p].mark)
        /\ job[p].pc = "scanned" => job[p].devs = ScanEvents(job[p].mark)
        /\ job[p].pc = "advance" =>
             /\ job[p].upTo \in 0..Len(certs)
             /\ \A id \in 1..Len(certs) :
                  job[p].mark < id /\ id <= job[p].upTo /\ Touches(id) => id \in job[p].devs

CoverageInv ==
    /\ Types
    /\ NoCertSkipped
    /\ \A p \in Polls : ScanSound(p)

USE LimitAssumption, MaxCertsAssumption, MoversAssumption

LEMMA SkippedMeans == ASSUME Types PROVE NoCertSkipped <=> KnownUpTo(watermark)
BY DEF NoCertSkipped, KnownUpTo, Known, Types

LEMMA IdleFacts == Idle \in PollState /\ Idle.pc = "idle" /\ ~Carries(Idle)
BY DEF Idle, PollState, Steps, NoMark, Carries

LEMMA InitInv == ASSUME Init PROVE CoverageInv
<1>1. /\ certs = <<>> /\ Len(certs) = 0 /\ watermark = 0 /\ seeded = 0
      /\ certs \in Seq([stake : Stakes, to : {"ours", "other"}])
  BY DEF Init
<1>2. job \in [Polls -> PollState] /\ \A p \in Polls : job[p].pc = "idle"
  BY IdleFacts DEF Init
<1>3. Types
  BY <1>1, <1>2 DEF Types, Surroundings, Init, CertIds, Sources
<1>4. NoCertSkipped
  BY <1>1 DEF NoCertSkipped
<1>5. \A p \in Polls : ScanSound(p)
  BY <1>2 DEF ScanSound
<1> QED
  BY <1>3, <1>4, <1>5 DEF CoverageInv

-----------------------------------------------------------------------------
(* What is known stays known.                                              *)

\* Each poll that carries a certificate goes on carrying it or shows it.
LEMMA KnownStays ==
    ASSUME NEW id \in Nat, seeded \in Nat, seeded' \in Nat, seeded <= seeded',
           dispatched[id] > 0 => dispatched'[id] > 0,
           \A p \in Polls : Carries(job[p]) /\ id \in job[p].devs =>
               dispatched'[id] > 0 \/ (Carries(job'[p]) /\ id \in job'[p].devs),
           Known(id)
    PROVE  Known(id)'
<1>1. CASE id <= seeded
  BY <1>1 DEF Known
<1>2. CASE Shown(id)
  BY <1>2 DEF Known, Shown, Carried, Carries
<1> QED
  BY <1>1, <1>2 DEF Known

\* The table only grows, and what a certificate changes is decided when it lands.
LEMMA TouchesStays ==
    ASSUME Types, NEW s \in Stakes, NEW to \in {"ours", "other"},
           certs' = Append(certs, [stake |-> s, to |-> to])
    PROVE  /\ certs' \in Seq([stake : Stakes, to : {"ours", "other"}])
           /\ Len(certs') = Len(certs) + 1
           /\ \A id \in 1..Len(certs) : Touches(id)' <=> Touches(id)
<1>1. /\ certs' \in Seq([stake : Stakes, to : {"ours", "other"}])
      /\ Len(certs') = Len(certs) + 1 /\ Len(certs) \in Nat
      /\ \A i \in 1..Len(certs) : certs'[i] = certs[i]
  BY DEF Types
<1>2. ASSUME NEW id \in 1..Len(certs)
      PROVE  Touches(id)' <=> Touches(id)
  <2>1. \A i \in 1..(id - 1) : i \in 1..Len(certs)
    BY <1>1
  <2>2. \A i \in 1..(id - 1) : \A j \in (i + 1)..(id - 1) : j \in 1..Len(certs)
    BY <1>1
  <2>3. Previous(id)' = Previous(id)
    BY <1>1, <2>1, <2>2 DEF Previous
  <2>4. \A i \in Previous(id) : certs'[i] = certs[i]
    BY <1>1, <2>1 DEF Previous
  <2> QED
    BY <1>1, <2>3, <2>4 DEF Touches
<1> QED
  BY <1>1, <1>2

\* A step of one poll that drops nothing it carries unshown.
LEMMA OnePollMoves ==
    ASSUME CoverageInv, NEW p \in Polls, NEW b \in PollState,
           job' = [job EXCEPT ![p] = b], Types', UNCHANGED certs, seeded <= seeded',
           \A id \in CertIds : dispatched[id] > 0 => dispatched'[id] > 0,
           Carries(job[p]) => \A id \in job[p].devs :
               dispatched'[id] > 0 \/ (Carries(b) /\ id \in b.devs),
           watermark' = watermark \/ KnownUpTo(watermark)',
           ScanSound(p)'
    PROVE  CoverageInv'
<1>1. \A q \in Polls : job'[q] = IF q = p THEN b ELSE job[q]
  BY DEF CoverageInv, Types
<1>2. ASSUME NEW id \in CertIds, Known(id)
      PROVE  Known(id)'
  <2>1. id \in Nat /\ seeded \in Nat /\ seeded' \in Nat
    BY DEF CoverageInv, Types, CertIds
  <2> QED
    BY <1>1, <1>2, <2>1, KnownStays
<1>3. /\ \A id : Touches(id)' <=> Touches(id)
      /\ Len(certs)' = Len(certs)
      /\ \A n : ScanEvents(n)' = ScanEvents(n)
  BY DEF Touches, Previous, ScanEvents
<1>4. ASSUME NEW n, KnownUpTo(n)
      PROVE  KnownUpTo(n)'
  <2>1. \A id \in 1..Len(certs) : id \in CertIds
    BY DEF CoverageInv, Types, CertIds
  <2> QED
    BY <1>2, <1>3, <1>4, <2>1, Zenon DEF KnownUpTo
<1>5. ASSUME NEW q \in Polls, q # p
      PROVE  ScanSound(q)'
  <2>1. job'[q] = job[q] /\ ScanSound(q)
    BY <1>1, <1>5 DEF CoverageInv
  <2>2. ASSUME job[q].pc \in {"scanned", "advance"}
        PROVE  KnownUpTo(job[q].mark)'
    BY <1>4, <2>1, <2>2 DEF ScanSound
  <2> QED
    BY <1>3, <2>1, <2>2 DEF ScanSound
<1>6. NoCertSkipped'
  <2>1. KnownUpTo(watermark)'
    BY <1>4, SkippedMeans DEF CoverageInv
  <2> QED
    BY <2>1 DEF NoCertSkipped, KnownUpTo, Known, Types
<1> QED
  BY <1>5, <1>6 DEF CoverageInv

\* A seed passes over what the table holds, and nothing more.
Unmoved == UNCHANGED <<watermark, seeded>>
Seeding == watermark' = Len(certs) /\ seeded' = Len(certs)

\* The same for a step that shows nothing and does not scan.
LEMMA QuietMove ==
    ASSUME CoverageInv, NEW p \in Polls, NEW b \in PollState,
           job' = [job EXCEPT ![p] = b],
           UNCHANGED <<certs, dispatched>>, Surroundings', Unmoved \/ Seeding,
           b.pc \notin {"scanned", "advance"},
           Carries(job[p]) => job[p].devs = {} \/ (Carries(b) /\ b.devs = job[p].devs)
    PROVE  CoverageInv'
<1>1. job'[p] = b /\ job' \in [Polls -> PollState]
  BY DEF CoverageInv, Types
<1>2. Types' /\ seeded <= seeded'
  <2>1. Len(certs) \in Nat /\ Types
    BY DEF CoverageInv, Types
  <2>2. /\ watermark' \in {NoMark} \cup 0..Len(certs) /\ seeded' \in 0..Len(certs)
        /\ seeded <= seeded'
    BY <2>1 DEF Types, Unmoved, Seeding
  <2> QED
    BY <1>1, <2>1, <2>2 DEF Types
<1>3. ScanSound(p)'
  BY <1>1 DEF ScanSound
<1>4. Carries(job[p]) => \A id \in job[p].devs :
          dispatched'[id] > 0 \/ (Carries(b) /\ id \in b.devs)
  OBVIOUS
<1>5. watermark' = watermark \/ KnownUpTo(watermark)'
  <2>1. CASE Seeding
    BY <2>1 DEF Seeding, KnownUpTo, Known
  <2> QED
    BY <2>1 DEF Unmoved
<1> QED
  BY <1>2, <1>3, <1>4, <1>5, OnePollMoves

-----------------------------------------------------------------------------
(* The poll's steps.                                                       *)

LEMMA PollFacts ==
    ASSUME CoverageInv, NEW p \in Polls
    PROVE  /\ job[p] \in PollState /\ job \in [Polls -> PollState]
           /\ ScanSound(p) /\ Surroundings
BY DEF CoverageInv, Types

\* Going on and ending are quiet when nothing is carried.
LEMMA GoesOn ==
    ASSUME CoverageInv, NEW p \in Polls, ~Carries(job[p]),
           NEW to \in Steps \ {"scanned", "advance"}, Goto(p, to) \/ Finish(p),
           UNCHANGED <<certs, dispatched>>, Surroundings', Unmoved \/ Seeding
    PROVE  CoverageInv'
<1>1. CASE Goto(p, to)
  <2> DEFINE b == [job[p] EXCEPT !.pc = to]
  <2>1. b \in PollState /\ b.pc = to
    BY PollFacts DEF PollState
  <2>2. job' = [job EXCEPT ![p] = b]
    BY <1>1, PollFacts DEF Goto
  <2> HIDE DEF b
  <2> QED
    BY <2>1, <2>2, QuietMove
<1>2. CASE Finish(p)
  BY <1>2, IdleFacts, QuietMove DEF Finish
<1> QED
  BY <1>1, <1>2

LEMMA BeforeScan ==
    ASSUME CoverageInv, NEW p \in Polls,
           \/ StartPoll(p) \/ FetchList(p) \/ Gate(p)
           \/ StoreBaseline(p) \/ StoreBaselineMeta(p) \/ SeedWatermark(p)
    PROVE  CoverageInv'
<1>1. job[p] \in PollState /\ job \in [Polls -> PollState] /\ Surroundings
  BY PollFacts
<1>2. UNCHANGED <<certs, dispatched, live, source, reachable>> /\ ~Carries(job[p])
  BY DEF StartPoll, FetchList, Gate, StoreBaseline, StoreBaselineMeta, SeedWatermark, chain,
         history, At, Carries
<1>3. CASE StartPoll(p)
  <2> DEFINE b == [Idle EXCEPT !.pc = "list"]
  <2>1. b \in PollState /\ b.pc = "list"
    BY IdleFacts DEF PollState, Steps
  <2>2. job' = [job EXCEPT ![p] = b] /\ Unmoved /\ Surroundings'
    BY <1>1, <1>3 DEF StartPoll, cache, history, chain, Unmoved, Surroundings
  <2> HIDE DEF b
  <2> QED
    BY <1>2, <2>1, <2>2, QuietMove
<1>4. CASE FetchList(p)
  <2>0. Unmoved /\ Surroundings'
    BY <1>1, <1>4 DEF FetchList, cache, history, chain, Unmoved, Surroundings
  <2>1. CASE job' = [job EXCEPT ![p].pc = "gate", ![p].cur = live]
    <3> DEFINE b == [job[p] EXCEPT !.pc = "gate", !.cur = live]
    <3>1. b \in PollState /\ b.pc = "gate"
      BY <1>1, <2>1 DEF PollState, Steps, Surroundings
    <3>2. job' = [job EXCEPT ![p] = b]
      BY <1>1, <2>1
    <3> HIDE DEF b
    <3> QED
      BY <1>2, <2>0, <3>1, <3>2, QuietMove
  <2>2. CASE job' = [job EXCEPT ![p] = Idle]
    BY <1>2, <2>0, <2>2, IdleFacts, QuietMove
  <2> QED
    BY <1>4, <2>1, <2>2 DEF FetchList, Finish
<1>5. CASE Gate(p)
  <2>1. PICK prev \in SUBSET Stakes, to \in {"base", "certs", "diff"}, db \in BOOLEAN :
          job' = [job EXCEPT ![p].prev = prev, ![p].src = CurSource,
                             ![p].pc = to, ![p].dbActive = db]
    BY <1>1, <1>5, GateGoes DEF Surroundings
  <2> DEFINE b == [job[p] EXCEPT !.prev = prev, !.src = CurSource,
                                 !.pc = to, !.dbActive = db]
  <2>2. CurSource \in Sources \cup {"", "demo"}
    BY <1>1 DEF CurSource, Surroundings
  <2>3. b \in PollState /\ b.pc = to
    BY <1>1, <2>1, <2>2 DEF PollState, Steps
  <2>4. job' = [job EXCEPT ![p] = b] /\ Unmoved /\ Surroundings'
    BY <1>1, <1>5, <2>1 DEF Gate, cache, history, chain, Unmoved, Surroundings
  <2> HIDE DEF b
  <2> QED
    BY <1>2, <2>1, <2>3, <2>4, QuietMove
<1>6. CASE StoreBaseline(p)
  <2>1. Unmoved /\ Surroundings'
    BY <1>1, <1>6 DEF StoreBaseline, history, chain, Unmoved, Surroundings, PollState
  <2> QED
    BY <1>2, <1>6, <2>1, GoesOn DEF StoreBaseline, Steps
<1>7. CASE StoreBaselineMeta(p)
  <2>1. Unmoved /\ Surroundings'
    BY <1>1, <1>7 DEF StoreBaselineMeta, history, chain, Unmoved, Surroundings
  <2> QED
    BY <1>2, <1>7, <2>1, GoesOn DEF StoreBaselineMeta, Steps
<1>8. CASE SeedWatermark(p)
  <2>1. (Unmoved \/ Seeding) /\ Surroundings'
    BY <1>1, <1>8 DEF SeedWatermark, chain, Unmoved, Seeding, Surroundings
  <2> QED
    BY <1>2, <1>8, <2>1, GoesOn DEF SeedWatermark, Steps
<1> QED
  BY <1>3, <1>4, <1>5, <1>6, <1>7, <1>8

\* The scan's first statement.
LEMMA ScanCertsCovers ==
    ASSUME CoverageInv, NEW p \in Polls, ScanCerts(p)
    PROVE  CoverageInv'
<1>1. /\ job[p] \in PollState /\ job \in [Polls -> PollState] /\ Surroundings
      /\ job[p].pc = "certs" /\ ~Carries(job[p])
  BY PollFacts DEF ScanCerts, At, Carries
<1>2. /\ UNCHANGED <<certs, watermark, seeded, dispatched>>
      /\ Unmoved /\ Surroundings'
  BY <1>1 DEF ScanCerts, chain, cache, history, Surroundings, Unmoved
<1>3. CASE Goto(p, "seed") \/ Goto(p, "diff")
  BY <1>1, <1>2, <1>3, GoesOn DEF Steps
<1>4. CASE /\ watermark # NoMark
           /\ job' = [job EXCEPT ![p].pc = "scanned", ![p].mark = watermark,
                                 ![p].devs = ScanEvents(watermark)]
  <2> DEFINE b == [job[p] EXCEPT !.pc = "scanned", !.mark = watermark,
                                 !.devs = ScanEvents(watermark)]
  <2>0. watermark \in 0..Len(certs) /\ KnownUpTo(watermark)
    BY <1>4, SkippedMeans DEF CoverageInv, Types
  <2>1. ScanEvents(watermark) \subseteq CertIds
    BY DEF ScanEvents, CertIds, CoverageInv, Types
  <2>2. /\ b \in PollState /\ b.pc = "scanned"
        /\ b.mark = watermark /\ b.devs = ScanEvents(watermark)
    <3>1. watermark \in Int
      BY <2>0 DEF CoverageInv, Types
    <3> QED
      BY <1>1, <2>1, <3>1 DEF PollState, Steps
  <2>3. job' = [job EXCEPT ![p] = b]
    BY <1>1, <1>4
  <2> HIDE DEF b
  <2>4. job'[p] = b /\ job' \in [Polls -> PollState]
    BY <1>1, <2>2, <2>3
  <2>5. Types' /\ seeded <= seeded'
    BY <1>2, <2>4 DEF CoverageInv, Types
  <2>6. ASSUME NEW id \in 1..Len(certs), Known(id)
        PROVE  Known(id)'
    BY <1>1, <1>2, <2>3, <2>5, <2>6, KnownStays DEF CoverageInv, Types
  <2>7. /\ \A id : Touches(id)' <=> Touches(id)
        /\ ScanEvents(watermark)' = ScanEvents(watermark)
    BY <1>2 DEF ScanEvents, Touches, Previous
  <2>8. KnownUpTo(watermark)'
    BY <1>2, <2>0, <2>6, <2>7 DEF KnownUpTo
  <2>9. ScanSound(p)'
    <3>1. job'[p].mark = watermark /\ job'[p].pc = "scanned"
          /\ job'[p].devs = ScanEvents(watermark)
      BY <2>2, <2>4
    <3>2. KnownUpTo(job[p].mark)' /\ ScanEvents(job[p].mark)' = ScanEvents(watermark)
      BY <1>2, <2>7, <2>8, <3>1 DEF KnownUpTo, ScanEvents
    <3> QED
      BY <1>2, <2>0, <3>1, <3>2 DEF ScanSound
  <2> QED
    BY <1>1, <1>2, <2>2, <2>3, <2>5, <2>9, OnePollMoves
<1> QED
  BY <1>3, <1>4 DEF ScanCerts

\* Its second: the window's end, up to which the first has read everything.
LEMMA ScanTopCovers ==
    ASSUME CoverageInv, NEW p \in Polls, ScanTop(p)
    PROVE  CoverageInv'
<1>1. /\ job[p] \in PollState /\ job \in [Polls -> PollState] /\ Surroundings
      /\ job[p].pc = "scanned" /\ ~Carries(job[p])
  BY PollFacts DEF ScanTop, At, Carries
<1>2. /\ UNCHANGED <<certs, watermark, seeded, dispatched>>
      /\ Unmoved /\ Surroundings'
  BY <1>1 DEF ScanTop, chain, cache, history, Surroundings, Unmoved
<1>3. /\ job[p].mark \in 0..Len(certs) /\ KnownUpTo(job[p].mark)
      /\ job[p].devs = ScanEvents(job[p].mark)
  BY <1>1, PollFacts DEF ScanSound
<1>4. CASE job' = [job EXCEPT ![p].pc = "diff", ![p].devs = {}]
  <2> DEFINE b == [job[p] EXCEPT !.pc = "diff", !.devs = {}]
  <2>1. b \in PollState /\ b.pc = "diff"
    BY <1>1 DEF PollState, Steps
  <2>2. job' = [job EXCEPT ![p] = b]
    BY <1>1, <1>4
  <2> HIDE DEF b
  <2> QED
    BY <1>1, <1>2, <2>1, <2>2, QuietMove
<1>5. CASE job' = [job EXCEPT ![p].pc = "advance", ![p].upTo = ScanMax(job[p].mark)]
  <2> DEFINE mark == job[p].mark
             top == ScanMax(mark)
             b == [job[p] EXCEPT !.pc = "advance", !.upTo = top]
  <2>1. top \in 0..Len(certs) /\ top <= mark + Limit
    BY <1>3 DEF ScanMax, CoverageInv, Types
  <2>2. \A id \in 1..Len(certs) :
            mark < id /\ id <= top /\ Touches(id) => id \in ScanEvents(mark)
    BY <1>3, <2>1 DEF ScanEvents, CoverageInv, Types
  <2> HIDE DEF top
  <2>3. /\ b \in PollState /\ b.pc = "advance"
        /\ b.mark = mark /\ b.devs = ScanEvents(mark) /\ b.upTo = top
    <3>1. top \in Int
      BY <2>1 DEF CoverageInv, Types
    <3> QED
      BY <1>1, <1>3, <3>1 DEF PollState, Steps
  <2>4. job' = [job EXCEPT ![p] = b]
    BY <1>1, <1>5 DEF top
  <2> HIDE DEF b
  <2>5. job'[p] = b /\ job' \in [Polls -> PollState]
    BY <1>1, <2>3, <2>4
  <2>6. Types' /\ seeded <= seeded'
    BY <1>2, <2>5 DEF CoverageInv, Types
  <2>7. ASSUME NEW id \in 1..Len(certs), Known(id)
        PROVE  Known(id)'
    BY <1>1, <1>2, <2>4, <2>6, <2>7, KnownStays DEF CoverageInv, Types
  <2>8. \A id \in 1..Len(certs) : Touches(id)' <=> Touches(id)
    BY <1>2 DEF Touches, Previous
  <2>9. ScanSound(p)'
    <3>1. job'[p].mark = mark /\ job'[p].pc = "advance"
          /\ job'[p].devs = ScanEvents(mark) /\ job'[p].upTo = top
      BY <2>3, <2>5
    <3>2. KnownUpTo(job[p].mark)'
      BY <1>2, <1>3, <2>7, <2>8, <3>1 DEF KnownUpTo
    <3> QED
      BY <1>2, <1>3, <2>1, <2>2, <2>8, <3>1, <3>2 DEF ScanSound
  <2> QED
    BY <1>1, <1>2, <2>3, <2>4, <2>6, <2>9, OnePollMoves
<1> QED
  BY <1>4, <1>5 DEF ScanTop

\* The watermark moves to the window's end, or the write fails.
LEMMA AdvanceStep ==
    ASSUME CoverageInv, NEW p \in Polls, AdvanceWatermark(p)
    PROVE  CoverageInv'
<1>1. /\ job[p] \in PollState /\ job \in [Polls -> PollState] /\ Surroundings
      /\ job[p].pc = "advance"
  BY PollFacts DEF AdvanceWatermark, At
<1>2. /\ UNCHANGED <<certs, seeded, dispatched>> /\ Surroundings'
      /\ watermark' \in {watermark, job[p].upTo}
  BY <1>1 DEF AdvanceWatermark, chain, history, Surroundings
<1>3. /\ job[p].mark \in 0..Len(certs) /\ KnownUpTo(job[p].mark)
      /\ job[p].upTo \in 0..Len(certs)
      /\ \A id \in 1..Len(certs) :
           job[p].mark < id /\ id <= job[p].upTo /\ Touches(id) => id \in job[p].devs
  BY <1>1, PollFacts DEF ScanSound
<1> DEFINE b == [job[p] EXCEPT !.pc = "diff"]
<1>4. b \in PollState /\ b.pc = "diff" /\ b.devs = job[p].devs
  BY <1>1 DEF PollState, Steps
<1>5. job' = [job EXCEPT ![p] = b]
  BY <1>1 DEF AdvanceWatermark, Goto
<1> HIDE DEF b
<1>6. job'[p] = b /\ job' \in [Polls -> PollState]
  BY <1>1, <1>4, <1>5
<1>7. Types' /\ ScanSound(p)' /\ seeded <= seeded'
  BY <1>1, <1>2, <1>3, <1>4, <1>6 DEF CoverageInv, Types, ScanSound
<1>8. ASSUME NEW id \in 1..Len(certs), Known(id)
      PROVE  Known(id)'
  BY <1>1, <1>2, <1>4, <1>5, <1>7, <1>8, KnownStays DEF Carries, CoverageInv, Types
<1>9. \A id \in 1..Len(certs) : Touches(id)' <=> Touches(id)
  BY <1>2 DEF Touches, Previous
<1>10. ASSUME watermark' = job[p].upTo
       PROVE  KnownUpTo(watermark)'
  <2>1. ASSUME NEW id \in 1..Len(certs), id <= job[p].upTo, Touches(id)
        PROVE  Known(id)'
    <3>1. CASE id <= job[p].mark
      BY <1>3, <1>8, <2>1, <3>1 DEF KnownUpTo
    <3>2. CASE ~(id <= job[p].mark)
      <4>1. id \in job[p].devs
        BY <1>3, <2>1, <3>2
      <4> QED
        BY <1>4, <1>6, <4>1 DEF Known, Shown, Carried
    <3> QED
      BY <3>1, <3>2
  <2> QED
    BY <1>2, <1>9, <1>10, <2>1 DEF KnownUpTo
<1> QED
  BY <1>1, <1>2, <1>4, <1>5, <1>7, <1>10, OnePollMoves DEF Carries

\* What it carries goes on to be shown, if there is anything.
LEMMA DiffCovers ==
    ASSUME CoverageInv, NEW p \in Polls, Diff(p)
    PROVE  CoverageInv'
<1>1. /\ job[p] \in PollState /\ job \in [Polls -> PollState] /\ Surroundings
      /\ job[p].pc = "diff"
  BY PollFacts DEF Diff, At
<1>2. UNCHANGED <<certs, dispatched>> /\ Unmoved /\ Surroundings'
  BY <1>1 DEF Diff, chain, cache, history, Surroundings, Unmoved
<1>3. PICK known \in BOOLEAN, to \in {"snap", "store"} :
        /\ job' = [job EXCEPT ![p].joins = Joins(job[p]),
                              ![p].leavers = Leavers(job[p], known), ![p].pc = to]
        /\ to = "snap" => job[p].devs = {}
  BY DEF Diff
<1> DEFINE b == [job[p] EXCEPT !.joins = Joins(job[p]),
                               !.leavers = Leavers(job[p], known), !.pc = to]
<1>4. Joins(job[p]) \subseteq Stakes /\ Leavers(job[p], known) \subseteq Stakes
  BY <1>1 DEF Joins, Leavers, PollState
<1>5. b \in PollState /\ b.pc = to /\ b.devs = job[p].devs
  BY <1>1, <1>4 DEF PollState, Steps
<1>6. job' = [job EXCEPT ![p] = b]
  BY <1>1, <1>3
<1>7. job[p].devs = {} \/ b.pc = "store"
  BY <1>3, <1>5
<1> HIDE DEF b
<1> QED
  BY <1>1, <1>2, <1>5, <1>6, <1>7, QuietMove DEF Carries

\* What was carried is shown.
LEMMA StoreEventsCovers ==
    ASSUME CoverageInv, NEW p \in Polls, StoreEvents(p)
    PROVE  CoverageInv'
<1>1. /\ job[p] \in PollState /\ job \in [Polls -> PollState] /\ Surroundings
      /\ job[p].pc = "store"
  BY PollFacts DEF StoreEvents, At
<1>2. UNCHANGED <<certs, watermark, seeded>> /\ Surroundings'
  BY <1>1 DEF StoreEvents, chain, Surroundings
<1> DEFINE b == [job[p] EXCEPT !.pc = "snap"]
<1>3. b \in PollState /\ b.pc = "snap"
  BY <1>1 DEF PollState, Steps
<1>4. job' = [job EXCEPT ![p] = b]
  BY <1>1 DEF StoreEvents, Goto
<1> HIDE DEF b
<1>5. job'[p] = b /\ job' \in [Polls -> PollState]
  BY <1>1, <1>3, <1>4
<1>6. /\ dispatched' \in [CertIds -> 0..2]
      /\ \A id \in CertIds : dispatched[id] > 0 \/ id \in job[p].devs => dispatched'[id] > 0
  <2>1. dispatched' = [id \in CertIds |->
                          IF id \in job[p].devs THEN Again(dispatched[id]) ELSE dispatched[id]]
    BY DEF StoreEvents
  <2>2. \A id \in CertIds : dispatched[id] \in 0..2 /\ Again(dispatched[id]) \in 1..2
    BY DEF CoverageInv, Types, Again
  <2> QED
    BY <2>1, <2>2
<1>7. Types' /\ ScanSound(p)' /\ seeded <= seeded'
  BY <1>1, <1>2, <1>3, <1>5, <1>6 DEF CoverageInv, Types, ScanSound
<1>8. job[p].devs \subseteq CertIds
  BY <1>1 DEF PollState
<1> QED
  BY <1>1, <1>2, <1>3, <1>4, <1>6, <1>7, <1>8, OnePollMoves

LEMMA StoreSnapshotStep ==
    ASSUME CoverageInv, NEW p \in Polls, StoreSnapshot(p)
    PROVE  CoverageInv'
<1>1. job[p] \in PollState /\ Surroundings /\ ~Carries(job[p])
  BY PollFacts DEF StoreSnapshot, At, Carries
<1>2. UNCHANGED <<certs, dispatched>> /\ Unmoved /\ Finish(p) /\ Surroundings'
  BY <1>1 DEF StoreSnapshot, chain, history, Surroundings, Unmoved, PollState
<1> QED
  BY <1>1, <1>2, GoesOn DEF Steps

-----------------------------------------------------------------------------
(* The chain and the surroundings.                                         *)

\* A certificate lands, beyond the watermark and while no scan is half done.
LEMMA NewCertCovers ==
    ASSUME Steady, CoverageInv, NEW s \in Movers, NEW to \in {"ours", "other"}, NewCert(s, to)
    PROVE  CoverageInv'
<1>1. /\ certs' \in Seq([stake : Stakes, to : {"ours", "other"}])
      /\ Len(certs') = Len(certs) + 1 /\ Len(certs) \in Nat /\ Len(certs) < MaxCerts
      /\ \A id \in 1..Len(certs) : Touches(id)' <=> Touches(id)
  <2>1. s \in Stakes /\ Types /\ Len(certs) \in Nat
    BY DEF CoverageInv, Types
  <2>2. certs' = Append(certs, [stake |-> s, to |-> to]) /\ Len(certs) < MaxCerts
    BY DEF NewCert
  <2> QED
    BY <2>1, <2>2, TouchesStays
<1>2. /\ UNCHANGED <<watermark, seeded, dispatched, source, live, snapshot, reachable, job>>
      /\ \A p \in Polls : job[p].pc # "scanned"
  BY DEF NewCert, cache, history, Steady, At
<1>3. Types'
  BY <1>1, <1>2 DEF CoverageInv, Types, Surroundings
<1>4. \A id : Known(id)' <=> Known(id)
  BY <1>2 DEF Known, Shown, Carried
<1>5. ASSUME NEW n \in {NoMark} \cup 0..Len(certs), KnownUpTo(n)
      PROVE  KnownUpTo(n)'
  <2>1. \A id \in 1..Len(certs') : id <= n => id \in 1..Len(certs)
    BY <1>1 DEF NoMark
  <2> QED
    BY <1>1, <1>4, <1>5, <2>1 DEF KnownUpTo
<1>6. NoCertSkipped'
  <2>1. KnownUpTo(watermark) /\ watermark \in {NoMark} \cup 0..Len(certs)
    BY SkippedMeans DEF CoverageInv, Types
  <2>2. KnownUpTo(watermark)'
    BY <1>2, <1>5, <2>1 DEF KnownUpTo
  <2> QED
    BY <1>3, <2>2 DEF NoCertSkipped, KnownUpTo, Known, Types
<1>7. ASSUME NEW p \in Polls
      PROVE  ScanSound(p)'
  <2>1. ASSUME job[p].pc = "advance"
        PROVE  ScanSound(p)'
    <3>1. /\ job[p].mark \in 0..Len(certs) /\ KnownUpTo(job[p].mark)
          /\ job[p].upTo \in 0..Len(certs)
          /\ \A id \in 1..Len(certs) :
               job[p].mark < id /\ id <= job[p].upTo /\ Touches(id) => id \in job[p].devs
      BY <2>1 DEF CoverageInv, ScanSound
    <3>2. KnownUpTo(job[p].mark)'
      BY <1>2, <1>5, <3>1 DEF KnownUpTo
    <3>3. \A id \in 1..Len(certs') : id <= job[p].upTo => id \in 1..Len(certs)
      BY <1>1, <3>1
    <3> QED
      BY <1>1, <1>2, <2>1, <3>1, <3>2, <3>3 DEF ScanSound
  <2> QED
    BY <1>2, <2>1 DEF ScanSound
<1> QED
  BY <1>3, <1>6, <1>7 DEF CoverageInv

\* Nothing else reaches the polls or what was shown; a cleared cache takes the
\* watermark along.
LEMMA SurroundingCovers ==
    ASSUME Steady, CoverageInv, SourceCatchesUp \/ Disturbance \/ UNCHANGED vars
    PROVE  CoverageInv'
<1>1. ~Restart
  BY DEF Restart, Disturbed, Steady
<1>2. /\ UNCHANGED <<certs, seeded, dispatched, job>>
      /\ watermark' \in {watermark, NoMark} /\ Surroundings'
  BY <1>1 DEF SourceCatchesUp, Disturbance, Deregister, DbsyncToggles, SwitchSource, FlipMode,
              Reset, ClearCache, ClearFeed, vars, chain, cache, history, CoverageInv, Types,
              Surroundings
<1>3. Types'
  BY <1>2 DEF CoverageInv, Types
<1>4. \A n : KnownUpTo(n)' <=> KnownUpTo(n)
  <2>1. \A id : (Touches(id)' <=> Touches(id)) /\ (Known(id)' <=> Known(id))
    BY <1>2 DEF Touches, Previous, Known, Shown, Carried
  <2> QED
    BY <1>2, <2>1 DEF KnownUpTo
<1>5. NoCertSkipped'
  <2>1. watermark' # NoMark => KnownUpTo(watermark)'
    BY <1>2, <1>4, SkippedMeans DEF CoverageInv, KnownUpTo
  <2> QED
    BY <1>3, <2>1 DEF NoCertSkipped, KnownUpTo, Known, Types, NoMark
<1>6. ASSUME NEW p \in Polls
      PROVE  ScanSound(p)'
  <2>1. ScanSound(p)
    BY DEF CoverageInv
  <2>2. KnownUpTo(job[p].mark)' <=> KnownUpTo(job[p].mark)
    BY <1>2, <1>4 DEF KnownUpTo
  <2>3. /\ \A id : Touches(id)' <=> Touches(id)
        /\ ScanEvents(job[p].mark)' = ScanEvents(job[p].mark)
    BY <1>2 DEF Touches, Previous, ScanEvents
  <2> QED
    BY <1>2, <2>1, <2>2, <2>3 DEF ScanSound
<1> QED
  BY <1>3, <1>5, <1>6 DEF CoverageInv

LEMMA NextInv ==
    ASSUME Steady, CoverageInv, [Next]_vars
    PROVE  CoverageInv'
<1>1. ASSUME NEW p \in Polls, PollStep(p)
      PROVE  CoverageInv'
  BY <1>1, BeforeScan, ScanCertsCovers, ScanTopCovers, AdvanceStep, DiffCovers,
     StoreEventsCovers, StoreSnapshotStep DEF PollStep
<1> QED
  BY <1>1, NewCertCovers, SurroundingCovers DEF Next

\* What touches our pool and lies at or below the watermark has been shown, or a
\* running poll is about to show it ("Watermark by delegation.id so each cert emits
\* exactly once", read-model.js), but for what a seed passed over, however many polls
\* run side by side.
THEOREM NothingPassedOver ==
    ASSUME Steady
    PROVE  Spec => []NoCertSkipped
<1>1. Init => CoverageInv
  BY InitInv
<1>2. CoverageInv /\ [Next]_vars => CoverageInv'
  BY NextInv
<1>3. CoverageInv => NoCertSkipped
  BY DEF CoverageInv
<1> QED
  BY <1>1, <1>2, <1>3, PTL DEF Spec
=============================================================================
