--------------------------- MODULE UpcomingBlocks ---------------------------
(* The leader slots still to come: getUpcomingBlocks of read-model.js, the  *)
(* schedules it keeps in memory and on disk, and the state the panel draws  *)
(* when it has no slot to show.  The query behind it takes minutes and the  *)
(* panel asks every minute, and again on every mount, without waiting for   *)
(* the query before: runs overlap, and may end in another order than they   *)
(* began.  A schedule is named by the epoch it is for.                      *)
EXTENDS Integers, FiniteSets

CONSTANTS
  None,        \* null
  Undefined,   \* undefined
  EpochLen, Window,   \* ticks of an epoch, and how many at its end know the next schedule
  LastTime,    \* the last tick stands for all time from then on
  Empty,       \* the epochs the pool has no slot in
  CurRetry, NextRetry, Grace,   \* UB_CUR_RETRY_MS, UB_NEXT_RETRY_MS, UB_CUR_GRACE_MS
  RunTime,     \* CLI_TIMEOUT_LEADERSHIP_SCHEDULE_S
  MaxFails,    \* queries that fail, or print what cannot be read
  MaxResets,   \* restarts of the window, or Disconnects
  MaxRuns      \* overlapping runs

VARIABLES
  now, tip,            \* the clock; the epoch of the last tip the poll saw
  curEpoch, curSlots, curCheckedAt, curFirstTryAt,   \* _ubCur...
  nextEpoch, nextSlots, nextCheckedAt,               \* _ubNext...
  disk,                \* the leaderlog:<epoch>:<which> keys
  runs,                \* runs of getUpcomingBlocks waiting for the node
  fails, resets

curVars == <<curEpoch, curSlots, curCheckedAt, curFirstTryAt>>
nextVars == <<nextEpoch, nextSlots, nextCheckedAt>>
vars == <<now, tip, curVars, nextVars, disk, runs, fails, resets>>

Never == -1
EpochOf(t) == t \div EpochLen
Epochs == 0 .. EpochOf(LastTime) + 2
Keys == Epochs \X {"current", "next"}

(* What parseLeadershipSchedule makes of an output that is empty or is no     *)
(* schedule: an array without slots, whichever epoch was asked for.          *)
Blank == -2
Array(slots) == slots \in Epochs \union {Blank}
Answers == Epochs \union {Blank, None}

DueAfter(checkedAt, wait) == checkedAt = Never \/ now - checkedAt > wait \/ now = LastTime

Init ==
  /\ now = 0 /\ tip = 0
  /\ curEpoch = None /\ curSlots = None /\ curCheckedAt = Never /\ curFirstTryAt = Never
  /\ nextEpoch = None /\ nextSlots = None /\ nextCheckedAt = Never
  /\ disk = [k \in Keys |-> None]
  /\ runs = {} /\ fails = 0 /\ resets = 0

(* The poll runs every second: it has seen the epoch change before the next *)
(* tick of this clock.                                                      *)
Tick ==
  /\ now < LastTime /\ tip = EpochOf(now)
  /\ \A r \in runs : now - r.at < RunTime
  /\ now' = now + 1
  /\ UNCHANGED <<tip, curVars, nextVars, disk, runs, fails, resets>>

Poll ==
  /\ tip # EpochOf(now)
  /\ tip' = EpochOf(now)
  /\ UNCHANGED <<now, curVars, nextVars, disk, runs, fails, resets>>

(* What the node knows at time t; None stands for "not available yet". *)
Knows(which, t) ==
  IF which = "current" THEN EpochOf(t)
  ELSE IF t % EpochLen >= EpochLen - Window THEN EpochOf(t) + 1
  ELSE None

-----------------------------------------------------------------------------
(* What was saved for an epoch, None if nothing was. *)
LoadCachedSchedule(epoch, which) == disk[<<epoch, which>>]

(* The second half of a run: a new boundary takes the schedule saved for    *)
(* it, an unknown one is asked for again when its wait is over.             *)
NextPart(epoch, rest) ==
  LET crossed == nextEpoch # epoch + 1
      slots == IF ~crossed THEN nextSlots
               ELSE IF LoadCachedSchedule(epoch + 1, "next") = None THEN Undefined
               ELSE LoadCachedSchedule(epoch + 1, "next")
      asks == ~Array(slots) /\ DueAfter(nextCheckedAt, NextRetry)
  IN
  /\ nextEpoch' = epoch + 1
  /\ nextSlots' = slots
  /\ nextCheckedAt' = IF asks THEN now ELSE nextCheckedAt
  /\ runs' = IF asks THEN rest \union {[which |-> "next", epoch |-> epoch, at |-> now]} ELSE rest

Tries(crossed) == crossed \/ (~Array(curSlots) /\ DueAfter(curCheckedAt, CurRetry))

(* The first half, up to the query.  A schedule on disk needs none. *)
Start ==
  LET crossed == curEpoch # tip
      slots == IF crossed THEN None ELSE curSlots
      tries == Tries(crossed)
      saved == LoadCachedSchedule(tip, "current")
  IN
  /\ Cardinality(runs) < MaxRuns
  /\ curEpoch' = tip
  /\ curCheckedAt' = IF tries THEN now ELSE IF crossed THEN Never ELSE curCheckedAt
  /\ LET first == IF crossed THEN Never ELSE curFirstTryAt IN
     curFirstTryAt' = IF tries /\ first = Never THEN now ELSE first
  /\ IF tries /\ saved = None
     THEN /\ curSlots' = slots
          /\ runs' = runs \union {[which |-> "current", epoch |-> tip, at |-> now]}
          /\ UNCHANGED nextVars
     ELSE /\ curSlots' = IF tries THEN saved ELSE slots
          /\ NextPart(tip, runs)
  /\ UNCHANGED <<now, tip, disk, fails, resets>>

(* What the query of a run returns: the node answers from the ledger as it  *)
(* was at some time since, or the query fails, or prints what is taken for  *)
(* no slots.                                                                *)
Answered(r, slots) ==
  \/ \E t \in {r.at, now} : slots = Knows(r.which, t) /\ UNCHANGED fails
  \/ slots \in {Blank, None} /\ fails < MaxFails /\ fails' = fails + 1

(* Under the key of the epoch the poll is in by now. *)
SaveLate(key, slots) ==
  disk' = IF Array(slots) THEN [disk EXCEPT ![IF key[2] = "next" THEN <<tip + 1, "next">> ELSE key] = slots]
          ELSE disk
Save(key, slots) == disk' = IF Array(slots) THEN [disk EXCEPT ![key] = slots] ELSE disk

AnswerCurrent(r) ==
  /\ r.which = "current"
  /\ \E slots \in Answers :
        /\ Answered(r, slots)
        /\ curSlots' = slots
        /\ Save(<<r.epoch, "current">>, slots)
  /\ NextPart(r.epoch, runs \ {r})
  /\ UNCHANGED <<now, tip, curEpoch, curCheckedAt, curFirstTryAt, resets>>

AnswerNext(r) ==
  /\ r.which = "next"
  /\ runs' = runs \ {r}
  /\ \E slots \in Answers :
        /\ Answered(r, slots)
        /\ nextSlots' = slots
        /\ Save(<<r.epoch + 1, "next">>, slots)
  /\ UNCHANGED <<now, tip, curVars, nextEpoch, nextCheckedAt, resets>>

(* The window is closed and opened again, or disconnected (resetReadModel): *)
(* what is on disk is there afterwards.                                     *)
Reset ==
  /\ resets < MaxResets /\ resets' = resets + 1
  /\ curEpoch' = None /\ curSlots' = None /\ curCheckedAt' = Never /\ curFirstTryAt' = Never
  /\ nextEpoch' = None /\ nextSlots' = None /\ nextCheckedAt' = Never
  /\ runs' = {}
  /\ UNCHANGED <<now, tip, disk, fails>>

Answer == \E r \in runs : AnswerCurrent(r) \/ AnswerNext(r)
Next == Tick \/ Poll \/ Start \/ Reset \/ (\E r \in runs : AnswerCurrent(r) \/ AnswerNext(r))

Spec == Init /\ [][Next]_vars
Fairness == WF_vars(Tick) /\ WF_vars(Poll) /\ WF_vars(Start) /\ WF_vars(Answer)
FairSpec == Spec /\ Fairness
-----------------------------------------------------------------------------
(* upcomingScheduleState, and the message of renderUpcomingBlocks. *)
HasSlots(slots) == slots \in Epochs \ Empty

NextSettled == Array(nextSlots) \/ (nextCheckedAt # Never /\ nextSlots = None)

ScheduleState ==
  IF HasSlots(curSlots) \/ HasSlots(nextSlots) THEN "ready"
  ELSE IF ~Array(curSlots)
       THEN IF curFirstTryAt = Never \/ ~DueAfter(curFirstTryAt, Grace - 1)
            THEN "loading" ELSE "unavailable"
  ELSE IF NextSettled THEN "ready" ELSE "loading"

TypeOK ==
  /\ tip \in {EpochOf(now), EpochOf(now) - 1}
  /\ curEpoch \in Epochs \union {None} /\ curSlots \in Answers
  /\ nextEpoch \in Epochs \union {None} /\ nextSlots \in Answers \union {Undefined}
  /\ curCheckedAt \in 0 .. now \union {Never} /\ curFirstTryAt \in 0 .. now \union {Never}
  /\ \A k \in Keys : disk[k] \in Answers
  /\ Cardinality(runs) <= MaxRuns

(* A schedule saved as the next epoch's is the next epoch's: it will be     *)
(* adopted unasked at the boundary and by every later start, so one saved   *)
(* under another epoch's key would be shown for five days.  An output that   *)
(* could not be read is saved as a schedule without slots all the same.     *)
SavedNextIsItsEpochs ==
  \A e \in Epochs : disk[<<e, "next">>] \in {None, Blank, e}

(* Why it is: the poll sees a new epoch within a tick, and a run ends within *)
(* RunTime, the second query of a run within twice that, long before the     *)
(* node knows the schedule after the next.                                   *)
TipFollows == EpochOf(now) = tip \/ (EpochOf(now) = tip + 1 /\ now % EpochLen = 0)
Spent(r) == now - r.at + (IF r.which = "next" THEN RunTime ELSE 0)
Timely(r) ==
  /\ r.which \in {"current", "next"} /\ r.epoch \in Nat /\ r.at \in Nat
  /\ r.at <= now /\ now - r.at <= RunTime
  /\ EpochOf(now) = r.epoch \/ (EpochOf(now) = r.epoch + 1 /\ now % EpochLen <= Spent(r))
  /\ EpochOf(r.at) = r.epoch \/ (EpochOf(r.at) = r.epoch + 1 /\ r.at % EpochLen <= RunTime)
SavedInTime ==
  /\ now \in Nat /\ tip \in Nat /\ disk \in [Keys -> Answers]
  /\ TipFollows /\ (\A r \in runs : Timely(r)) /\ SavedNextIsItsEpochs

(* The panel does not stay on "querying": it gets slots, or says that there *)
(* are none, or that the schedule is unavailable, however often the query   *)
(* fails and whichever run ends first.                                      *)
Loading == ScheduleState = "loading"
LoadingEnds == Loading ~> ~Loading

(* Once queries stop failing, the schedule of the epoch is there: a failed  *)
(* query does not settle the matter for the rest of the epoch.  One that    *)
(* printed nothing legible does: its array without slots is kept.           *)
ScheduleIsThere == Array(curSlots)
ScheduleComes == <>[]ScheduleIsThere

(* _ubCurEpoch: "epoch the cached --current schedule is for". *)
SlotsAreOfTheEpoch ==
  /\ Array(curSlots) => curSlots \in {curEpoch, Blank}
  /\ Array(nextSlots) => nextSlots \in {nextEpoch, Blank}

(* "the slow cli leadership-schedule runs at most once per epoch". *)
AskedOnce == \A r \in runs, s \in runs : r.which = s.which /\ r.epoch = s.epoch => r = s
=============================================================================
