---------------------------- MODULE HistorySources ----------------------------
(* Which source fills the epoch rows, and what the jobs of db-sync do to them:*)
(* refreshHistory and the jobs it starts (src/src/data/read-model.js), next to*)
(* the live path, which owns the row of the current epoch. How db-sync is     *)
(* opened is SourceAccess, how Koios fills and races is EpochCache; here      *)
(* reading, merging and writing one row is a single step.                     *)
EXTENDS Integers, FiniteSets, FiniteSetsExt

CONSTANTS
    Sources,      \* those the operator has, out of "dbsync", "koios", "blockfrost"
    FirstEpoch,   \* the epoch an execution begins in
    LastEpoch,    \* bound: the last epoch
    Window,       \* how many closed epochs refreshRecentDbsync asks for
    Disturb,      \* bound: what may happen, out of "demo", "outage", "query",
                  \* "koios"
    MaxDisturb    \* bound: how often

Epochs == 1..LastEpoch
Jobs == {"backfill", "fill", "recent", "koios", "blockfrost"}
NoRow == [source |-> "none", rewards |-> FALSE, ideal |-> FALSE]
Off == [step |-> "off", todo |-> {}, got |-> [e \in Epochs |-> NoRow]]

VARIABLES
    epoch,     \* the chain's epoch
    settled,   \* epochs whose rewards the sources have
    up,        \* sources that answer, out of "dbsync", "koios", "blockfrost"
    mode,      \* "live" or "demo"
    active,    \* _activeHistorySource
    rows,      \* the epoch table
    done,      \* the jobs' done flags
    koios,     \* _koiosInit
    wait,      \* RECENT_DBSYNC_MS has not passed yet since the last refresh
    job,       \* each job; its in-flight flag is that it is not off
    left       \* disturbances left

outside == <<epoch, settled, up, mode>>
vars == <<outside, active, rows, done, koios, wait, job, left>>

Live == [source |-> "live", rewards |-> FALSE, ideal |-> TRUE]
Closed == 1..(epoch - 1)

Init ==
    /\ epoch = FirstEpoch /\ settled = 1..(FirstEpoch - 2)
    /\ up = Sources /\ mode = "live"
    /\ active = "none" /\ rows = [e \in Epochs |-> NoRow]
    /\ done = {} /\ koios = FALSE /\ wait = FALSE
    /\ job = [j \in Jobs |-> Off]
    /\ left = MaxDisturb

Disturbed(kind) == kind \in Disturb /\ left > 0 /\ left' = left - 1

-----------------------------------------------------------------------------
(* The dispatcher.                                                         *)

Start(f, j) == [f EXCEPT ![j] = [Off EXCEPT !.step = "ask"]]
Idle(j) == job[j].step = "off"

RecentDue == ~wait

\* The rows the filler works on.
Needs == {e \in Closed : rows[e].source = "dbsync" /\ ~rows[e].ideal}

\* The db-sync branch: the backfill until it is through, then the filler and the recent
\* refresh side by side. A backfill under way does not hold up the next ticks' refresh.
\* With nothing to fill, the filler is done.
DispatchDbsync ==
    /\ "dbsync" \in up
    /\ active' = "dbsync"
    /\ LET begin == "backfill" \notin done /\ Idle("backfill")
           fill  == "fill" \notin done /\ Idle("fill") /\ "backfill" \in done
           again == ~begin /\ RecentDue /\ epoch >= 2 /\ Idle("recent")
           f == IF begin THEN Start(job, "backfill")
                ELSE IF fill /\ Needs # {}
                     THEN [job EXCEPT !["fill"] = [step |-> "ask", todo |-> Needs, got |-> rows]]
                     ELSE job
       IN  /\ job' = IF again THEN Start(f, "recent") ELSE f
           /\ wait' = IF again THEN TRUE ELSE wait
           /\ done' = IF ~begin /\ fill /\ Needs = {} THEN done \cup {"fill"} ELSE done
           /\ job' # job \/ done' # done \/ active # "dbsync"

\* The branches without db-sync: each source's backfill runs once.
DispatchOnce(source) ==
    /\ active' = source
    /\ source \notin done /\ Idle(source)
    /\ job' = Start(job, source)
    /\ UNCHANGED <<wait, done>>

\* One call of refreshHistory from the live loop. Demo asks another data source.
Tick ==
    /\ mode = "live"
    /\ \/ DispatchDbsync
       \/ "dbsync" \notin up /\ koios /\ DispatchOnce("koios")
       \/ "dbsync" \notin up /\ ~koios /\ "blockfrost" \in up /\ DispatchOnce("blockfrost")
    /\ UNCHANGED <<outside, rows, koios, left>>

\* ensureKoios at the head of a call: one probe at a time, a minute apart, until one is
\* answered; meanwhile every call finds Koios missing. The call that waited for the probe
\* goes on as any later call would.
Probe ==
    /\ mode = "live" /\ ~koios /\ "koios" \in up
    /\ koios' = TRUE
    /\ UNCHANGED <<outside, active, rows, done, wait, job, left>>

MinutePasses ==
    /\ wait /\ wait' = FALSE
    /\ UNCHANGED <<outside, active, rows, done, koios, job, left>>

-----------------------------------------------------------------------------
(* The jobs.                                                               *)

\* Mutant: the refresh asks for the last closed epoch only.
LastClosed == {epoch - 1} \ {0}

\* It stops before the current epoch, which the live path owns.
RecentEpochs == {e \in Closed : e >= epoch - Window}

\* The epochs a source has rows of, the current one among db-sync's.
Asked(j) ==
    CASE j = "backfill" -> 1..epoch
      [] j = "recent" -> RecentEpochs
      [] j = "fill" -> job[j].todo
      [] OTHER -> Closed

\* Rows as the source has them: db-sync computes no ideal (fetchHistory), the filler
\* completes the rows it read.
Answered(j, e) ==
    CASE j = "fill" -> [job[j].got[e] EXCEPT !.ideal = TRUE]
      [] j \in {"backfill", "recent"} ->
           [source |-> "dbsync", rewards |-> e \in settled, ideal |-> FALSE]
      [] OTHER -> [source |-> j, rewards |-> e \in settled, ideal |-> j = "koios"]

SourceOf(j) == IF j \in {"koios", "blockfrost"} THEN j ELSE "dbsync"

\* The answer arrives.
Answer(j) ==
    /\ job[j].step = "ask" /\ SourceOf(j) \in up
    /\ job' = [job EXCEPT ![j] =
                 [step |-> "write", todo |-> Asked(j),
                  got |-> [e \in Epochs |-> IF e \in Asked(j) THEN Answered(j, e) ELSE NoRow]]]
    /\ UNCHANGED <<outside, active, rows, done, koios, wait, left>>

\* The query fails: the job's catch logs it.
QueryFails(j) ==
    /\ job[j].step = "ask"
    /\ \/ SourceOf(j) \notin up /\ UNCHANGED left
       \/ SourceOf(j) \in up /\ Disturbed("query")
    /\ job' = [job EXCEPT ![j] = Off]
    /\ UNCHANGED <<outside, active, rows, done, koios, wait>>

\* A row is written, in demo the job ends instead. A real reward stays (cachePutEpoch).
WriteRow(j) ==
    /\ job[j].step = "write" /\ job[j].todo # {}
    /\ LET e == Min(job[j].todo)
           row == job[j].got[e]
       IN  IF mode = "demo"
           THEN job' = [job EXCEPT ![j] = Off] /\ UNCHANGED rows
           ELSE /\ rows' = [rows EXCEPT ![e] = [row EXCEPT !.rewards = @ \/ rows[e].rewards]]
                /\ job' = [job EXCEPT ![j].todo = @ \ {e}, ![j].got[e] = NoRow]
    /\ UNCHANGED <<outside, active, done, koios, wait, left>>

Through(j) == job[j].step = "write" /\ job[j].todo = {}

Finish(j) ==
    /\ Through(j)
    /\ done' = done \cup ({j} \ {"recent"})
    /\ job' = [job EXCEPT ![j] = Off]
    /\ UNCHANGED <<outside, active, rows, koios, wait, left>>

JobStep(j) == Answer(j) \/ QueryFails(j) \/ WriteRow(j) \/ Finish(j)

\* refreshBlockProduction writes the row of the current epoch, every few minutes.
WriteLive ==
    /\ mode = "live" /\ rows[epoch].source # "live"
    /\ rows' = [rows EXCEPT ![epoch] = [Live EXCEPT !.rewards = rows[epoch].rewards]]
    /\ UNCHANGED <<outside, active, done, koios, wait, job, left>>

-----------------------------------------------------------------------------
(* The surroundings.                                                       *)

\* An epoch lasts for days: whatever is amiss is over before it ends, the recent epochs
\* have been asked for again since the rewards came, and the ledger has paid the epoch
\* before the last.
EpochTurns ==
    /\ epoch < LastEpoch
    /\ mode = "live" /\ up = Sources /\ rows[epoch].source = "live"
    /\ \A j \in Jobs : Idle(j)
    /\ "backfill" \in done /\ wait
    /\ 1..(epoch - 2) \subseteq settled
    /\ epoch' = epoch + 1
    /\ UNCHANGED <<settled, up, mode, active, rows, done, koios, wait, job, left>>

\* The rewards of an epoch are worked out during the next two; the refreshes of the
\* minutes after it are those that count.
Settle ==
    /\ \E e \in Closed \ settled : settled' = settled \cup {e}
    /\ wait' = FALSE
    /\ UNCHANGED <<epoch, up, mode, active, rows, done, koios, job, left>>

Outage ==
    /\ \/ "dbsync" \in up /\ Disturbed("outage") /\ up' = up \ {"dbsync"}
       \/ ~koios /\ "koios" \in up /\ Disturbed("koios") /\ up' = up \ {"koios"}
    /\ UNCHANGED <<epoch, settled, mode, active, rows, done, koios, wait, job>>

Back ==
    /\ up # Sources /\ up' = Sources
    /\ UNCHANGED <<epoch, settled, mode, active, rows, done, koios, wait, job, left>>

ExploreDemo ==
    /\ mode = "live" /\ Disturbed("demo") /\ mode' = "demo"
    /\ UNCHANGED <<epoch, settled, up, active, rows, done, koios, wait, job>>

ComeBack ==
    /\ mode = "demo" /\ mode' = "live"
    /\ UNCHANGED <<epoch, settled, up, active, rows, done, koios, wait, job, left>>

Next ==
    \/ Tick \/ Probe \/ MinutePasses \/ WriteLive
    \/ \E j \in Jobs : JobStep(j)
    \/ EpochTurns \/ Settle \/ Outage \/ Back \/ ExploreDemo \/ ComeBack

Spec == Init /\ [][Next]_vars

\* The live loop ticks, what was asked is answered or fails, outages and demo visits end.
\* A tick keeps finding db-sync reachable only between outages.
Fairness ==
    /\ SF_vars(Tick) /\ WF_vars(MinutePasses) /\ WF_vars(WriteLive)
    /\ \A j \in Jobs : WF_vars(JobStep(j))
    /\ WF_vars(Back) /\ WF_vars(ComeBack)

FairSpec == Spec /\ Fairness

-----------------------------------------------------------------------------
(* Properties.                                                             *)

TypeOK ==
    /\ epoch \in Epochs /\ settled \subseteq Closed
    /\ up \subseteq Sources /\ mode \in {"live", "demo"}
    /\ active \in {"none", "dbsync", "koios", "blockfrost"}
    /\ rows \in [Epochs -> [source : {"none", "live", "dbsync", "koios", "blockfrost"},
                            rewards : BOOLEAN, ideal : BOOLEAN]]
    /\ done \subseteq Jobs \ {"recent"} /\ koios \in BOOLEAN /\ wait \in BOOLEAN
    /\ \A j \in Jobs : job[j].step \in {"off", "ask", "write"} /\ job[j].todo \subseteq Epochs
    /\ left \in 0..MaxDisturb

\* "Self-heals to complete once db-sync calculates them" (refreshRecentDbsync): whatever
\* order backfill, filler and refresh write in, and whatever demo visits, outages and
\* failing queries come between, a closed epoch whose rewards are settled ends up with
\* them. (The live row it closed with has none, and the backfill runs once.)
Owed(e) == e \in settled /\ ~rows[e].rewards
RewardsHeal == \A e \in Epochs : Owed(e) ~> ~Owed(e)

\* "Ideal is computed for every closed epoch that had pool stake" (dbsyncIdealFiller).
IdealComes == \A e \in Epochs : [](e < epoch => <>[](rows[e].ideal))
=============================================================================
