------------------------------ MODULE LogsView ------------------------------
(* The Logs tab, src/src/views/logs.js: curated queries of the node's       *)
(* journal, the minted blocks, and two views of the captured propagation.   *)
(* A click starts a run. Runs are asynchronous and nothing cancels one, so  *)
(* an answer finds whatever the tab shows by then: the output panel it      *)
(* began with (still on the page or not), the status line of the page, the  *)
(* text Copy copies.                                                        *)
EXTENDS Integers

CONSTANTS
    Units,       \* journal units the field may name
    JsonUnits,   \* those whose node logs JSON
    Windows,     \* the propagation windows
    MaxRuns,     \* bound: runs
    MaxMounts,   \* bound: times the tab is opened
    Disturb,     \* bound: what may happen, out of "demo", "fail", "empty", "save", "connect"
    MaxDisturb   \* bound: how often

VARIABLES
    here,      \* the tab is the mounted view
    mount,     \* how often it was opened: which #lg-out is on the page
    demo,      \* it was opened in demo mode
    button,    \* the query whose button is lit; lg-pp-mode is on for "propagation"
    panel,     \* #lg-out: the run it shows, and how far that is
    status,    \* #lg-status: the run it speaks of
    copied,    \* _lastOutput: the run Copy copies
    window,    \* _propWindow
    source,    \* _blocksSource
    dbsync,    \* dbsyncMachine() answers
    unit,      \* _cfg.bpUnit
    formats,   \* _fmtCache
    tasks,     \* runs waiting for an answer
    runs,      \* runs so far
    left       \* disturbances left

page == <<button, panel, status>>
vars == <<here, mount, demo, page, copied, window, source, dbsync, unit, formats,
          tasks, runs, left>>

Queries == {"lines", "blocks", "propagation", "epochtx"}
NoRun == [n |-> 0, q |-> "none", arg |-> "none", mount |-> 0, demo |-> FALSE]
Shows(run, what) == [of |-> run, what |-> what]

Init ==
    /\ here = FALSE /\ mount = 0 /\ demo = FALSE /\ button = "none"
    /\ panel = Shows(NoRun, "none") /\ status = NoRun /\ copied = NoRun
    /\ window \in Windows /\ source = "unset" /\ dbsync \in BOOLEAN
    /\ unit \in Units /\ formats = [u \in Units |-> "unknown"]
    /\ tasks = {} /\ runs = 0 /\ left = MaxDisturb

Disturbed(kind) == kind \in Disturb /\ left > 0 /\ left' = left - 1

-----------------------------------------------------------------------------
(* Starting a run.                                                         *)

\* The default of the session: the full history when db-sync is there.
DefaultSource == IF source # "unset" THEN source
                 ELSE IF demo \/ dbsync THEN "dbsync" ELSE "local"

Argument(q) == CASE q = "lines" -> unit
                 [] q = "blocks" -> source'
                 [] OTHER -> window'

Task(run, step, fmt, to) ==
    [run |-> run, step |-> step, unit |-> unit, fmt |-> fmt, mount |-> to]

FirstStep(q) == IF q # "lines" THEN q ELSE IF formats[unit] = "unknown" THEN "format" ELSE "lines"

\* The live run: the panel says it is loading, except the epoch view's, which leaves it.
StartLive(run) ==
    /\ LET fmt == IF formats[unit] = "json" THEN "json" ELSE "human"
       IN tasks' = tasks \union {Task(run, FirstStep(run.q), fmt, mount)}
    /\ panel' = IF run.q = "epochtx" THEN panel ELSE Shows(run, "loading")
    /\ UNCHANGED copied

\* In demo everything is painted at once; only the journal's sample can be copied.
StartDemo(run) ==
    /\ panel' = Shows(run, "rows")
    /\ copied' = IF run.q = "lines" THEN run ELSE copied
    /\ UNCHANGED tasks

\* runQuery, and the re-runs by the window bar and the source toggle.
Start(q) ==
    /\ runs < MaxRuns /\ runs' = runs + 1
    /\ source' = IF q = "blocks" THEN DefaultSource ELSE source
    /\ LET run == [n |-> runs', q |-> q, arg |-> Argument(q), mount |-> mount, demo |-> demo]
       IN /\ IF demo THEN StartDemo(run) ELSE StartLive(run)
          /\ status' = run

Click(q) ==
    /\ here /\ button' = q /\ UNCHANGED window /\ Start(q)
    /\ UNCHANGED <<here, mount, demo, dbsync, unit, formats, left>>

HasWindowBar == panel.of.q \in {"propagation", "epochtx"} /\ panel.what \in {"rows", "none"}

\* A window is picked: the view that drew the bar runs again.
PickWindow(w) ==
    /\ here /\ HasWindowBar /\ window' = w /\ Start(panel.of.q)
    /\ UNCHANGED <<here, mount, demo, button, dbsync, unit, formats, left>>

\* The blocks' source is toggled; the toggle is drawn while db-sync is there.
PickSource(s) ==
    /\ here /\ panel.of.q = "blocks" /\ (demo \/ dbsync) /\ runs < MaxRuns
    /\ runs' = runs + 1 /\ source' = s
    /\ LET run == [n |-> runs', q |-> "blocks", arg |-> s, mount |-> mount, demo |-> demo]
       IN (IF demo THEN StartDemo(run) ELSE StartLive(run)) /\ status' = run
    /\ UNCHANGED <<here, mount, demo, button, window, dbsync, unit, formats, left>>

-----------------------------------------------------------------------------
(* Opening and leaving the tab, its settings.                              *)

Opened(m) ==
    /\ here' = TRUE /\ mount' = mount + 1 /\ demo' = m
    /\ UNCHANGED <<window, dbsync, unit, formats>>

\* mountLogs. In demo the first query runs by itself.
Mount ==
    /\ mount < MaxMounts
    /\ \/ /\ Opened(FALSE) /\ button' = "none" /\ panel' = Shows(NoRun, "none")
          /\ status' = NoRun /\ UNCHANGED <<copied, source, tasks, runs, left>>
       \/ /\ Disturbed("demo") /\ Opened(TRUE) /\ button' = "lines" /\ runs < MaxRuns
          /\ runs' = runs + 1 /\ UNCHANGED <<source, tasks>>
          /\ LET run == [n |-> runs', q |-> "lines", arg |-> unit, mount |-> mount', demo |-> TRUE]
             IN panel' = Shows(run, "rows") /\ status' = run /\ copied' = run

\* unmountLogs tears nothing down; another view takes the canvas.
Leave ==
    /\ here /\ here' = FALSE
    /\ UNCHANGED <<mount, demo, page, copied, window, source, dbsync, unit, formats,
                   tasks, runs, left>>

\* Another unit is saved.
Save(u) ==
    /\ here /\ ~demo /\ u # unit /\ Disturbed("save") /\ unit' = u
    /\ UNCHANGED <<here, mount, demo, page, copied, window, source, dbsync, formats, tasks, runs>>

Connects ==
    /\ ~dbsync /\ Disturbed("connect") /\ dbsync' = TRUE
    /\ UNCHANGED <<here, mount, demo, page, copied, window, source, unit, formats, tasks, runs>>

-----------------------------------------------------------------------------
(* Answers.                                                                *)

OutOnPage(t) == here /\ t.mount = mount

\* Mutant: the answer goes to whatever block panel the page has by then.
PanelOnPage(t) == here /\ panel.of.q = "blocks"

\* The block table's own element is on the page while its run owns the panel.
InnerOnPage(t) == here /\ panel.of = t.run

\* The answer is painted where the run began, the status line is the page's.
Paint(t, attached, what) ==
    /\ panel' = IF attached THEN Shows(t.run, what) ELSE panel
    /\ status' = IF here THEN t.run ELSE status
    /\ UNCHANGED <<here, mount, demo, button, window, source, dbsync, unit, runs>>

Ends(t) == tasks' = tasks \ {t}
Becomes(t, u) == tasks' = (tasks \ {t}) \union {u}

\* An error is painted; what Copy copies stays.
Fails(t, attached) ==
    /\ Disturbed("fail") /\ Paint(t, attached, "failed") /\ Ends(t)
    /\ UNCHANGED <<copied, formats>>

\* logFormat answers: an empty journal reads as the human format and is remembered; a
\* failed read is not. The command is then built for the unit saved by now.
FormatAnswers(t) ==
    /\ t.step = "format"
    /\ \E fmt \in {"human", "json"} :
          /\ \/ /\ fmt = (IF t.unit \in JsonUnits THEN "json" ELSE "human")
                /\ formats' = [formats EXCEPT ![t.unit] = fmt] /\ UNCHANGED left
             \/ /\ fmt = "human" /\ Disturbed("empty")
                /\ formats' = [formats EXCEPT ![t.unit] = fmt]
             \/ fmt = "human" /\ Disturbed("fail") /\ UNCHANGED formats
          /\ Becomes(t, Task(t.run, "lines", fmt, t.mount))
    /\ UNCHANGED <<here, mount, demo, page, copied, window, source, dbsync, unit, runs>>

LinesAnswer(t) ==
    /\ t.step = "lines"
    /\ \/ /\ \E what \in {"rows", "none"} : Paint(t, OutOnPage(t), what)
          /\ copied' = t.run /\ Ends(t) /\ UNCHANGED <<formats, left>>
       \/ Fails(t, OutOnPage(t))

\* loadDbsyncBlocks and loadLocalBlocks.
BlocksAnswer(t) ==
    /\ t.step = "blocks"
    /\ \/ /\ \E what \in {"rows", "none"} : Paint(t, InnerOnPage(t), what)
          /\ copied' = t.run /\ Ends(t) /\ UNCHANGED <<formats, left>>
       \/ Fails(t, InnerOnPage(t))

\* After the paint the slow blocks' pools are looked up.
PropagationAnswers(t) ==
    /\ t.step = "propagation"
    /\ \/ /\ Paint(t, OutOnPage(t), "rows") /\ copied' = t.run
          /\ Becomes(t, Task(t.run, "enrich", t.fmt, t.mount)) /\ UNCHANGED <<formats, left>>
       \/ /\ Paint(t, OutOnPage(t), "none") /\ Ends(t) /\ UNCHANGED <<copied, formats, left>>
       \/ Fails(t, OutOnPage(t))

\* Nothing was learnt, the window is another or the view is not on: no repaint. Else the
\* history is read once more, for the panel on the page now.
EnrichAnswers(t) ==
    /\ t.step = "enrich"
    /\ \/ Ends(t)
       \/ IF window = t.run.arg /\ here /\ button = "propagation"
          THEN Becomes(t, Task(t.run, "reread", t.fmt, mount))
          ELSE Ends(t)
    /\ UNCHANGED <<here, mount, demo, page, copied, window, source, dbsync, unit, formats, runs, left>>

RereadAnswers(t) ==
    /\ t.step = "reread" /\ Ends(t)
    /\ panel' = IF OutOnPage(t) THEN Shows(t.run, "rows") ELSE panel
    /\ UNCHANGED <<here, mount, demo, button, status, copied, window, source, dbsync, unit,
                   formats, runs, left>>

EpochAnswers(t) ==
    /\ t.step = "epochtx"
    /\ \/ /\ \E what \in {"rows", "none"} : Paint(t, OutOnPage(t), what)
          /\ Ends(t) /\ UNCHANGED <<copied, formats, left>>
       \/ Fails(t, OutOnPage(t))

Answer(t) ==
    \/ FormatAnswers(t) \/ LinesAnswer(t) \/ BlocksAnswer(t)
    \/ PropagationAnswers(t) \/ EnrichAnswers(t) \/ RereadAnswers(t) \/ EpochAnswers(t)

Next ==
    \/ Mount \/ Leave \/ Connects
    \/ \E u \in Units : Save(u)
    \/ \E q \in Queries : Click(q)
    \/ \E w \in Windows : PickWindow(w)
    \/ \E s \in {"dbsync", "local"} : PickSource(s)
    \/ \E t \in tasks : Answer(t)

Spec == Init /\ [][Next]_vars

-----------------------------------------------------------------------------
(* Properties.                                                             *)

Runs == {NoRun} \union
    [n : 1..MaxRuns, q : Queries, arg : Units \union Windows \union {"dbsync", "local"},
     mount : 1..MaxMounts, demo : BOOLEAN]

TypeOK ==
    /\ here \in BOOLEAN /\ mount \in 0..MaxMounts /\ demo \in BOOLEAN /\ dbsync \in BOOLEAN
    /\ button \in Queries \union {"none"}
    /\ panel.of \in Runs /\ panel.what \in {"none", "loading", "rows", "failed"}
    /\ status \in Runs /\ copied \in Runs
    /\ window \in Windows /\ source \in {"unset", "dbsync", "local"} /\ unit \in Units
    /\ formats \in [Units -> {"unknown", "human", "json"}]
    /\ \A t \in tasks : t.run \in Runs /\ t.unit \in Units /\ t.mount \in 1..MaxMounts
    /\ runs \in 0..MaxRuns /\ left \in 0..MaxDisturb

\* A table of minted blocks is only on the page under its own button (or the epoch
\* view's, which leaves the panel until it answers), and it is of the source the toggle
\* shows: an answer that comes after the toggle, after another query or after the tab was
\* opened again paints an element no longer on the page (loadDbsyncBlocks and
\* loadLocalBlocks are given the element).
TableIsOfItsSource ==
    here /\ panel.of.q = "blocks" =>
        button \in {"blocks", "epochtx"} /\ panel.of.arg = source

\* What waits for an answer, and the query of the run it waits for: with the property
\* above, an inductive invariant.
Waits(t) ==
    /\ t.step \in {"format", "lines"} => t.run.q = "lines"
    /\ t.step \in {"propagation", "enrich", "reread"} => t.run.q = "propagation"
    /\ t.step = "epochtx" => t.run.q = "epochtx"
TableFollows == TableIsOfItsSource /\ \A t \in tasks : Waits(t)

\* The tab opened in demo mode shows and copies demonstration data only, "so it can't be
\* anyone's real data" (demoSample).
DemoShowsDemo ==
    here /\ demo => panel.of.demo /\ status.demo /\ copied.demo

\* A remembered format is the one the unit's node logs in ("cache only a real answer").
FormatIsTheUnits ==
    \A u \in Units : formats[u] # "unknown" => (formats[u] = "json") = (u \in JsonUnits)
=============================================================================
