---------------------------- MODULE SetupWizard -----------------------------
(* The setup wizard (src/src/views/wizard.js): its steps, the Next and Back     *)
(* buttons, the checks Next waits for, the hand-off to the connection screen,   *)
(* and what Finish saves. Next is disabled while a check or Finish is under     *)
(* way, but the click that began it also reaches the dialog's own click         *)
(* handler, which enables it again (refreshNext): the user may click twice.     *)
EXTENDS Integers, Sequences, SequencesExt, FiniteSets, Functions

CONSTANTS
    None,        \* nothing chosen, typed or stored
    Entries,     \* database forms that can be filled in; None is the blank form
    Tokens,      \* Koios tokens
    Keys,        \* Blockfrost project keys
    Guided,      \* the guided key step is on (pt.wizard.guided)
    MaxRuns,     \* bound: how often the wizard is opened
    Disturb,     \* bound: what may happen, out of "twice" (a second click while
                 \* the first is not done), "test" (a key is tested), "full" (the
                 \* storage refuses), "back" (Back is pressed), "demo"
    MaxDisturb   \* bound: how often

VARIABLES
    stored,    \* the source choice on disk: [useDb, mode, db, useBf]
    token,     \* the stored Koios token
    bfKey,     \* the stored Blockfrost key
    session,   \* a live session to the node
    page,      \* the step on the screen, "closed", or "connecting"
    wiz,       \* the choices so far
    field,     \* what the step's field holds
    waits,     \* the steps whose check Next waits for, one per click
    applying,  \* how far each Finish has come: "alert", "db" or "bf"
    completed, \* history: how often onComplete was called
    touched,   \* history: what the user changed: "db", "token"; "twice" when Next was
               \* clicked again before the click before was done
    before,    \* history: what was stored when the wizard was opened
    runs, left \* openings and disturbances left

disk   == <<stored, token, bfKey>>
dialog == <<page, wiz, field, waits, applying>>
hist   == <<completed, touched, before>>
vars   == <<disk, session, dialog, hist, runs, left>>

Steps == <<"welcome", "transport", "connect", "koios", "dbhave", "dbwhere", "dbkey",
           "dbconn", "blockfrost", "notif", "done">>
At(key) == CHOOSE i \in DOMAIN Steps : Steps[i] = key
ConnectIdx == At("connect")

\* freshState and savedDbsyncState; wrongly, as it was once, without the latter.
ModeOf(where) == CASE where = "local" -> "local" [] where = "bp" -> "tunnel" [] OTHER -> "ssh"
WhereOf(mode) == CHOOSE w \in {"local", "bp", "remote"} : ModeOf(w) = mode
FreshState ==
    [transport |-> None, ack |-> FALSE, connected |-> session,
     koios |-> IF token = None THEN None ELSE "key", token |-> token,
     useDb |-> FALSE, dbAnswered |-> FALSE, where |-> None, mode |-> "local", db |-> None,
     path |-> None, useBf |-> FALSE, bfAnswered |-> FALSE, key |-> None]
StartsEmpty == FreshState
StartState ==
    IF stored = None THEN FreshState
    ELSE IF ~stored.useDb THEN [FreshState EXCEPT !.dbAnswered = TRUE]
    ELSE [FreshState EXCEPT !.useDb = TRUE, !.dbAnswered = TRUE, !.mode = stored.mode,
                            !.where = WhereOf(stored.mode), !.db = stored.db,
                            !.path = IF stored.mode = "ssh" THEN stored.db ELSE None]

-----------------------------------------------------------------------------
(* The steps: skip, render, validate and collect.                          *)

Skip(key, w) ==
    CASE key \in {"dbwhere", "dbconn"} -> ~w.useDb
      [] key = "dbkey" -> ~(w.useDb /\ w.where = "remote" /\ Guided)
      [] OTHER -> FALSE
NextVisible(i, w) ==
    LET later == {j \in i + 1..Len(Steps) : ~Skip(Steps[j], w)}
    IN IF later = {} THEN None ELSE CHOOSE j \in later : \A k \in later : j <= k
PrevVisible(i, w) ==
    LET earlier == {j \in 1..i - 1 : ~Skip(Steps[j], w)}
    IN IF earlier = {} THEN None ELSE CHOOSE j \in earlier : \A k \in earlier : j >= k

\* What the field of a step holds when the step is painted.
Rendered(key, w) ==
    CASE key = "koios" -> w.token [] key = "dbkey" -> w.path
      [] key = "dbconn" -> w.db   [] key = "blockfrost" -> w.key [] OTHER -> None

ValidTransport(w) == w.transport = "ssh" \/ (w.transport = "local" /\ w.ack)
ValidKoios(w, f) == w.koios = "free" \/ (w.koios = "key" /\ f # None)
ValidForm(w, f) == w.where = "remote" => f # None
ValidBlockfrost(w, f) == w.bfAnswered /\ (w.useBf => f # None)

Valid(key, w, f) ==
    CASE key = "transport" -> ValidTransport(w)
      [] key = "connect" -> w.connected
      [] key = "koios" -> ValidKoios(w, f)
      [] key = "dbhave" -> w.dbAnswered
      [] key = "dbwhere" -> w.where # None
      [] key = "dbkey" -> f # None
      [] key = "dbconn" -> ValidForm(w, f)
      [] key = "blockfrost" -> ValidBlockfrost(w, f)
      [] OTHER -> TRUE

\* The steps whose check asks the shell about the key file.
Checks(key, w) == key = "dbkey" \/ (key = "dbconn" /\ w.where = "remote")

\* collect reads the dialog as it is now: the fields of another step are not
\* there, and the database form comes out blank.
CollectKoios(w, f) == [w EXCEPT !.token = f, !.koios = IF f # None THEN "key" ELSE @]
CollectForm(w, f) == [w EXCEPT !.db = f, !.mode = ModeOf(w.where)]

Collect(key, w, f, there) ==
    CASE key = "koios" -> CollectKoios(w, f)
      [] key = "dbkey" /\ there -> [w EXCEPT !.path = f]
      [] key = "dbconn" /\ w.useDb -> CollectForm(w, IF there THEN f ELSE None)
      [] key = "blockfrost" /\ w.useBf -> [w EXCEPT !.key = f]
      [] OTHER -> w

Paint(key, w) == page' = key /\ wiz' = w /\ field' = Rendered(key, w)

-----------------------------------------------------------------------------
(* Finish.                                                                 *)

\* buildSourceChoice
SourceChoice(w) ==
    [useDb |-> w.useDb, mode |-> IF w.useDb THEN w.mode ELSE None,
     db |-> IF w.useDb THEN w.db ELSE None, useBf |-> w.useBf]

\* What applyWizard waits for next from a given point on, or None when it is
\* through; a Blockfrost key is stored before it is tried.
FromBf(w) == IF w.useBf /\ w.key # None THEN "bf" ELSE None
FromToken(w) == IF w.useDb /\ w.connected THEN "db" ELSE FromBf(w)
StoresKey(stage, w) == bfKey' = IF stage = "bf" THEN w.key ELSE bfKey

\* When it is through the dialog is removed and onComplete called.
Closes(stage) ==
    IF stage = None THEN page' = "closed" /\ completed' = completed + 1
    ELSE UNCHANGED <<page, completed>>

\* applyWizard up to its first wait.
BeginApply(w, refused) ==
    LET stage == IF refused THEN "alert" ELSE FromToken(w) IN
    /\ wiz' = w /\ UNCHANGED field
    /\ stored' = IF refused THEN stored ELSE SourceChoice(w)
    /\ token' = IF refused THEN token ELSE w.token
    /\ StoresKey(stage, w) /\ Closes(stage)
    /\ applying' = IF stage = None THEN applying ELSE Append(applying, stage)

\* A wait is over: the message was read, or the source has answered, either way.
ApplyGoesOn(k) ==
    LET stage == CASE applying[k] = "alert" -> FromToken(wiz)
                   [] applying[k] = "db" -> FromBf(wiz)
                   [] OTHER -> None
    IN /\ token' = IF applying[k] = "alert" THEN wiz.token ELSE token
       /\ StoresKey(stage, wiz) /\ Closes(stage)
       /\ applying' = IF stage = None THEN RemoveAt(applying, k) ELSE [applying EXCEPT ![k] = stage]
       /\ waits' = IF stage = None THEN <<>> ELSE waits
       /\ UNCHANGED <<stored, session, wiz, field, touched, before, runs, left>>

-----------------------------------------------------------------------------
(* The buttons.                                                            *)

Disturbed(kind) == kind \in Disturb /\ left > 0 /\ left' = left - 1
Open == page \in Range(Steps)

\* The step that Next has dealt with is collected, and the dialog moves on from
\* where it is now; after the last step the choices are applied.
Advance(key, refused) ==
    LET w == Collect(key, wiz, field, page = key)
        i == NextVisible(At(page), w)
    IN IF i # None
       THEN Paint(Steps[i], w) /\ UNCHANGED <<disk, applying, completed>>
       ELSE BeginApply(w, refused)

\* A click on Next, or the one a card makes by itself a moment after it was chosen.
ClickNext ==
    /\ Open /\ Valid(page, wiz, field)
    /\ \E refused \in BOOLEAN :
         /\ refused => page = "done"
         /\ IF waits # <<>> \/ applying # <<>>
            THEN ~refused /\ Disturbed("twice") /\ touched' = touched \cup {"twice"}
            ELSE /\ IF refused THEN Disturbed("full") ELSE UNCHANGED left
                 /\ UNCHANGED touched
         /\ IF Checks(page, wiz)
            THEN /\ waits' = Append(waits, page)
                 /\ UNCHANGED <<disk, page, wiz, field, applying, completed>>
            ELSE /\ Advance(page, refused)
                 /\ waits' = IF page' = "closed" THEN <<>> ELSE waits
    /\ UNCHANGED <<session, before, runs>>

\* The shell has answered about the key file.
CheckPasses(k) ==
    /\ Open /\ Advance(waits[k], FALSE)
    /\ waits' = IF page' = "closed" THEN <<>> ELSE RemoveAt(waits, k)
    /\ UNCHANGED <<session, touched, before, runs, left>>

CheckFails(k) ==
    /\ Open /\ waits' = RemoveAt(waits, k)
    /\ UNCHANGED <<disk, session, page, wiz, field, applying, hist, runs, left>>

\* The connection to the node is a commitment: no way back to it.
BackLocked == PrevVisible(At(page), wiz) = None \/ (wiz.connected /\ At(page) <= ConnectIdx + 1)
Back ==
    /\ Open /\ ~BackLocked /\ Disturbed("back")
    /\ Paint(Steps[PrevVisible(At(page), wiz)], wiz)
    /\ UNCHANGED <<disk, session, waits, applying, hist, runs>>

\* The cards of a step.
Chosen ==
    CASE page = "transport" -> {[wiz EXCEPT !.transport = "ssh", !.ack = FALSE],
                                [wiz EXCEPT !.transport = "local"],
                                [wiz EXCEPT !.ack = (wiz.transport = "local")]}
      [] page = "koios" -> {[wiz EXCEPT !.koios = m] : m \in {"free", "key"}}
      [] page = "dbhave" -> {[wiz EXCEPT !.useDb = y, !.dbAnswered = TRUE] : y \in BOOLEAN}
      [] page = "dbwhere" -> {[wiz EXCEPT !.where = p] : p \in {"local", "bp", "remote"}}
      [] page = "blockfrost" -> {[wiz EXCEPT !.useBf = y, !.bfAnswered = TRUE] : y \in BOOLEAN}
      [] OTHER -> {}
ConcernsDb(w) == w.useDb # wiz.useDb \/ w.where # wiz.where

Choose(w) ==
    /\ wiz' = w /\ w # wiz
    /\ touched' = touched \cup IF ConcernsDb(w) THEN {"db"} ELSE {}
    /\ UNCHANGED <<disk, session, page, field, waits, applying, completed, before, runs, left>>

Typable == CASE page = "koios" -> Tokens \cup {None} [] page \in {"dbkey", "dbconn"} -> Entries
             [] page = "blockfrost" -> Keys [] OTHER -> {}
Type(v) ==
    /\ field' = v /\ v # field
    /\ touched' = touched \cup {IF page = "koios" THEN "token" ELSE "db"}
    /\ UNCHANGED <<disk, session, page, wiz, waits, applying, completed, before, runs, left>>

\* The key is tried (applyBlockfrostKey).
TestKey ==
    /\ page = "blockfrost" /\ field # None /\ Disturbed("test")
    /\ bfKey' = field
    /\ UNCHANGED <<stored, token, session, dialog, hist, runs>>

\* The connection screen takes over, and the wizard resumes with what was chosen.
OpenConnect ==
    /\ page = "connect" /\ ~wiz.connected
    /\ page' = "connecting" /\ waits' = <<>>
    /\ UNCHANGED <<disk, session, wiz, field, applying, hist, runs, left>>

Connected(live) ==
    /\ page = "connecting" /\ session' = (session \/ live)
    /\ Paint(IF live THEN "koios" ELSE "connect", [wiz EXCEPT !.connected = session'])
    /\ UNCHANGED <<disk, waits, applying, hist, runs, left>>

\* The sample data instead: nothing is applied.
OpenDemo ==
    /\ page = "welcome" /\ Disturbed("demo")
    /\ page' = "closed" /\ waits' = <<>> /\ completed' = completed + 1
    /\ UNCHANGED <<disk, session, wiz, field, applying, touched, before, runs>>

\* Escape, where there is a set-up to go back to: when the wizard was opened
\* with a live session. A Finish under way goes on.
Cancel ==
    /\ Open /\ before.canCancel
    /\ page' = "closed" /\ waits' = <<>>
    /\ UNCHANGED <<disk, session, wiz, field, applying, hist, runs, left>>

Opened == [canCancel |-> session, stored |-> stored, token |-> token, bfKey |-> bfKey, done |-> completed]

\* Settings: the wizard is run again, once the last Finish is through.
Reopen ==
    /\ page = "closed" /\ applying = <<>> /\ runs < MaxRuns /\ runs' = runs + 1
    /\ Paint("welcome", StartState)
    /\ touched' = {} /\ before' = Opened
    /\ UNCHANGED <<disk, session, waits, applying, completed, left>>

-----------------------------------------------------------------------------
Init ==
    /\ stored = None /\ token = None /\ bfKey = None /\ session = FALSE
    /\ page = "welcome" /\ wiz = StartState /\ field = None
    /\ waits = <<>> /\ applying = <<>>
    /\ completed = 0 /\ touched = {} /\ before = Opened /\ runs = 1 /\ left = MaxDisturb

Next ==
    \/ ClickNext \/ Back \/ TestKey \/ OpenConnect \/ OpenDemo \/ Cancel \/ Reopen
    \/ \E k \in DOMAIN waits : CheckPasses(k) \/ CheckFails(k)
    \/ \E k \in DOMAIN applying : ApplyGoesOn(k)
    \/ \E w \in Chosen : Choose(w)
    \/ \E v \in Typable : Type(v)
    \/ \E live \in BOOLEAN : Connected(live)

Spec == Init /\ [][Next]_vars

-----------------------------------------------------------------------------
Modes == {"local", "tunnel", "ssh"}
TypeOK ==
    /\ stored = None \/ (stored.mode \in Modes <=> stored.useDb)
    /\ token \in Tokens \cup {None} /\ bfKey \in Keys \cup {None}
    /\ page \in Range(Steps) \cup {"closed", "connecting"}
    /\ wiz.mode \in Modes /\ wiz.db \in Entries \cup {None} /\ wiz.key \in Keys \cup {None}
    /\ Range(waits) \subseteq {"dbkey", "dbconn"}
    /\ Range(applying) \subseteq {"alert", "db", "bf"}

\* A re-run shows what is set up, and Finish does not overwrite what the user
\* did not touch: the Koios token and the place of the database stay as they were,
\* and its form does unless Next was clicked twice.
KeepsTheRest ==
    /\ stored' # stored /\ stored # None /\ "db" \notin touched =>
         /\ stored'.useDb = stored.useDb /\ stored'.mode = stored.mode
         /\ "twice" \notin touched' => stored'.db = stored.db
    /\ token' # token => "token" \in touched
FinishKeepsTheRest == [][KeepsTheRest]_vars

\* A finished set-up is of a node that was connected. Unless Next was clicked twice
\* it is whole: the place of the database is the one last chosen, its form was filled
\* in where it has to be, and a wanted key is there.
WholeIfStored ==
    stored' # stored =>
        /\ wiz'.transport # None /\ wiz'.connected
        /\ "twice" \notin touched' =>
             /\ stored'.useDb => stored'.mode = ModeOf(wiz'.where)
             /\ stored'.mode = "ssh" => stored'.db # None
             /\ stored'.useBf => wiz'.key # None
FinishIsWhole == [][WholeIfStored]_vars

\* A step is over once: what waits for the wizard is started once per run.
CompletesOnce == completed <= runs

\* "Cancelling writes nothing: every choice lives in `wiz` until applyWizard() runs
\* on Finish, so the existing config stands untouched."
CancelWritesNothing ==
    [][page # "closed" /\ page' = "closed" /\ completed' = completed =>
         <<stored, token, bfKey>> = <<before.stored, before.token, before.bfKey>>]_vars
=============================================================================
