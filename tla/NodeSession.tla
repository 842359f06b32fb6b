---------------------------- MODULE NodeSession -----------------------------
(* The node the application talks to: the connect form and the session that    *)
(* is resumed after a reload (src/src/views/connect.js), the state kept of it  *)
(* (data/session.js), Disconnect and the way into demo and back (main.js), and *)
(* the probe of the node behind the role and version beside its name           *)
(* (node-probe.js, main.js). The SSH session is the shell's and outlives the   *)
(* page. What the wizard stores is the subject of SetupWizard; here it leads   *)
(* to the form and from there to its end.                                      *)
EXTENDS Naturals, FiniteSets

CONSTANTS
    None,       \* nobody, nothing
    Nodes,      \* hosts that can be connected to
    BPs,        \* those whose node forges blocks
    Envs,       \* what an env file may print: [error, ccli, socket, home, net,
                \* pool], whether it returned an error and which of these it set
    Disturb,    \* bound: what may happen, out of "ssh", "env" (a step of
                \* connecting fails), "down" (the node's process stops), "reload",
                \* "settled" (a reload, the session being the stored host's),
                \* "cancel" (the wizard is closed once connected), "disconnect",
                \* "overlap" (also while the probe is under way), "demo"
    MaxDisturb  \* bound: how often

VARIABLES
    shell,    \* the host of the SSH session the shell holds
    saved,    \* the host in the stored connection
    mode,     \* "live" or "demo"
    conn,     \* STATE: the host shown, the host whose env was read, and whether
              \* that named a pool; or None
    probe,    \* STATE.nodeProbe: the role in it, or None
    dialog,   \* what is open: "none", "wizard", "form", "reform" (the form
              \* Disconnect opens, which offers the wizard), "wizform" (the
              \* wizard's), "hub" (the wizard, once connected)
    attempt,  \* the attempt to connect: its host and its step
    polling,  \* fastTimer is set
    asks,     \* questions to the node under way: probe or version, and of whom
    badge,    \* the role painted: None when hidden
    version,  \* whose version is painted
    warned,   \* _bpPoolIdWarned
    down,     \* history: hosts whose node does not run
    left      \* disturbances left

link  == <<shell, saved, conn>>
page  == <<dialog, attempt, polling>>
paint == <<probe, badge, version, warned>>
vars  == <<link, mode, page, asks, paint, down, left>>

NoAttempt == [node |-> None, step |-> "none"]

\* What the probe of a host's node finds.
RoleOf(n) == IF n = None \/ n \in down THEN "UNKNOWN" ELSE IF n \in BPs THEN "BP" ELSE "RELAY"

-----------------------------------------------------------------------------
(* Starting, and resuming over a session that is still there.                *)

\* DOMContentLoaded: the wizard at the first start, else an attempt to resume.
FirstDialog == IF saved = None THEN "wizard" ELSE "none"
FirstAttempt == IF saved = None THEN NoAttempt ELSE [node |-> saved, step |-> "alive"]

Init ==
    /\ saved \in Nodes \cup {None} /\ shell = None /\ conn = None
    /\ mode = "demo" /\ polling = FALSE /\ asks = {}
    /\ probe = None /\ badge = None /\ version = None /\ warned = FALSE
    /\ dialog = FirstDialog /\ attempt = FirstAttempt
    /\ down = {} /\ left = MaxDisturb

\* resumeLive asks whether the shell holds a session, whosever it is.
ResumeAsks ==
    /\ attempt.step = "alive"
    /\ IF shell = None THEN dialog' = "form" /\ attempt' = NoAttempt
       ELSE dialog' = dialog /\ attempt' = [attempt EXCEPT !.step = "env"]
    /\ UNCHANGED <<link, mode, polling, asks, paint, down, left>>

\* Connect is pressed in a form.
PressConnect(n) ==
    /\ dialog \in {"form", "reform", "wizform"} /\ attempt = NoAttempt
    /\ attempt' = [node |-> n, step |-> "ssh"]
    /\ UNCHANGED <<link, mode, dialog, polling, asks, paint, down, left>>

\* ssh_connect: a new session replaces the one the shell held.
SshOpens ==
    /\ attempt.step = "ssh" /\ attempt' = [attempt EXCEPT !.step = "env"]
    /\ shell' = attempt.node
    /\ UNCHANGED <<saved, conn, mode, dialog, polling, asks, paint, down, left>>

\* envFailed: an error counts when something needed is missing, the pool of a node
\* that is seen to be a block producer included.
EnvFailed(e) == e.error /\ ~(e.socket /\ e.net /\ (RoleOf(shell) = "BP" => e.pool))

\* The socket may be derived from CNODE_HOME, the network defaults to mainnet.
EnvSuffices(e) == e.ccli /\ (e.socket \/ e.home) /\ ~EnvFailed(e)

\* markConnected, and the mode is live; the cache is claimed next.
EnvAnswers ==
    /\ attempt.step = "env" /\ shell # None
    /\ \E e \in Envs :
         EnvSuffices(e) /\ conn' = [host |-> attempt.node, env |-> shell, pool |-> e.pool]
    /\ attempt' = [attempt EXCEPT !.step = "cache"] /\ mode' = "live" /\ shell' = shell
    /\ saved' = IF dialog = "none" THEN saved ELSE attempt.node
    /\ UNCHANGED <<dialog, polling, asks, paint, down, left>>

\* The form stays with its error, a resumed start falls back to it. The session
\* that was opened stays open.
GivesUp ==
    /\ attempt' = NoAttempt /\ dialog' = IF dialog = "none" THEN "form" ELSE dialog
    /\ UNCHANGED <<link, mode, polling, asks, paint, down>>

EnvRejected ==
    /\ attempt.step = "env" /\ shell # None /\ \E e \in Envs : ~EnvSuffices(e)
    /\ GivesUp /\ UNCHANGED left

AttemptFails ==
    /\ attempt.step \in {"ssh", "env"} \cap Disturb
    /\ left > 0 /\ left' = left - 1 /\ GivesUp

\* runProbeAndPaintRole: in demo nothing is asked and nothing is shown.
RunProbe ==
    IF mode = "live" THEN asks' = asks \cup {[what |-> "probe", of |-> shell]} /\ UNCHANGED paint
    ELSE badge' = None /\ version' = None /\ UNCHANGED <<asks, probe, warned>>

\* startLive and _relive.
Enter == dialog' = "none" /\ polling' = TRUE /\ RunProbe

CacheReady ==
    /\ attempt.step = "cache" /\ attempt' = NoAttempt
    /\ IF dialog = "wizform" THEN dialog' = "hub" /\ UNCHANGED <<polling, asks, paint>> ELSE Enter
    /\ UNCHANGED <<link, mode, down, left>>

-----------------------------------------------------------------------------
(* The wizard, Disconnect, demo and back.                                    *)

OpenForm ==
    /\ dialog = "wizard" /\ dialog' = "wizform"
    /\ UNCHANGED <<link, mode, attempt, polling, asks, paint, down, left>>

\* Back in the wizard's form, and the wizard offered beside Disconnect's.
OpenWizard ==
    /\ dialog \in {"wizform", "reform"} /\ attempt = NoAttempt /\ dialog' = "wizard"
    /\ UNCHANGED <<link, mode, attempt, polling, asks, paint, down, left>>

\* Wrong: the probe is left to the form's own way in.
FinishUnasked ==
    /\ dialog = "hub" /\ dialog' = "none" /\ polling' = TRUE
    /\ UNCHANGED <<link, mode, attempt, asks, paint, down, left>>

FinishWizard == dialog = "hub" /\ Enter /\ UNCHANGED <<link, mode, attempt, down, left>>

\* Escape or the cross, which the wizard has as soon as a node is connected, and in
\* demo over a stored connection.
CancelWizard ==
    /\ dialog = "hub" \/ (dialog = "wizard" /\ mode = "demo" /\ saved # None)
    /\ "cancel" \in Disturb /\ left > 0 /\ left' = left - 1
    /\ dialog' = "none"
    /\ UNCHANGED <<link, mode, attempt, polling, asks, paint, down>>

\* "Just exploring?" in the wizard: demo, entered like a connection.
ExploreDemo ==
    /\ dialog = "wizard" /\ mode' = "demo" /\ dialog' = "none" /\ polling' = TRUE
    /\ badge' = None /\ version' = None
    /\ UNCHANGED <<link, attempt, asks, probe, warned, down, left>>

\* The same, in a wizard run again from the settings: nobody waits for its end.
RerunIntoDemo ==
    /\ dialog = "none" /\ attempt = NoAttempt /\ conn # None /\ mode = "live"
    /\ "demo" \in Disturb /\ left > 0 /\ left' = left - 1 /\ mode' = "demo"
    /\ UNCHANGED <<link, page, asks, paint, down>>

\* A click on the DEMO badge, while the live session is open.
BackToLive ==
    /\ dialog = "none" /\ mode = "demo" /\ conn # None
    /\ mode' = "live" /\ badge' = probe
    /\ UNCHANGED <<link, page, asks, probe, version, warned, down, left>>

\* Disconnect: the timer, the session and what is kept of it go; mode and badge stay.
Disconnected ==
    /\ polling' = FALSE /\ shell' = None /\ conn' = None /\ probe' = None
    /\ dialog' = IF saved = None THEN "wizard" ELSE "reform"
    /\ UNCHANGED <<saved, mode, attempt, asks, badge, version, warned>>

Disconnect ==
    /\ dialog = "none" /\ attempt = NoAttempt
    /\ "disconnect" \in Disturb /\ left > 0 /\ left' = left - 1
    /\ asks = {} \/ "overlap" \in Disturb
    /\ Disconnected /\ UNCHANGED down

\* The page is loaded anew over the shell's session.
Reload ==
    /\ "reload" \in Disturb \/ ("settled" \in Disturb /\ shell \in {None, saved})
    /\ left > 0 /\ left' = left - 1
    /\ conn' = None /\ mode' = "demo" /\ polling' = FALSE /\ asks' = {}
    /\ probe' = None /\ badge' = None /\ version' = None /\ warned' = FALSE
    /\ dialog' = FirstDialog /\ attempt' = FirstAttempt
    /\ UNCHANGED <<shell, saved, down>>

-----------------------------------------------------------------------------
(* The probe's answers.                                                      *)

\* warnBpWithoutPoolId, for a block producer, by the env of the moment.
WarnsOfPool(role) == role = "BP" /\ (conn = None \/ ~conn.pool)

\* What is heard of a node: what it is while its session is open; when that was
\* closed, what was read before, or nothing.
Heard(n) == {RoleOf(n)} \cup (IF n = shell THEN {} ELSE {"UNKNOWN"})

\* The probe answers: role and badge; then the version is asked for, in live mode.
ProbeAnswers(a) ==
    /\ a \in asks /\ a.what = "probe"
    /\ \E role \in Heard(a.of) :
         probe' = role /\ badge' = role /\ warned' = (warned \/ WarnsOfPool(role))
    /\ asks' = (asks \ {a}) \cup (IF mode = "live" THEN {[what |-> "version", of |-> shell]} ELSE {})
    /\ version' = IF mode = "live" THEN version ELSE None
    /\ UNCHANGED <<link, mode, page, down, left>>

\* fetchNodeVersion tries one command after the other, over the session of then.
VersionAnswers(a) ==
    /\ a \in asks /\ a.what = "version" /\ asks' = asks \ {a}
    /\ \E n \in {a.of, shell} : version' = IF RoleOf(n) = "UNKNOWN" THEN None ELSE n
    /\ UNCHANGED <<link, mode, page, probe, badge, warned, down, left>>

\* A node's process stops, or runs again.
NodeStops(n) ==
    /\ n \notin down /\ "down" \in Disturb /\ left > 0 /\ left' = left - 1
    /\ down' = down \cup {n}
    /\ UNCHANGED <<link, mode, page, asks, paint>>
NodeStarts(n) ==
    /\ n \in down /\ down' = down \ {n}
    /\ UNCHANGED <<link, mode, page, asks, paint, left>>

Answer == \E a \in asks : ProbeAnswers(a) \/ VersionAnswers(a)

Next ==
    \/ ResumeAsks \/ SshOpens \/ EnvAnswers \/ EnvRejected \/ AttemptFails \/ CacheReady
    \/ OpenForm \/ OpenWizard \/ FinishWizard \/ CancelWizard \/ ExploreDemo
    \/ RerunIntoDemo \/ BackToLive \/ Disconnect \/ Reload \/ Answer
    \/ \E n \in Nodes : PressConnect(n) \/ NodeStops(n) \/ NodeStarts(n)

Spec == Init /\ [][Next]_vars /\ WF_vars(Answer)

-----------------------------------------------------------------------------
(* Properties.                                                               *)

TypeOK ==
    /\ {shell, saved, version} \subseteq Nodes \cup {None}
    /\ conn \in {None} \cup [host : Nodes, env : Nodes, pool : BOOLEAN]
    /\ mode \in {"live", "demo"}
    /\ dialog \in {"none", "wizard", "form", "reform", "wizform", "hub"}
    /\ attempt \in [node : Nodes \cup {None}, step : {"none", "alive", "ssh", "env", "cache"}]
    /\ asks \subseteq [what : {"probe", "version"}, of : Nodes \cup {None}]
    /\ {probe, badge} \subseteq {"BP", "RELAY", "UNKNOWN", None}
    /\ polling \in BOOLEAN /\ warned \in BOOLEAN /\ down \subseteq Nodes /\ left \in 0..MaxDisturb

InUse == mode = "live" /\ conn # None /\ dialog = "none" /\ attempt = NoAttempt

\* The name, the role and the version in the header are of the node whose answers
\* fill the screen, once nothing is asked any more: after reconnecting elsewhere,
\* failed attempts, reloads, and demo and back. (Not when the operator disconnects
\* while the probe is under way: the old node's role then arrives under the new one;
\* nor when the page is loaded anew over a session opened to another host than the
\* stored one: it is resumed under the stored name.)
HeaderIsTheNodes ==
    InUse /\ asks = {} /\ "overlap" \notin Disturb =>
        /\ conn.host = shell
        /\ badge \in {None, "UNKNOWN", IF shell \in BPs THEN "BP" ELSE "RELAY"}
        /\ version \in {None, shell}

\* "First-run gets NO close control - cancel there would strand an unconfigured
\* app" (wizard.js:876-878): a node that is connected to is polled once the
\* dialogs are closed.
NotStranded == InUse => polling

\* In demo no role and no version of a node are shown (main.js:421-424, 385). The
\* wizard run again from the settings leaves them, and so does an answer that comes
\* after the mode has changed.
DemoShowsNoNode == mode = "demo" => badge = None /\ version = None

\* "Say so, once per session" (main.js:396-398): a block producer whose env gave no
\* pool is not shown without the warning having been given, also when its node did
\* not run while the env was read and the form could not refuse it.
PoollessIsTold ==
    InUse /\ polling /\ asks = {} /\ badge = "BP" /\ ~conn.pool => warned

\* Why it was: the wizard waits for no attempt, nobody connects over a connection, what
\* is polled has no dialog before it, and a role is painted with its warning or before
\* the probe that will give it.
Settled == dialog = "none" /\ attempt = NoAttempt
Asked == \E a \in asks : a.what = "probe"
OneAtATime ==
    /\ attempt \in [node : Nodes \cup {None}, step : {"none", "alive", "ssh", "env", "cache"}]
    /\ saved \in Nodes \cup {None}
    /\ dialog \in {"wizard", "hub"} => attempt = NoAttempt
    /\ conn # None => dialog \in {"none", "hub"} \/ attempt.step = "cache"
    /\ attempt.step \in {"alive", "ssh", "env"} => conn = None
    /\ polling => Settled
TellsInTime ==
    /\ probe = "BP" /\ ~warned => conn # None /\ conn.pool
    /\ polling /\ conn # None /\ badge = "BP" /\ ~warned => conn.pool \/ Asked
Told == OneAtATime /\ TellsInTime

\* Why the header is: without a step of "overlap", "reload" and "cancel" the session is that
\* of the attempt, nothing is asked of another, and what is stale has a question out.
Fits(role) == role \in {None, "UNKNOWN", IF shell \in BPs THEN "BP" ELSE "RELAY"}
SessionIsTheirs ==
    /\ attempt.step \in {"env", "cache"} => attempt.node = shell
    /\ attempt.step = "alive" => attempt.node = saved /\ shell \in {None, saved}
    /\ conn # None => conn.host = shell
    /\ asks # {} => Settled
    /\ \A a \in asks : a.of = shell
StaleIsAsked ==
    /\ Fits(probe) /\ (probe # None => Settled)
    /\ conn # None /\ Settled =>
         /\ polling
         /\ Fits(badge) \/ Asked
         /\ version \in {None, shell} \/ asks # {}
Orderly == OneAtATime /\ SessionIsTheirs /\ StaleIsAsked

RoleMissing == InUse /\ badge = None

\* The role of a node in use is shown in the end.
RoleComes == RoleMissing ~> ~RoleMissing
=============================================================================
