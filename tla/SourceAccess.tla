----------------------------- MODULE SourceAccess -----------------------------
(* How db-sync is opened and kept open: the one connect path shared by the   *)
(* collectors, the retry buttons, the wizard's Test and its Finish           *)
(* (src/src/data/dbsync-connect.js), the probe that resolves the pool        *)
(* (initDbsyncDetailed in src/src/data/dbsync-query.js), the gate with its   *)
(* backoff (ensureDbsync in src/src/data/read-model.js) and the password     *)
(* prompt (src/src/ui/dbsync-prompt.js).                                     *)
(*                                                                           *)
(* A database stands for a saved choice with all its fields. The reconnect   *)
(* of a dropped SSH session is in RelaySessions; here it has failed.         *)
EXTENDS Integers

CONSTANTS
    None,         \* null
    Databases,    \* db-syncs an operator may choose
    NeedsSecret,  \* those that want a password or a passphrase
    Pools,        \* pools the operator's nodes belong to
    MaxBackoff,   \* the longest wait between attempts, in minutes
    Disturb,      \* bound: what may happen, out of "test", "finish",
                  \* "disconnect", "drop", "outage"
    MaxDisturb    \* bound: how often

VARIABLES
    pool,      \* the connected node's pool, None without a connection
    saved,     \* the saved choice, None: db-sync is not used
    secrets,   \* databases whose secrets this session knows
    serving,   \* databases that answer
    status,    \* _status.state of dbsync-connect.js
    init,      \* _dbsyncInit
    inFlight,  \* _dbsyncConnectInFlight
    fails,     \* _dbsyncFailCount
    wait,      \* minutes until _dbsyncRetryAt
    cfg,       \* _cfg of dbsync-query.js
    hex,       \* _poolHex
    poolId,    \* _poolId
    ready,     \* _ready
    call,      \* the calls of connectDbsync: the gate's and the wizard's Test
    prompt,    \* the password prompt: "closed", "open", "dismissed"
    left       \* disturbances left

link == <<cfg, hex, poolId, ready>>
gate == <<status, init, inFlight, fails, wait>>
env  == <<pool, saved, secrets, serving>>
vars == <<env, gate, link, call, prompt, left>>

\* The gate lets one attempt in at a time, but a Disconnect reopens it: "late" is the
\* attempt that was under way.
Gates == {"gate", "late"}
Callers == Gates \cup {"test"}
Idle == [step |-> "idle"]

Init ==
    /\ pool \in Pools /\ saved \in Databases
    /\ secrets \in SUBSET NeedsSecret /\ serving = Databases
    /\ status = "not-configured" /\ init = FALSE /\ inFlight = FALSE
    /\ fails = 0 /\ wait = 0
    /\ cfg = None /\ hex = None /\ poolId = None /\ ready = FALSE
    /\ call = [c \in Callers |-> Idle]
    /\ prompt = "closed" /\ left = MaxDisturb

------------------------------------------------------------------------------
(* The connect path.                                                         *)

\* A new status is published; without its secrets the prompt opens, unless it was
\* waved away or the wizard's Test is what asked.
Publish(c, s) ==
    /\ status' = s
    /\ prompt' = IF s = "needs-password" /\ prompt = "closed" /\ c \in Gates /\ pool # None
                 THEN "open" ELSE prompt

HasSecrets(d, known) == d \in NeedsSecret => d \in known

\* The gate's attempt is over: initialised whatever came of it, and a failure waits
\* twice as long as the one before, up to the limit. (Failures are counted until the
\* limit is reached; more of them change nothing.)
Uncapped(n) == 2 ^ (n - 1)

Backoff(n) == IF 2 ^ (n - 1) < MaxBackoff THEN 2 ^ (n - 1) ELSE MaxBackoff

StillHeld(s) == IF s = "ok" THEN inFlight' = FALSE ELSE UNCHANGED inFlight

Released(s) == inFlight' = FALSE

GateEnds(s) ==
    /\ init' = TRUE /\ Released(s)
    /\ fails' = IF s = "ok" THEN 0
                ELSE IF s = "failed" /\ (fails = 0 \/ Backoff(fails) < MaxBackoff) THEN fails + 1
                ELSE fails
    /\ wait' = IF s = "ok" THEN 0 ELSE IF s = "failed" THEN Backoff(fails') ELSE wait

Ends(c, s) ==
    /\ Publish(c, s)
    /\ IF c \in Gates THEN GateEnds(s) ELSE UNCHANGED <<init, inFlight, fails, wait>>
    /\ call' = [call EXCEPT ![c] = Idle]

\* connectDbsync up to its first wait: without its secrets it has ended.
Begins(c, d, known) ==
    IF HasSecrets(d, known)
    THEN /\ call' = [call EXCEPT ![c] = [step |-> "link", db |-> d, hex |-> pool]]
         /\ inFlight' = (inFlight \/ c \in Gates)
         /\ UNCHANGED <<status, prompt, init, fails, wait>>
    ELSE Ends(c, "needs-password")

\* The SSH session stands, or is not needed: initDbsyncDetailed takes over the
\* module's connection.
Linked(c) ==
    /\ call[c].step = "link"
    /\ cfg' = call[c].db /\ hex' = call[c].hex /\ poolId' = None /\ ready' = FALSE
    /\ call' = [call EXCEPT ![c] = [step |-> "probe"]]
    /\ UNCHANGED <<env, gate, prompt, left>>

Unlinked(c) ==
    /\ call[c].step = "link" /\ call[c].db \notin serving
    /\ Ends(c, "failed") /\ UNCHANGED <<env, link, left>>

\* Each query uses the connection the module has when it is sent; the answers are
\* assigned when they come.
Answers == cfg # None /\ cfg \in serving

Probed(c) ==
    /\ call[c].step = "probe" /\ Answers
    /\ call' = [call EXCEPT ![c] = [step |-> "resolve", found |-> hex]]
    /\ UNCHANGED <<env, gate, link, prompt, left>>

Resolved(c) ==
    /\ call[c].step = "resolve" /\ call[c].found # None /\ Answers
    /\ poolId' = call[c].found
    /\ call' = [call EXCEPT ![c] = [step |-> "version"]]
    /\ UNCHANGED <<env, gate, cfg, hex, ready, prompt, left>>

Versioned(c) ==
    /\ call[c].step = "version"
    /\ ready' = TRUE
    /\ Ends(c, "ok") /\ UNCHANGED <<env, cfg, hex, poolId, left>>

\* A query throws: the first leaves ready as it is, the others clear it.
Broken(c) ==
    /\ \/ call[c].step = "probe" /\ ~Answers /\ UNCHANGED ready
       \/ /\ \/ call[c].step \in {"resolve", "version"} /\ ~Answers
             \/ call[c].step = "resolve" /\ call[c].found = None
          /\ ready' = FALSE
    /\ Ends(c, "failed") /\ UNCHANGED <<env, cfg, hex, poolId, left>>

------------------------------------------------------------------------------
(* Who calls it.                                                             *)

\* ensureDbsync, from every collector's tick.
Ensure ==
    /\ pool # None /\ saved # None
    /\ ~(init /\ status \in {"ok", "needs-password"})
    /\ ~inFlight /\ ~(status = "failed" /\ wait > 0)
    /\ \E c \in Gates : call[c].step = "idle" /\ Begins(c, saved, secrets)
    /\ UNCHANGED <<env, link, left>>

\* retryDbsyncNow: the wait and the initialisation are forgotten; with an attempt in
\* flight nothing else happens.
Retry(d, known) ==
    IF inFlight
    THEN /\ init' = FALSE /\ wait' = 0
         /\ UNCHANGED <<status, inFlight, fails, call, prompt>>
    ELSE \E c \in Gates :
         /\ call[c].step = "idle" /\ HasSecrets(d, known)
         /\ init' = FALSE /\ wait' = 0 /\ inFlight' = TRUE
         /\ call' = [call EXCEPT ![c] = [step |-> "link", db |-> d, hex |-> pool]]
         /\ prompt' = IF prompt = "open" THEN "closed" ELSE prompt
         /\ UNCHANGED <<status, fails>>

\* setSessionSecrets.
Remember(d) == secrets' = secrets \cup {d}

\* The operator answers the prompt. It closes when the retry succeeds; here, when it
\* has been started.
EnterSecret ==
    /\ prompt = "open" /\ saved # None
    /\ Remember(saved)
    /\ Retry(saved, secrets')
    /\ UNCHANGED <<pool, saved, serving, link, left>>

NotNow ==
    /\ prompt = "open" /\ prompt' = "dismissed"
    /\ UNCHANGED <<env, gate, link, call, left>>

\* The wizard's Test opens what the form holds, with the secrets typed into it.
Test(d) ==
    /\ "test" \in Disturb /\ left > 0 /\ left' = left - 1
    /\ pool # None /\ call["test"].step = "idle"
    /\ \E typed \in SUBSET {d} : Begins("test", d, typed)
    /\ UNCHANGED <<env, link>>

\* Its Finish saves the choice and the secrets, and retries.
Finish(d) ==
    /\ "finish" \in Disturb /\ left > 0 /\ left' = left - 1
    /\ pool # None /\ saved' = d /\ Remember(d)
    /\ Retry(d, secrets')
    /\ UNCHANGED <<pool, serving, link>>

------------------------------------------------------------------------------
(* What happens meanwhile.                                                   *)

\* The session's state, as the connect form and Disconnect set it.
Session(p) == pool # p /\ pool' = p

\* Disconnect: resetReadModel. Calls in flight go on; the status stands.
Disconnect ==
    /\ "disconnect" \in Disturb /\ left > 0 /\ left' = left - 1
    /\ Session(None)
    /\ init' = FALSE /\ inFlight' = FALSE /\ fails' = 0 /\ wait' = 0
    /\ cfg' = None /\ hex' = None /\ poolId' = None /\ ready' = FALSE
    /\ UNCHANGED <<saved, secrets, serving, status, call, prompt>>

Connect(p) ==
    /\ pool = None /\ Session(p)
    /\ UNCHANGED <<saved, secrets, serving, gate, link, call, prompt, left>>

DropQuietly ==
    /\ "drop" \in Disturb /\ left > 0 /\ left' = left - 1
    /\ ready /\ ready' = FALSE
    /\ UNCHANGED <<env, gate, cfg, hex, poolId, call, prompt>>

\* The SSH session drops and cannot be opened again: markDbsyncDown.
Drop ==
    /\ "drop" \in Disturb /\ left > 0 /\ left' = left - 1
    /\ ready /\ ready' = FALSE /\ status' = "failed"
    /\ UNCHANGED <<env, init, inFlight, fails, wait, cfg, hex, poolId, call, prompt>>

Outage(d) ==
    /\ "outage" \in Disturb /\ left > 0 /\ left' = left - 1
    /\ d \in serving /\ serving' = serving \ {d}
    /\ UNCHANGED <<pool, saved, secrets, gate, link, call, prompt>>

Back(d) ==
    /\ d \notin serving /\ serving' = serving \cup {d}
    /\ UNCHANGED <<pool, saved, secrets, gate, link, call, prompt, left>>

Minute ==
    /\ wait > 0 /\ wait' = wait - 1
    /\ UNCHANGED <<env, status, init, inFlight, fails, link, call, prompt, left>>

Step(c) == Linked(c) \/ Unlinked(c) \/ Probed(c) \/ Resolved(c) \/ Versioned(c) \/ Broken(c)

Next ==
    \/ \E c \in Callers : Step(c)
    \/ \E d \in Databases : Test(d) \/ Finish(d) \/ Outage(d) \/ Back(d)
    \/ \E p \in Pools : Connect(p)
    \/ Ensure \/ EnterSecret \/ NotNow \/ Disconnect \/ Drop \/ Minute

\* Calls end, time passes, the loop ticks, a database comes back, the operator
\* reconnects.
Fairness ==
    /\ \A c \in Callers : WF_vars(Step(c))
    /\ WF_vars(Ensure) /\ WF_vars(Minute)
    /\ \A d \in Databases : WF_vars(Back(d))
    /\ WF_vars(\E p \in Pools : Connect(p))

Spec == Init /\ [][Next]_vars
FairSpec == Spec /\ Fairness

------------------------------------------------------------------------------
(* Properties.                                                               *)

AtRest == \A c \in Callers : call[c].step = "idle"

TypeOK ==
    /\ pool \in Pools \cup {None} /\ saved \in Databases \cup {None}
    /\ status \in {"not-configured", "ok", "needs-password", "failed"}
    /\ fails \in 0..MaxBackoff + 1 /\ wait \in 0..MaxBackoff

\* When nothing is in flight and db-sync has been opened under this connection, a
\* status of ok is the truth: the queries are routed to it.
OkMeansReady == AtRest /\ init /\ status = "ok" => ready

\* A failure is not final: db-sync ends up open, or waiting for what only the operator
\* can give it.
OpenOrAsking == status \in {"ok", "needs-password"}
Recovers == <>[]OpenOrAsking

\* Finish goes the way of the startup, with the saved choice: when nothing is in
\* flight, an open db-sync is the saved one.
OpensTheSaved == AtRest /\ init /\ ready => cfg = saved

\* An open db-sync answers for the connected pool.
AnswersForThePool == AtRest /\ init /\ ready /\ pool # None => poolId = pool
=============================================================================
