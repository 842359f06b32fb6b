----------------------------- MODULE KoiosClient -----------------------------
(***************************************************************************)
(* Koios: the meter that counts requests against the day's limit, the      *)
(* pause switch, and the paged fetch of the pool's delegators with their   *)
(* live balances (koios-query.js, koios-meter.js, koios-token.js).         *)
(*                                                                         *)
(* A request is one step: nothing the code does between sending it and     *)
(* reading its answer matters to the meter, and a membership that changes  *)
(* meanwhile changes before or after.  A refused, failed or timed out      *)
(* request, and one not made because of the pause, all answer "" (Failed). *)
(***************************************************************************)
EXTENDS Integers, Sequences, FiniteSets, Functions

CONSTANTS
    Accounts,      \* stake accounts of the pool
    PageSize,      \* PAGE of getPoolDelegators
    MaxPages,      \* MAX_PAGES
    BatchSize,     \* PAGE of getAccountsBalances
    HardStop,      \* koiosLimits().hardStop of each tier
    Ceiling,       \* koiosLimits().limit of each tier
    Worlds,        \* how many delegators an execution has, what it may meet
    MaxDisturb,    \* bound: how many disturbances happen
    MaxDay         \* bound: the last UTC day

Tiers == {"free", "token"}
Failed == <<"failed">>
Idle == [pc |-> "idle", page |-> 0, out |-> <<>>, batch |-> 0, attempt |-> 1, live |-> {},
         lost |-> FALSE, left |-> 0]

VARIABLES
    world,         \* the surroundings of this execution, chosen once
    members,       \* Koios: the pool's delegators, largest first
    today,         \* the UTC day
    meter,         \* pt.koios.meter.v1
    paused,        \* pt.koios.paused.v1
    tier,          \* whether a token is set
    fetch,         \* getPoolDelegators under way; history: `lost` says that what is
                   \* taken for its end was no answer, `left` how many left meanwhile
    list,          \* what it returned last
    stayed, ever,  \* history: members throughout this fetch; at some time in it
    served,        \* history: requests of each tier that Koios counted today
    disturbed

client == <<meter, paused, tier>>
koios == <<members, today>>
vars == <<world, koios, client, fetch, list, stayed, ever, served, disturbed>>

Init ==
    /\ world \in Worlds
    /\ members \in {s \in [1..world.size -> Accounts] : IsInjective(s)}
    /\ today = 1 /\ meter = [date |-> 1, count |-> 0] /\ paused = FALSE
    /\ tier = "free"
    /\ fetch = Idle /\ list = <<>> /\ stayed = {} /\ ever = {}
    /\ served = [t \in Tiers |-> 0]
    /\ disturbed = 0

Met(kind) == kind \in world.disturb

Disturbed(kind) ==
    /\ Met(kind) /\ disturbed < MaxDisturb
    /\ disturbed' = disturbed + 1

-----------------------------------------------------------------------------
(* The meter.                                                              *)

\* read(): another day's record counts for nothing.
Tally == IF meter.date = today THEN meter.count ELSE 0

\* Mutant: the pause is tripped only by the call that reaches the stop.
RecordOnce ==
    /\ meter' = [date |-> today, count |-> Tally + 1]
    /\ paused' = (Tally + 1 = HardStop[tier])

\* recordCall, made only when not paused.
RecordCall ==
    /\ meter' = [date |-> today, count |-> Tally + 1]
    /\ paused' = (Tally + 1 >= HardStop[tier])

\* runCmd over koios_http: one request that may answer one of full, the whole
\* answer, a prefix of it (cut short on its way), or nothing.
Request(full, answer, kind) ==
    \/ paused /\ answer = Failed /\ UNCHANGED <<meter, paused, served, disturbed>>
    \/ /\ ~paused /\ RecordCall
       /\ served' = [served EXCEPT ![tier] = @ + 1]
       /\ \/ answer = full /\ UNCHANGED disturbed
          \/ answer = Failed /\ Disturbed(kind)
          \/ answer \notin {full, Failed} /\ Disturbed("cut")

\* What a page may answer: it may also be cut short.
PageAnswers(full) == {Failed, full} \cup {SubSeq(full, 1, n) : n \in 1..(Len(full) - 1)}

\* parseJson with the fallback [].
OrEmpty(answer) == IF answer = Failed THEN <<>> ELSE answer

-----------------------------------------------------------------------------
(* getPoolDelegators.                                                      *)

Slice(s, offset, n) == SubSeq(s, offset + 1, IF Len(s) < offset + n THEN Len(s) ELSE offset + n)
Rows(offset, n) == Slice(members, offset, n)

StartFetch ==
    /\ fetch.pc = "idle"
    /\ fetch' = [Idle EXCEPT !.pc = "page"]
    /\ stayed' = Range(members) /\ ever' = Range(members)
    /\ UNCHANGED <<world, koios, client, list, served, disturbed>>

AfterPage(n) ==
    IF n = 0 \/ (n = PageSize /\ fetch.page + 1 = MaxPages) THEN "balances"
    ELSE IF n < PageSize THEN "probe" ELSE "page"

\* A page that is not full is the last, or cut short: the next offset is probed.
FetchPage ==
    /\ fetch.pc = "page"
    /\ LET full == Rows(fetch.page * PageSize, PageSize)
       IN \E answer \in PageAnswers(full) :
            /\ Request(full, answer, "page")
            /\ LET rows == OrEmpty(answer)
               IN fetch' = [fetch EXCEPT !.out = @ \o rows, !.page = @ + 1,
                                !.lost = fetch.page > 0 /\ answer = Failed /\ full # <<>>,
                                !.pc = AfterPage(Len(rows))]
    /\ UNCHANGED <<world, koios, tier, list, stayed, ever>>

Return(rows) == list' = rows /\ fetch' = Idle

\* Rows behind a short page: the poll is discarded.  None, and also no answer: the
\* page was the last.
Probed(answer) ==
    IF OrEmpty(answer) # <<>> THEN Return(<<>>)
    ELSE /\ fetch' = [fetch EXCEPT !.pc = "balances",
                                   !.lost = answer = Failed /\ Rows(Len(fetch.out), 1) # <<>>]
         /\ UNCHANGED list

ProbeEnd ==
    /\ fetch.pc = "probe"
    /\ LET full == Rows(Len(fetch.out), 1)
       IN \E answer \in {Failed, full} :
            /\ Request(full, answer, "probe")
            /\ Probed(answer)
    /\ UNCHANGED <<world, koios, tier, stayed, ever>>

Batch == Slice(fetch.out, fetch.batch * BatchSize, BatchSize)

\* getAccountsBalances: a batch is asked for twice at most, then passed over.
FetchBalances ==
    /\ fetch.pc = "balances" /\ Batch # <<>>
    /\ \E answer \in {Failed, Batch} :
        /\ Request(Batch, answer, "balance")
        /\ fetch' = IF answer = Failed /\ fetch.attempt = 1
                    THEN [fetch EXCEPT !.attempt = 2]
                    ELSE [fetch EXCEPT !.attempt = 1, !.batch = @ + 1,
                                       !.live = @ \cup Range(OrEmpty(answer))]
    /\ UNCHANGED <<world, koios, tier, list, stayed, ever>>

\* The overlay is all or nothing.
Overlay == Return(IF Range(fetch.out) \subseteq fetch.live THEN fetch.out ELSE <<>>)

EndFetch ==
    /\ fetch.pc = "balances" /\ Batch = <<>>
    /\ Overlay
    /\ UNCHANGED <<world, koios, client, stayed, ever, served, disturbed>>

-----------------------------------------------------------------------------
(* The operator, the clock and the chain.                                  *)

\* The wizard is applied with a token in the field: one that is malformed is not
\* kept, and the pause is lifted all the same.
EnterToken ==
    /\ Disturbed("token")
    /\ tier' \in Tiers /\ paused' = FALSE
    /\ UNCHANGED <<world, koios, meter, fetch, list, stayed, ever, served>>

\* Applied with an empty field: the token is removed.
ClearToken ==
    /\ Met("token") /\ tier = "token" /\ tier' = "free"
    /\ UNCHANGED <<world, koios, meter, paused, fetch, list, stayed, ever, served, disturbed>>

\* The counts of Koios start again with the day.
NextDay ==
    /\ today < MaxDay /\ today' = today + 1
    /\ served' = [t \in Tiers |-> 0]
    /\ UNCHANGED <<world, members, client, fetch, list, stayed, ever, disturbed>>

\* An account leaves, or joins at its place among the others.
Moves(a) ==
    /\ Disturbed("moves")
    /\ \/ /\ a \in Range(members)
          /\ members' = SelectSeq(members, LAMBDA b : b # a)
          /\ fetch' = IF fetch.pc = "idle" THEN fetch ELSE [fetch EXCEPT !.left = @ + 1]
       \/ /\ a \notin Range(members)
          /\ \E i \in 0..Len(members) :
               members' = Append(Slice(members, 0, i), a) \o Slice(members, i, Len(members))
          /\ UNCHANGED fetch
    /\ stayed' = stayed \ {a} /\ ever' = ever \cup {a}
    /\ UNCHANGED <<world, today, client, list, served>>

Next ==
    \/ StartFetch \/ FetchPage \/ ProbeEnd \/ FetchBalances \/ EndFetch
    \/ EnterToken \/ ClearToken \/ NextDay
    \/ \E a \in Accounts : Moves(a)

Spec == Init /\ [][Next]_vars

-----------------------------------------------------------------------------
TypeOK ==
    /\ members \in Seq(Accounts) /\ IsInjective(members)
    /\ meter.date \in 1..today /\ meter.count \in Nat
    /\ paused \in BOOLEAN /\ tier \in Tiers
    /\ fetch.pc \in {"idle", "page", "probe", "balances"}
    /\ fetch.live \subseteq Range(fetch.out)
    /\ list \in Seq(Accounts)

\* The fetch returns a list.
Returned == fetch.pc # "idle" /\ fetch'.pc = "idle" /\ list' # <<>>

\* Whom the list misses although they stayed with the pool throughout.
Missed == stayed \ Range(list')

\* A list that is returned names nobody who was never there meanwhile, and each with
\* a live balance; it misses nobody, but for one behind the edge of a page for each
\* who left while it was read, and for those behind a page or a probe that was not
\* answered.  Truncated pages and balances that fail never shorten it.
WholeIfDone ==
    Returned =>
        /\ Range(list') \subseteq ever \cap fetch.live
        /\ fetch.lost \/ Cardinality(Missed) <= fetch.left
ListIsWhole == [][WholeIfDone]_vars

\* "Never build a partial set, which fabricates phantom leave/return events"
\* (koios-query.js).
NeverPartial == Returned => Missed = {}

\* The auto-pause keeps the day's requests of each tier under what Koios allows,
\* through tokens entered, mistyped and removed, lifted pauses and midnights.
WithinLimit == \A t \in Tiers : served[t] <= Ceiling[t]
=============================================================================
