--------------------------- MODULE DelegatorsView ---------------------------
(***************************************************************************)
(* The DELEGATORS view (views/delegators.js): a list fetched from whatever *)
(* source answers, kept for two minutes, merged with loyalty, sorted,      *)
(* filtered, paged and searched.                                           *)
(*                                                                         *)
(* A mount is a chain of awaits that goes on when its page is gone.  What  *)
(* it writes, it writes to module variables and to the elements it finds   *)
(* by id, whichever mount put them there; only the empty notice goes to    *)
(* the mount's own page.                                                   *)
(***************************************************************************)
EXTENDS Integers, Sequences, FiniteSets, SequencesExt

CONSTANTS
    PoolIds,       \* pools the operator connects to
    Lists,         \* [PoolIds \cup {"demo"} -> the lists of delegators there may be]
    Tenure,        \* [stake address -> epochs, 0 while there are none]
    Keeps,         \* [stake address -> percent of a score that defection and withdrawals leave]
    Place,         \* [stake address -> its place in a list]
    PerPage,       \* LOY_MAX_ROWS
    DustFloor,     \* LOY_DUST_FLOOR
    HalfWeight,    \* LOY_K
    MaxMounts,     \* bound on mounts
    MaxTurns       \* bound on mode flips and reconnections

Worlds == PoolIds \cup {"demo"}
Stakes == DOMAIN Tenure
NoRows == {}
NoScore == -1

VARIABLES
    mode, pool,    \* the router's mode and the pool connected to
    offers,        \* what the live sources provide: nothing, the list, loyalty as well
    cache,         \* _duListCache with _duCacheMode, and whether it is two minutes old
    loyal,         \* the stored loyalty rows of the epoch, by pool
    rows,          \* _duRows
    view,          \* _duView
    sort, page, hit,   \* _duSort, _duPage, _duHitStake
    drawn,         \* the drawPage closure: the mount whose page it fills and its view
    screen,        \* the page: its mount (0 for another tab), dust box, table
    mounts,        \* where each mount stands
    told,          \* what the search says
    turns          \* mode flips and reconnections so far

vars == <<mode, pool, offers, cache, loyal, rows, view, sort, page, hit, drawn, screen,
          mounts, told, turns>>
table == <<rows, view, sort, page, drawn, screen>>

Idle == [pc |-> "idle", asked |-> "demo", list |-> NoRows, forced |-> FALSE]
Blank == [mount |-> 0, dust |-> TRUE, shows |-> "nothing", painted |-> <<>>]
Nobody == "nobody"
Silence == [says |-> "nothing", stake |-> Nobody]

Init ==
    /\ mode \in {"demo", "live"} /\ pool \in PoolIds
    /\ offers \in {"nothing", "list", "loyalty"}
    /\ cache = [list |-> NoRows, mode |-> "none", fresh |-> FALSE]
    /\ loyal = [p \in PoolIds |-> {}]
    /\ rows = NoRows /\ view = <<>> /\ sort = "loyalty" /\ page = 0 /\ hit = Nobody
    /\ drawn = [on |-> 0, view |-> <<>>]
    /\ screen = Blank
    /\ mounts = [m \in 1..MaxMounts |-> Idle]
    /\ told = Silence /\ turns = 0

World == IF mode = "demo" THEN "demo" ELSE pool

\* registry.can, behind the mode gate.
CanList == mode = "demo" \/ offers # "nothing"
CanLoyalty == mode = "demo" \/ offers = "loyalty"

-----------------------------------------------------------------------------
(* What the table shows.                                                   *)

\* scoreLoyalty, in thousandths: tenure against the longest, by stake-weight and penalties.
Score(s, longest, ada) ==
    (10 * Tenure[s] * ada * Keeps[s]) \div (longest * (ada + HalfWeight))

\* A list merged with the loyalty rows of some of its delegators.
Merged(list, scored) ==
    LET longest == Max({Tenure[s] : s \in scored} \cup {1})
    IN  {[stake |-> r.stake, ada |-> r.ada, pending |-> r.pending,
          loyalty |-> IF r.stake \in scored THEN Score(r.stake, longest, r.ada) ELSE NoScore] :
         r \in list}

\* The comparison of renderUnified; JavaScript's sort keeps the order of equals.
Before(by, r, s) ==
    LET byStake == r.ada > s.ada \/ (r.ada = s.ada /\ Place[r.stake] < Place[s.stake])
    IN  IF by = "stake" THEN byStake
        ELSE r.loyalty > s.loyalty \/ (r.loyalty = s.loyalty /\ byStake)

Sorted(all, by, dust) ==
    SetToSortSeq({r \in all : dust => r.ada >= DustFloor}, LAMBDA r, s : Before(by, r, s))

Pages(v) == Max({1, (Len(v) + PerPage - 1) \div PerPage})

Slice(v, p) == SubSeq(v, p * PerPage + 1, Min({Len(v), (p + 1) * PerPage}))

\* The table of the page on the screen, if there is one.
HasTable == screen.mount # 0 /\ screen.shows # "empty"

\* Mutant: the page number is kept whatever the view has become.
PageKept(p, v) == p

\* A page past the end goes back to the first.
PageWithin(p, v) == IF p >= Pages(v) THEN 0 ELSE p

\* renderUnified: without a table nothing is done, and the view stays as it was.
Render(all, by, p, scr) ==
    /\ rows' = all /\ sort' = by
    /\ IF ~HasTable
       THEN /\ page' = p /\ screen' = scr
            /\ UNCHANGED <<view, drawn>>
       ELSE LET v == Sorted(all, by, scr.dust)
            IN  /\ view' = v
                /\ page' = PageWithin(p, v)
                /\ drawn' = [on |-> scr.mount, view |-> v]
                /\ screen' = [scr EXCEPT !.shows = "rows", !.painted = Slice(v, PageWithin(p, v))]

\* drawPage: it fills the page of the mount that made it, on the screen or not.
Draw(p) ==
    /\ page' = p
    /\ screen' = IF drawn.on = screen.mount /\ screen.shows = "rows"
                 THEN [screen EXCEPT !.painted = Slice(drawn.view, p)] ELSE screen

-----------------------------------------------------------------------------
(* Mounting.                                                               *)

Fresh == cache.fresh /\ cache.mode = mode

\* Mount m starts in a world: mountDelegators up to its first await.
Start(m, w, kept) ==
    /\ mounts' = [mounts EXCEPT ![m] =
          [Idle EXCEPT !.pc = IF kept THEN "history" ELSE "sources",
                       !.list = IF kept THEN cache.list ELSE NoRows, !.asked = w]]
    /\ screen' = [Blank EXCEPT !.mount = m, !.shows = "loading"]

Free == {m \in 1..MaxMounts : mounts[m].pc = "idle"}

Open ==
    /\ Free # {}
    /\ LET m == Min(Free)
       IN  IF Fresh /\ ~CanList
           THEN /\ mounts' = [mounts EXCEPT ![m].pc = "over"]
                /\ screen' = [Blank EXCEPT !.mount = m, !.shows = "empty"]
           ELSE Start(m, World, Fresh)
    /\ told' = Silence
    /\ UNCHANGED <<mode, pool, offers, cache, loyal, rows, view, sort, page, hit, drawn, turns>>

\* renderEmpty on the mount's own page.
Emptied(m) ==
    screen' = IF screen.mount = m THEN [screen EXCEPT !.shows = "empty", !.painted = <<>>] ELSE screen

\* ensureBlockfrost is over: ask for the list, if anything can answer.
AskList(m) ==
    /\ mounts[m].pc = "sources"
    /\ IF CanList
       THEN /\ mounts' = [mounts EXCEPT ![m].pc = "list", ![m].asked = World]
            /\ UNCHANGED screen
       ELSE /\ mounts' = [mounts EXCEPT ![m].pc = "over"]
            /\ Emptied(m)
    /\ UNCHANGED <<mode, pool, offers, cache, loyal, rows, view, sort, page, hit, drawn, told, turns>>

\* The list arrives and is kept, stamped with the mode of now.
Listed(m) ==
    /\ mounts[m].pc = "list"
    /\ \E l \in Lists[mounts[m].asked] :
        /\ cache' = [list |-> l, mode |-> mode, fresh |-> TRUE]
        /\ mounts' = [mounts EXCEPT ![m].pc = "history", ![m].list = l]
    /\ UNCHANGED <<mode, pool, offers, loyal, rows, view, sort, page, hit, drawn, screen, told, turns>>

ListFails(m) ==
    /\ mounts[m].pc = "list"
    /\ mounts' = [mounts EXCEPT ![m].pc = "over"]
    /\ Emptied(m)
    /\ UNCHANGED <<mode, pool, offers, cache, loyal, rows, view, sort, page, hit, drawn, told, turns>>

\* History is there.  Without loyalty the view sorts by stake, and draws what an earlier
\* mount left in _duRows.  buildUnified asks for loyalty.
Ready(m) ==
    /\ mounts[m].pc = "history"
    /\ IF CanLoyalty THEN UNCHANGED table ELSE Render(rows, "stake", 0, screen)
    /\ mounts' = [mounts EXCEPT ![m].pc = "build", ![m].asked = IF CanLoyalty THEN World ELSE "nowhere"]
    /\ UNCHANGED <<mode, pool, offers, cache, loyal, hit, told, turns>>

Active(list) == {r.stake : r \in {x \in list : ~x.pending}}

\* fetchLoyaltyData: stored rows of this epoch unless there are fewer than delegators,
\* or the source's, which are stored, under the pool connected by then.  Demo has its own.
Scored(m, stored, got) ==
    LET w == mounts[m].asked
        have == IF w = "demo" THEN Active(UNION Lists["demo"]) ELSE stored[w]
        enough == ~mounts[m].forced /\ Cardinality(have) >= Cardinality(mounts[m].list)
    IN  IF w = "nowhere" THEN {} ELSE IF enough THEN have ELSE got

\* Loyalty is there, or is not: the rows are merged, and the table is drawn.
Built(m) ==
    /\ mounts[m].pc = "build"
    /\ LET w == mounts[m].asked
       IN  \E got \in IF w = "nowhere" THEN {{}} ELSE {{}} \cup {Active(l) : l \in Lists[w]} :
            /\ Render(Merged(mounts[m].list, Scored(m, loyal, got)), sort, page, screen)
            /\ loyal' = IF w \in PoolIds /\ mode = "live" /\ Scored(m, loyal, got) = got /\ got # {}
                        THEN [loyal EXCEPT ![pool] = got] ELSE loyal
    /\ mounts' = [mounts EXCEPT ![m].pc = "done", ![m].forced = FALSE]
    /\ UNCHANGED <<mode, pool, offers, cache, hit, told, turns>>

-----------------------------------------------------------------------------
(* Using the view.  The handlers are there once the mount on the screen is  *)
(* ready.                                                                  *)

Handled == HasTable /\ mounts[screen.mount].pc \in {"build", "done"}

ToggleDust ==
    /\ Handled
    /\ Render(rows, sort, 0, [screen EXCEPT !.dust = ~@])
    /\ UNCHANGED <<mode, pool, offers, cache, loyal, hit, mounts, told, turns>>

SetSort(by) ==
    /\ Handled /\ (by = "loyalty" => CanLoyalty)
    /\ Render(rows, by, 0, screen)
    /\ UNCHANGED <<mode, pool, offers, cache, loyal, hit, mounts, told, turns>>

\* Prev and Next, on the bar below the rows, with the pages of their drawing.
Turn(step) ==
    /\ Handled /\ screen.shows = "rows" /\ drawn.on = screen.mount
    /\ page + step \in 0..Pages(drawn.view) - 1
    /\ Draw(page + step)
    /\ UNCHANGED <<mode, pool, offers, cache, loyal, rows, view, sort, hit, drawn, mounts, told, turns>>

\* Mutant: the page is counted from a rank that is one too low.
PageOfRank(i) == Max({0, i - 2}) \div PerPage

PageOf(i) == (i - 1) \div PerPage

\* jumpToStake, with the whole address.
Search(s) ==
    /\ Handled
    /\ LET at == {i \in DOMAIN view : view[i].stake = s}
       IN  IF at = {}
           THEN /\ told' = [says |-> IF \E r \in rows : r.stake = s THEN "hidden" ELSE "absent", stake |-> s]
                /\ UNCHANGED <<page, screen, hit>>
           ELSE /\ told' = [says |-> "found", stake |-> s]
                /\ hit' = s
                /\ Draw(PageOf(Min(at)))
    /\ UNCHANGED <<mode, pool, offers, cache, loyal, rows, view, sort, drawn, mounts, turns>>

ClearSearch ==
    /\ Handled /\ told # Silence
    /\ told' = Silence /\ hit' = Nobody
    /\ UNCHANGED <<mode, pool, offers, cache, loyal, rows, view, sort, page, drawn, screen, mounts, turns>>

\* The refresh button: buildUnified(true) over the mount's own list.
Recompute ==
    /\ Handled /\ CanLoyalty /\ mounts[screen.mount].pc = "done"
    /\ mounts' = [mounts EXCEPT ![screen.mount].pc = "build", ![screen.mount].forced = TRUE,
                                ![screen.mount].asked = World]
    /\ UNCHANGED <<mode, pool, offers, cache, loyal, rows, view, sort, page, hit, drawn, screen, told, turns>>

-----------------------------------------------------------------------------
(* Around the view.                                                        *)

Leave ==
    /\ screen.mount # 0
    /\ screen' = Blank /\ told' = Silence
    /\ UNCHANGED <<mode, pool, offers, cache, loyal, rows, view, sort, page, hit, drawn, mounts, turns>>

\* pt:mode-changed: the caches are dropped and the tab is mounted again.
Flip ==
    /\ turns < MaxTurns /\ turns' = turns + 1
    /\ mode' = IF mode = "demo" THEN "live" ELSE "demo"
    /\ cache' = [list |-> NoRows, mode |-> "none", fresh |-> FALSE]
    /\ rows' = NoRows /\ view' = <<>> /\ hit' = Nobody /\ page' = 0
    /\ IF screen.mount # 0
       THEN Free # {} /\ Start(Min(Free), IF mode = "demo" THEN pool ELSE "demo", FALSE)
       ELSE UNCHANGED <<mounts, screen>>
    /\ told' = Silence
    /\ UNCHANGED <<pool, offers, loyal, sort, drawn>>

\* Disconnect and connect to another pool, on the NOW tab; nothing of this view is reset.
Reconnect ==
    /\ turns < MaxTurns /\ turns' = turns + 1
    /\ mode = "live"
    /\ \E p \in PoolIds \ {pool} : pool' = p
    /\ screen' = Blank /\ told' = Silence
    /\ UNCHANGED <<mode, offers, cache, loyal, rows, view, sort, page, hit, drawn, mounts>>

\* Two minutes pass.
Age ==
    /\ cache.fresh
    /\ cache' = [cache EXCEPT !.fresh = FALSE]
    /\ UNCHANGED <<mode, pool, offers, loyal, rows, view, sort, page, hit, drawn, screen, mounts, told, turns>>

Step(m) == AskList(m) \/ Listed(m) \/ ListFails(m) \/ Ready(m) \/ Built(m)

Next ==
    \/ Open \/ Leave \/ Flip \/ Reconnect \/ Age
    \/ \E m \in 1..MaxMounts : Step(m)
    \/ ToggleDust \/ (\E by \in {"loyalty", "stake"} : SetSort(by))
    \/ (\E step \in {-1, 1} : Turn(step))
    \/ (\E s \in Stakes : Search(s)) \/ ClearSearch \/ Recompute

Spec == Init /\ [][Next]_vars

-----------------------------------------------------------------------------
TypeOK ==
    /\ mode \in {"live", "demo"} /\ pool \in PoolIds
    /\ \A r \in rows : r.stake \in Stakes /\ r.loyalty \in -1..1000
    /\ page \in Nat /\ sort \in {"loyalty", "stake"}
    /\ screen.mount \in 0..MaxMounts /\ screen.shows \in {"nothing", "loading", "empty", "rows"}
    /\ hit \in Stakes \cup {Nobody}

Shown == {screen.painted[i].stake : i \in DOMAIN screen.painted}

\* While the table is drawn, the search tells the truth about it: an address it finds is
\* on the page it turns to, and one it calls hidden or absent is not in any of its pages.
\* jumpToStake, renderUnified and drawPage share the view, the page and the closure, and
\* other mounts move them.
TruthIfTold ==
    (told' # told /\ screen'.shows = "rows" /\ drawn'.on = screen'.mount) =>
        CASE told'.says = "found" -> told'.stake \in {screen'.painted[i].stake : i \in DOMAIN screen'.painted}
          [] told'.says \in {"hidden", "absent"} -> \A i \in DOMAIN drawn'.view : drawn'.view[i].stake # told'.stake
          [] OTHER -> TRUE
SearchLeadsToTheRow == [][TruthIfTold]_vars

\* A drawn table is never an empty page of a list that has rows, whatever the filter, the
\* sort, a search and another mount did to the page number.
PageIsNotPastTheEnd ==
    (screen.shows = "rows" /\ drawn.on = screen.mount /\ drawn.view # <<>>) => screen.painted # <<>>

\* In demo mode the table and the cache hold the demo world's delegators only ("a LIVE
\* cache must never paint in DEMO").
LiveNeverInDemo ==
    mode = "demo" =>
        /\ \A s \in Shown : \E l \in Lists["demo"] : s \in {r.stake : r \in l}
        /\ cache.mode = "demo" => cache.list \in Lists["demo"]
=============================================================================
