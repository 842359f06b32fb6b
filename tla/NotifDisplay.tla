----------------------------- MODULE NotifDisplay -----------------------------
(* What the operator sees of the delegation events a poll stored: the toasts  *)
(* (src/src/ui/toast.js), the feed view with its unread badge                 *)
(* (src/src/views/notifications.js), and the canvas all views share           *)
(* (mountView in src/src/main.js).                                            *)
(*                                                                            *)
(* Cache commands run one after the other and are answered in the order they  *)
(* were issued. A view is painted when its answer arrives, wherever the       *)
(* operator has gone meanwhile.                                               *)
EXTENDS Integers, Sequences, SequencesExt, FiniteSets, FiniteSetsExt

CONSTANTS
    Batches,           \* how many events a poll may emit at once
    SummaryThreshold,  \* SUMMARY_THRESHOLD
    MaxVisible,        \* MAX_VISIBLE
    MaxStored,         \* bound: events of an execution
    MaxQueries,        \* bound: queries under way at once
    MaxTurns           \* bound: how often the operator does something

Sample == {0}                                      \* demoNotifications
Other == [view |-> "other", shows |-> {}]
Toasts == 1..MaxStored                             \* named by the event that raised them

VARIABLES
    stored,     \* the newest event
    cleared,    \* events up to this one have been cleared
    mode,       \* "live" or "demo"
    mounted,    \* the feed is the mounted view
    unread,     \* the badge
    queries,    \* the commands under way: renders, and the clearing
    canvas,     \* what the canvas shows: [view, shows]
    toasts,     \* the toasts on the screen, newest first: [id, fading]
    burst,      \* history: one was pushed while another was fading
    turns       \* what the operator may still do

display == <<mounted, unread, queries, canvas>>
vars == <<stored, cleared, mode, display, toasts, burst, turns>>

Init ==
    /\ stored = 0 /\ cleared = 0 /\ mode = "live"
    /\ mounted = FALSE /\ unread = 0 /\ queries = <<>> /\ canvas = Other
    /\ toasts = <<>> /\ burst = FALSE /\ turns = MaxTurns

Turn == turns > 0 /\ turns' = turns - 1

-----------------------------------------------------------------------------
(* Toasts.                                                                 *)

Fading(list) == {i \in DOMAIN list : list[i].fading}
Fade(list, i) == [list EXCEPT ![i].fading = TRUE]

\* Mutant: the cap counts the toasts that were there before the push.
TrimBefore(list) ==
    IF Len(list) - 1 > MaxVisible THEN Fade(list, Len(list)) ELSE list

\* Past the cap the last toast is dismissed, if it is not going already.
Trim(list) ==
    IF Len(list) > MaxVisible THEN Fade(list, Len(list)) ELSE list

Push(list, id) == Trim(<<[id |-> id, fading |-> FALSE]>> \o list)

\* onNotifEvents: one toast for each, or a single one for many.
PushAll(k) ==
    LET pushed[i \in 0..k] == IF i = 0 THEN toasts ELSE Push(pushed[i - 1], stored + i)
    IN IF k > SummaryThreshold THEN Push(toasts, stored + k) ELSE pushed[k]

\* A faded toast leaves the screen 220 ms later.
FadeOut ==
    /\ \E i \in Fading(toasts) : toasts' = RemoveAt(toasts, i)
    /\ UNCHANGED <<stored, cleared, mode, display, burst, turns>>

\* "Clear all", or the cross on one.
Dismiss ==
    /\ Turn
    /\ \/ Len(toasts) >= 2 /\ toasts' = [i \in DOMAIN toasts |-> [toasts[i] EXCEPT !.fading = TRUE]]
       \/ \E i \in DOMAIN toasts \ Fading(toasts) : toasts' = Fade(toasts, i)
    /\ UNCHANGED <<stored, cleared, mode, display, burst>>

-----------------------------------------------------------------------------
(* The feed.                                                               *)

\* render: demo is painted from memory, live from the cache.
Render(m) ==
    IF m = "demo" THEN canvas' = [view |-> "feed", shows |-> Sample] /\ UNCHANGED queries
    ELSE Len(queries) < MaxQueries /\ queries' = Append(queries, "render") /\ UNCHANGED canvas

\* A poll has stored its events and announces them: toasts, and the feed or the badge.
Announce(k) ==
    /\ mode = "live" /\ stored + k <= MaxStored
    /\ stored' = stored + k
    /\ toasts' = PushAll(k)
    /\ burst' = (burst \/ k > 1 \/ Fading(toasts) # {})
    /\ IF mounted THEN Render(mode) /\ UNCHANGED unread
       ELSE unread' = unread + k /\ UNCHANGED <<queries, canvas>>
    /\ UNCHANGED <<cleared, mode, mounted, turns>>

\* mountNotifications: the tab, or the body of a toast.
OpenFeed ==
    /\ mounted' = TRUE /\ unread' = 0
    /\ Render(mode)

ClickTab ==
    /\ Turn /\ OpenFeed
    /\ UNCHANGED <<stored, cleared, mode, toasts, burst>>

ClickToast ==
    /\ Turn /\ OpenFeed
    /\ \E i \in DOMAIN toasts \ Fading(toasts) : toasts' = Fade(toasts, i)
    /\ UNCHANGED <<stored, cleared, mode, burst>>

\* Another tab: that view paints itself.
LeaveFeed ==
    /\ mounted /\ Turn
    /\ mounted' = FALSE /\ canvas' = Other
    /\ UNCHANGED <<stored, cleared, mode, unread, queries, toasts, burst>>

\* pt:mode-changed mounts the view anew.
Flip ==
    /\ IF mode = "live" THEN Turn ELSE UNCHANGED turns
    /\ mode' = IF mode = "live" THEN "demo" ELSE "live"
    /\ IF mounted THEN unread' = 0 /\ Render(mode') ELSE UNCHANGED <<unread, queries, canvas>>
    /\ UNCHANGED <<stored, cleared, mounted, toasts, burst>>

\* The answered command issued first: painted whatever is mounted by then.
Painted ==
    /\ queries # <<>> /\ Head(queries) = "render"
    /\ canvas' = [view |-> "feed", shows |-> (cleared + 1)..stored]
    /\ queries' = Tail(queries)
    /\ UNCHANGED <<stored, cleared, mode, mounted, unread, toasts, burst, turns>>

\* "Clear history" on a painted feed, once confirmed. In demo there is nothing to clear.
ClearHistory ==
    /\ canvas.view = "feed" /\ Turn
    /\ IF mode = "demo" THEN unread' = 0 /\ Render(mode)
       ELSE /\ Len(queries) < MaxQueries /\ queries' = Append(queries, "clear")
            /\ UNCHANGED <<unread, canvas>>
    /\ UNCHANGED <<stored, cleared, mode, mounted, toasts, burst>>

\* Mutant: the feed is not painted again after it was cleared.
PaintNotAfter == Tail(queries)

\* After the clearing the feed is painted again, from the cache or, by then, in demo.
PaintAfter == IF mode = "demo" THEN Tail(queries) ELSE Append(Tail(queries), "render")

\* The events are deleted, or that failed; either way the badge is reset.
Cleared ==
    /\ queries # <<>> /\ Head(queries) = "clear"
    /\ cleared' \in {cleared, stored}
    /\ unread' = 0
    /\ queries' = PaintAfter
    /\ canvas' = IF mode = "demo" THEN [view |-> "feed", shows |-> Sample] ELSE canvas
    /\ UNCHANGED <<stored, mode, mounted, toasts, burst, turns>>

Next ==
    \/ FadeOut \/ Dismiss \/ (\E k \in Batches : Announce(k))
    \/ ClickTab \/ ClickToast \/ LeaveFeed \/ Flip \/ Painted \/ ClearHistory \/ Cleared

Spec == Init /\ [][Next]_vars
FairSpec == Spec /\ WF_vars(Painted \/ Cleared) /\ WF_vars(FadeOut)

-----------------------------------------------------------------------------
(* Properties.                                                             *)

TypeOK ==
    /\ stored \in 0..MaxStored /\ cleared \in 0..stored /\ mode \in {"live", "demo"}
    /\ mounted \in BOOLEAN /\ unread \in 0..MaxStored
    /\ \A i \in DOMAIN queries : queries[i] \in {"render", "clear"}
    /\ canvas.view \in {"feed", "other"} /\ canvas.shows \subseteq 0..MaxStored
    /\ \A i \in DOMAIN toasts : toasts[i].id \in Toasts /\ toasts[i].fading \in BOOLEAN
    /\ burst \in BOOLEAN /\ turns \in 0..MaxTurns

Staying == Cardinality(DOMAIN toasts \ Fading(toasts))

\* "A soft cap drops the oldest on-screen toast past MAX_VISIBLE" (toast.js): so it does
\* for toasts that come one at a time.
CapKeptOneByOne == ~burst => Staying <= MaxVisible

\* The same for all batches.
CapKept == Staying <= MaxVisible

\* The feed "refreshes live" (notifications.js): while it stays open in live mode it comes
\* to show all that is stored and not cleared, whichever renders, clearings and mode
\* changes crossed. Nothing retries a render.
Open == mounted /\ mode = "live"
AllShown == canvas = [view |-> "feed", shows |-> (cleared + 1)..stored]
FeedCatchesUp == <>[]Open => <>[]AllShown
=============================================================================
