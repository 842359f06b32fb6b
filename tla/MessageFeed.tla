----------------------------- MODULE MessageFeed -----------------------------
(* The dashboard's feed of on-chain messages: getMessageFeed of             *)
(* src/src/data/dbsync-query.js and the mf functions of                     *)
(* src/src/views/now2.js. A message is its tx_metadata id. A seed fetches   *)
(* the newest, polls page on from the watermark, and a timer drips one      *)
(* message at a time from the buffer on to the screen.                      *)
(*                                                                          *)
(* Starting the feed and every poll are asynchronous and nothing stops them:*)
(* a poll that takes longer than the interval meets the next, and one that  *)
(* was under way when the view or the mode changed answers all the same. A  *)
(* query reads the database when it answers.                                *)
EXTENDS Integers, Sequences, SequencesExt

CONSTANTS
    Hidden,      \* messages the filters hide
    MaxTop,      \* bound: the newest message
    SeedLimit,   \* messages a seed asks for (40)
    PageLen,     \* messages in a page (200)
    MaxPages,    \* pages of one poll (25)
    BufferMax,   \* messages kept in the buffer (2000)
    Guard,       \* hidden messages a drip skips (60)
    OnScreen,    \* messages kept on the screen (50)
    Tasks,       \* bound: starts and polls under way at once
    Disturb,     \* bound: what may happen, out of "leave", "remount", "flip", "pause", "fail"
    MaxDisturb   \* bound: how often

VARIABLES
    top,       \* the newest message in db-sync
    mode,      \* "live" or "demo"
    mounted,   \* the dashboard is the mounted view
    demo,      \* _mfDemo
    since,     \* _mfSinceId
    buffer,    \* _mfBuffer
    screen,    \* #mf-body, oldest first
    paused,    \* _mfPaused
    polling,   \* whether each interval that runs is the one _mfPollTimer names
    dripping,  \* _mfDripTimer
    task,      \* starts and polls under way
    late,      \* history: one was under way when another, or a restart, began
    left       \* disturbances left

feed == <<since, buffer, screen, paused>>
timers == <<polling, dripping>>
vars == <<top, mode, mounted, demo, feed, timers, task, late, left>>

Messages == 1..MaxTop
Sample == 0                        \* one of MF_DEMO_MSGS
Off == [step |-> "off", page |-> 0]
Busy == \E t \in Tasks : task[t] # Off

Init ==
    /\ top \in 0..1 /\ mode = "live" /\ mounted = FALSE /\ demo = FALSE
    /\ since = 0 /\ buffer = <<>> /\ screen = <<>> /\ paused = FALSE
    /\ polling = <<>> /\ dripping = FALSE
    /\ task = [t \in Tasks |-> Off]
    /\ late = FALSE /\ left = MaxDisturb

Disturbed(kind) == kind \in Disturb /\ left > 0 /\ left' = left - 1

-----------------------------------------------------------------------------
(* Starting and stopping.                                                  *)

Stopped == SelectSeq(polling, LAMBDA named : ~named)

\* mfStart in one of the two modes: everything is cleared; live waits for a seed, demo
\* drips at once.
StartIn(m) ==
    /\ since' = 0 /\ buffer' = <<>> /\ screen' = <<>> /\ paused' = FALSE
    /\ demo' = (m = "demo") /\ polling' = Stopped
    /\ late' = (late \/ Busy)
    /\ IF m = "demo"
       THEN dripping' = TRUE /\ UNCHANGED task
       ELSE /\ dripping' = FALSE
            /\ \E t \in Tasks : task[t] = Off /\ task' = [task EXCEPT ![t].step = "start"]

\* mountNow2. A click on the tab of the mounted view mounts it again.
Mount ==
    /\ \/ ~mounted /\ UNCHANGED left
       \/ mounted /\ Disturbed("remount")
    /\ mounted' = TRUE
    /\ StartIn(mode)
    /\ UNCHANGED <<top, mode>>

\* unmountNow2. What is under way goes on.
Leave ==
    /\ mounted /\ Disturbed("leave")
    /\ mounted' = FALSE /\ screen' = <<>>
    /\ polling' = Stopped /\ dripping' = FALSE
    /\ late' = (late \/ Busy)
    /\ UNCHANGED <<top, mode, demo, since, buffer, paused, task>>

\* pt:mode-changed: the buffer is emptied and the mounted view is mounted anew.
Flip ==
    /\ IF mode = "live" THEN Disturbed("flip") ELSE UNCHANGED left
    /\ mode' = IF mode = "live" THEN "demo" ELSE "live"
    /\ IF mounted THEN StartIn(mode')
       ELSE /\ buffer' = <<>> /\ since' = 0 /\ late' = (late \/ Busy)
            /\ UNCHANGED <<demo, screen, paused, timers, task>>
    /\ UNCHANGED <<top, mounted>>

Pause ==
    /\ mounted /\ (paused \/ mode = "live")
    /\ IF paused THEN UNCHANGED left ELSE Disturbed("pause")
    /\ paused' = ~paused
    /\ UNCHANGED <<top, mode, mounted, demo, since, buffer, screen, timers, task, late>>

-----------------------------------------------------------------------------
(* Asking db-sync.                                                         *)

Newer(id) == [i \in 1..(top - id) |-> id + i]

\* Mutant: a seed is pushed as the query returns it, newest first.
SeedAsReturned == Reverse(Newer(IF top > SeedLimit THEN top - SeedLimit ELSE 0))

\* The newest messages, oldest first for the drip.
Seed == Newer(IF top > SeedLimit THEN top - SeedLimit ELSE 0)

\* A page from the watermark on, in ascending order.
Page == SubSeq(Newer(since), 1, IF top - since < PageLen THEN top - since ELSE PageLen)

\* Mutant: the watermark goes to the newest message, not to the page's last.
WatermarkJumps(rows) == top

Watermark(rows) == IF Last(rows) > since THEN Last(rows) ELSE since

End(t) == task' = [task EXCEPT ![t] = Off]

TakeSeed ==
    IF Seed = <<>> THEN UNCHANGED <<since, buffer>>
    ELSE buffer' = buffer \o Seed /\ since' = top

\* The seed of mfStart answers, or fails; either way the timers are started.
StartAnswers(t) ==
    /\ task[t].step = "start"
    /\ \/ TakeSeed /\ UNCHANGED left
       \/ Disturbed("fail") /\ UNCHANGED <<since, buffer>>
    /\ polling' = Append([i \in DOMAIN polling |-> FALSE], TRUE) /\ dripping' = TRUE
    /\ End(t)
    /\ UNCHANGED <<top, mode, mounted, demo, screen, paused, late>>

\* An interval fires, whether the poll before has ended or not. Without a watermark the
\* poll is a seed. In demo the query is refused (the invoke shim).
Poll(t) ==
    /\ polling # <<>> /\ mode = "live" /\ task[t] = Off
    /\ \A u \in Tasks : task[u] = Off => t <= u
    /\ task' = [task EXCEPT ![t] = [step |-> IF since = 0 THEN "seed" ELSE "page", page |-> 1]]
    /\ late' = (late \/ Busy)
    /\ UNCHANGED <<top, mode, mounted, demo, feed, timers, left>>

SeedAnswers(t) ==
    /\ task[t].step = "seed"
    /\ TakeSeed /\ End(t)
    /\ UNCHANGED <<top, mode, mounted, demo, screen, paused, timers, late, left>>

\* The last page is the first that is not full. With all pages read the buffer is cut. In
\* demo the next page is refused.
PageAnswers(t) ==
    /\ task[t].step = "page"
    /\ LET all == buffer \o Page
           more == Len(Page) = PageLen /\ task[t].page < MaxPages
       IN  /\ since' = IF Page = <<>> THEN since ELSE Watermark(Page)
           /\ buffer' = IF more \/ Len(all) <= BufferMax THEN all
                        ELSE SubSeq(all, Len(all) - BufferMax + 1, Len(all))
           /\ IF more /\ mode = "live" THEN task' = [task EXCEPT ![t].page = @ + 1] ELSE End(t)
    /\ UNCHANGED <<top, mode, mounted, demo, screen, paused, timers, late, left>>

PollFails(t) ==
    /\ task[t].step \in {"seed", "page"} /\ Disturbed("fail")
    /\ End(t)
    /\ UNCHANGED <<top, mode, mounted, demo, feed, timers, late>>

-----------------------------------------------------------------------------
(* The drip.                                                               *)

Drips == dripping /\ ~paused

\* The first message within reach that the filters let through, 0 without one.
FirstVisible == SelectInSeq(buffer, LAMBDA m : m \notin Hidden)

Show(m) ==
    IF ~mounted THEN UNCHANGED screen
    ELSE screen' = IF Len(screen) < OnScreen THEN Append(screen, m) ELSE Append(Tail(screen), m)

\* Hidden messages are taken off the buffer; past the guard one more goes with them, shown
\* or not. An empty demo feed fills up with samples.
Drip ==
    /\ Drips /\ (buffer # <<>> \/ demo)
    /\ IF FirstVisible \in 1..Guard
       THEN /\ Show(buffer[FirstVisible])
            /\ buffer' = SubSeq(buffer, FirstVisible + 1, Len(buffer))
       ELSE IF Len(buffer) <= Guard /\ demo
       THEN Show(Sample) /\ buffer' = <<>>
       ELSE /\ buffer' = IF Len(buffer) <= Guard + 1 THEN <<>>
                         ELSE SubSeq(buffer, Guard + 2, Len(buffer))
            /\ UNCHANGED screen
    /\ UNCHANGED <<top, mode, mounted, demo, since, paused, timers, task, late, left>>

\* A transaction carries a message.
Message ==
    /\ top < MaxTop /\ top' = top + 1
    /\ UNCHANGED <<mode, mounted, demo, feed, timers, task, late, left>>

TaskStep(t) == StartAnswers(t) \/ Poll(t) \/ SeedAnswers(t) \/ PageAnswers(t) \/ PollFails(t)

Next ==
    \/ Mount \/ Leave \/ Flip \/ Pause \/ Drip \/ Message
    \/ \E t \in Tasks : TaskStep(t)

Spec == Init /\ [][Next]_vars

\* The timers fire and what was asked is answered.
Fairness ==
    /\ WF_vars(Drip)
    /\ WF_vars(\E t \in Tasks : Poll(t))
    /\ \A t \in Tasks : WF_vars(StartAnswers(t) \/ SeedAnswers(t) \/ PageAnswers(t))

FairSpec == Spec /\ Fairness

-----------------------------------------------------------------------------
(* Properties.                                                             *)

TypeOK ==
    /\ top \in 0..MaxTop /\ mode \in {"live", "demo"} /\ mounted \in BOOLEAN
    /\ demo \in BOOLEAN /\ since \in 0..MaxTop /\ paused \in BOOLEAN
    /\ \A i \in DOMAIN buffer : buffer[i] \in Messages
    /\ \A i \in DOMAIN screen : screen[i] \in Messages \cup {Sample}
    /\ Len(screen) <= OnScreen /\ (~late => Len(buffer) <= BufferMax + MaxPages * PageLen)
    /\ \A i \in DOMAIN polling : polling[i] \in BOOLEAN
    /\ dripping \in BOOLEAN /\ late \in BOOLEAN /\ left \in 0..MaxDisturb
    /\ \A t \in Tasks : task[t].step \in {"off", "start", "seed", "page"}

\* What reached the screen and is still on it, and what waits to.
Delivered == screen \o buffer
Ascending(s) ==
    \A i, j \in DOMAIN s : i < j /\ Sample \notin {s[i], s[j]} => s[i] < s[j]

\* "Watermarked by tx_metadata.id so each message surfaces exactly once"
\* (dbsync-query.js): through seeds, pages, failures, a cut buffer and restarts, messages
\* reach the screen in order and none twice, as long as no two calls overlap.
OnceAndInOrder == ~late => Ascending(Delivered)

\* The same for all polls.
SurfacesOnce == Ascending(Delivered)

\* Whatever overlapped before: on a dashboard that stays open in live mode, the newest
\* message that is not hidden gets on to the screen.
Attended == mounted /\ mode = "live" /\ ~paused
NewestShown == top = 0 \/ top \in Hidden \/ top \in ToSet(screen)
NewestSurfaces == <>[]Attended => []<>NewestShown
=============================================================================
