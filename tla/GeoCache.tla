------------------------------ MODULE GeoCache ------------------------------
(* Where peers are (src/src/data/geo-query.js): addresses looked up in         *)
(* batches through the node's host, kept in a map whose order is that of the   *)
(* last use, trimmed when written, and written at most once a minute and when  *)
(* the window is hidden or closed. The answers about the hosts themselves are  *)
(* in the same map, under keys of their own that trimming spares.              *)
EXTENDS Integers, Sequences, FiniteSets, Functions

CONSTANTS
    None,       \* no timer
    Ips,        \* public addresses of peers
    Local,      \* private ones (isPrivateIp)
    Hosts,      \* the keys of own locations (__self__, __self_<relay>__)
    OwnIp,      \* each host's public address
    Cap,        \* GEO_CACHE_MAX, more than there are hosts
    Batch,      \* addresses in a request (100)
    Delay,      \* GEO_SAVE_DELAY_MS
    MaxCalls,   \* bound: requests under way
    MaxTime,    \* bound: the clock
    Disturb,    \* bound: what may happen, out of "crash", "close", "hide",
                \* "full", "demo", "fail"
    MaxDisturb  \* bound: how often

VARIABLES
    now,     \* the clock
    mode,    \* "live" or "demo"
    cache,   \* the keys of the map, the one used last at the end
    timer,   \* _saveTimer: when it is due
    calls,   \* requests under way: the addresses or the host asked for
    stored,  \* the keys under CACHE_KEY
    full,    \* the storage refuses to write
    order,   \* history: every key cached since the start, by its last use
    since,   \* history: when the oldest key not yet written was learned
    left     \* disturbances left

vars == <<now, mode, cache, timer, calls, stored, full, order, since, left>>

Keys == Ips \cup Hosts \cup {OwnIp[h] : h \in Hosts}
Known(k) == k \in Range(cache)

\* The elements of s that are not in K, in their order.
Without(s, K) ==
    LET rest[i \in 0..Len(s)] ==
          IF i = 0 THEN <<>>
          ELSE IF s[i] \in K THEN rest[i - 1] ELSE Append(rest[i - 1], s[i])
    IN rest[Len(s)]

ToEnd(s, k) == Append(Without(s, {k}), k)

\* Map.set: a key that is there keeps its place.
Put(s, ks) == s \o Without(ks, Range(s))

\* The places of the n addresses used least recently; hosts' are spared.
Oldest(s, n) ==
    {i \in 1..Len(s) :
        s[i] \notin Hosts /\ Cardinality({j \in 1..i : s[j] \notin Hosts}) <= n}

\* trimCache
TrimCache(s) ==
    LET surplus == Len(s) - Cap
    IN IF surplus <= 0 THEN s ELSE Without(s, {s[i] : i \in Oldest(s, surplus)})

-----------------------------------------------------------------------------

Init ==
    /\ now = 0 /\ mode = "live" /\ full = FALSE /\ left = MaxDisturb
    /\ stored \in {<<>>} \cup {s \in [1..Cap -> Ips] : IsInjective(s)}
    /\ cache = stored /\ order = stored
    /\ timer = None /\ calls = {} /\ since = None

\* writeCache: the map is trimmed also when the storage then refuses it.
WriteCache ==
    /\ timer' = None /\ cache' = TrimCache(cache)
    /\ stored' = IF full THEN stored ELSE TrimCache(cache)
    /\ since' = None
    /\ UNCHANGED <<now, mode, calls, full, order, left>>

\* What an answer brought is cached; saveCache starts a timer unless one runs.
Learn(ks) ==
    LET new == Without(ks, Range(cache)) IN
    /\ cache' = Put(cache, ks)
    /\ order' = Without(order, Range(new)) \o new
    /\ timer' = IF timer = None THEN now + Delay ELSE timer
    /\ since' = IF since = None /\ new # <<>> THEN now ELSE since
    /\ UNCHANGED <<now, mode, stored, full, left>>

\* getCachedGeo, while a map is painted: a hit becomes the last one used.
GetCachedGeo(ip) ==
    /\ mode = "live" /\ Known(ip) /\ cache[Len(cache)] # ip
    /\ cache' = ToEnd(cache, ip) /\ order' = ToEnd(order, ip)
    /\ UNCHANGED <<now, mode, timer, calls, stored, full, since, left>>

\* lookupGeoBatch: one request for the first addresses of a list that are
\* neither known nor private.
LookupGeoBatch ==
    \E peers \in SUBSET (Ips \cup Local) :
      LET need == {ip \in peers : ~Known(ip) /\ ip \notin Local} IN
      /\ mode = "live" /\ need # {} /\ Cardinality(calls) < MaxCalls
      /\ \E n \in {Batch, Cardinality(need)} :
           /\ n <= Batch /\ n <= Cardinality(need)
           /\ \E ask \in [1..n -> need] :
                IsInjective(ask) /\ calls' = calls \cup {[kind |-> "batch", ask |-> ask]}
      /\ UNCHANGED <<now, mode, cache, timer, stored, full, order, since, left>>

\* getOwnLocation asks where a host is unless it once was told.
GetOwnLocation(h) ==
    /\ mode = "live" /\ ~Known(h) /\ Cardinality(calls) < MaxCalls
    /\ calls' = calls \cup {[kind |-> "own", ask |-> <<h, OwnIp[h]>>]}
    /\ UNCHANGED <<now, mode, cache, timer, stored, full, order, since, left>>

\* An answer locates some of the addresses, or none; demo does not stop it.
Answer(c) ==
    /\ c \in calls /\ calls' = calls \ {c}
    /\ \E found \in SUBSET Range(c.ask) :
         /\ c.kind = "own" => found = Range(c.ask)
         /\ found # {} /\ Learn(Without(c.ask, Range(c.ask) \ found))

\* No connection, no output, or none that can be read.
NoAnswer(c) ==
    /\ c \in calls /\ calls' = calls \ {c}
    /\ "fail" \in Disturb /\ left > 0 /\ left' = left - 1
    /\ UNCHANGED <<now, mode, cache, timer, stored, full, order, since>>

SaveTimerFires == timer = now /\ WriteCache

\* A tick of the clock; a timer that is due fires first.
Tick ==
    /\ now < MaxTime /\ (timer # None => now < timer)
    /\ now' = now + 1
    /\ UNCHANGED <<mode, cache, timer, calls, stored, full, order, since, left>>

-----------------------------------------------------------------------------
(* What may happen meanwhile.                                                *)

\* visibilitychange and pagehide write what a timer would.
Flushed == IF timer = None \/ full THEN stored ELSE TrimCache(cache)

Hide == "hide" \in Disturb /\ timer # None /\ WriteCache

\* loadCache, on the next start.
LoadCache(saved) ==
    /\ stored' = saved /\ cache' = saved /\ order' = saved
    /\ mode' = "live" /\ timer' = None /\ calls' = {} /\ since' = None
    /\ UNCHANGED <<now, full>>

Disturbance ==
    /\ left > 0 /\ left' = left - 1
    /\ \/ "close" \in Disturb /\ LoadCache(Flushed)
       \/ "crash" \in Disturb /\ LoadCache(stored)
       \/ /\ "full" \in Disturb /\ ~full /\ full' = TRUE
          /\ UNCHANGED <<now, mode, cache, timer, calls, stored, order, since>>
       \/ /\ "demo" \in Disturb /\ mode = "live" /\ mode' = "demo"
          /\ UNCHANGED <<now, cache, timer, calls, stored, full, order, since>>

BackToLive ==
    /\ mode = "demo" /\ mode' = "live"
    /\ UNCHANGED <<now, cache, timer, calls, stored, full, order, since, left>>

Next ==
    \/ LookupGeoBatch \/ SaveTimerFires \/ Tick \/ Hide \/ Disturbance \/ BackToLive
    \/ \E ip \in Ips : GetCachedGeo(ip)
    \/ \E h \in Hosts : GetOwnLocation(h)
    \/ \E c \in calls : Answer(c) \/ NoAnswer(c)

Spec == Init /\ [][Next]_vars

-----------------------------------------------------------------------------
(* Properties.                                                               *)

TypeOK ==
    /\ now \in 0..MaxTime /\ mode \in {"live", "demo"} /\ full \in BOOLEAN
    /\ Range(cache) \subseteq Keys /\ Range(stored) \subseteq Keys /\ Range(order) \subseteq Keys
    /\ IsInjective(cache) /\ IsInjective(order)
    /\ timer \in {None} \cup 0..(MaxTime + Delay) /\ since \in {None} \cup 0..MaxTime
    /\ left \in 0..MaxDisturb

\* "capped at GEO_CACHE_MAX entries, least recently used dropped first"
\* (geo-query.js:9-10): what is stored is within the cap, and an address that is
\* gone was used before every one that stayed, whatever learning, painting,
\* trimming and refused writes came between.
CapDropsOldest ==
    LET gone == {i \in 1..Len(order) : order[i] \notin Range(cache)}
        stayed == {i \in 1..Len(order) : Known(order[i]) /\ order[i] \notin Hosts}
    IN /\ Len(stored) <= Cap
       /\ \A i \in gone, j \in stayed : i < j

\* "Own-location entries are kept" (geo-query.js:43): however full the map
\* gets, no host that was located is looked up again.
HostsStay == \A h \in Hosts : h \in Range(order) => Known(h)

\* "Saves are delayed up to a minute": a crash costs what was learned in the
\* last minute, not more, however often the timer was asked for; what the storage
\* refused is written with the next thing learned.
CrashCostsAMinute == since # None => now - since <= Delay
=============================================================================
