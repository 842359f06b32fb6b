---------------------------- MODULE MCFeedScenes ----------------------------
(* Four instances of DelegationFeed in one run; the initial state picks the *)
(* scene and no step changes it.  In "once", on DelegationFeed's own        *)
(* variables and with the constants of the configuration, polls follow one  *)
(* another through all that may go wrong.  The other scenes share a second  *)
(* copy of the variables.  In "lossy" writes, queries and db-sync fail, a   *)
(* reset lets a second poll in and a scan needs several windows.  In "seeds" *)
(* the watermark is seeded again: cache reads fail, the cache is cleared,   *)
(* the source changes, demo comes in mid-poll.  In "learn" db-sync answers  *)
(* and nothing fails.                                                       *)
EXTENDS DelegationFeed

CONSTANTS s1, s2, p1, p2

VARIABLES
    scene,
    v1, v2, v3, v4, v5, v6, v7, v8, v9, v10, v11, v12, v13, v14, v15, v16, v17

copy == <<v1, v2, v3, v4, v5, v6, v7, v8, v9, v10, v11, v12, v13, v14, v15, v16, v17>>
all == <<scene, vars, copy>>

Lossy == INSTANCE DelegationFeed WITH
    Polls <- {p1, p2}, MaxCerts <- 2, Limit <- 1, Keep <- 5, MaxDisturb <- 1,
    Disturb <- {"queryFail", "storeFail", "dbDown", "clearFeed", "reset", "idleDemo"},
    certs <- v1, member <- v2, live <- v3, source <- v4, reachable <- v5,
    baselined <- v6, snapshot <- v7, watermark <- v8, lastSource <- v9, feed <- v10,
    mode <- v11, inFlight <- v12, job <- v13, dispatched <- v14, told <- v15,
    seeded <- v16, disturbed <- v17

Seeds == INSTANCE DelegationFeed WITH
    Polls <- {p1, p2}, MaxCerts <- 2, Limit <- 1, Keep <- 5, MaxDisturb <- 1,
    Disturb <- {"readFail", "clearCache", "switch", "reset", "demo"},
    certs <- v1, member <- v2, live <- v3, source <- v4, reachable <- v5,
    baselined <- v6, snapshot <- v7, watermark <- v8, lastSource <- v9, feed <- v10,
    mode <- v11, inFlight <- v12, job <- v13, dispatched <- v14, told <- v15,
    seeded <- v16, disturbed <- v17

Learn == INSTANCE DelegationFeed WITH
    Movers <- {s1, s2}, Keep <- 5, MaxDisturb <- 1, Disturb <- {"deregister"},
    certs <- v1, member <- v2, live <- v3, source <- v4, reachable <- v5,
    baselined <- v6, snapshot <- v7, watermark <- v8, lastSource <- v9, feed <- v10,
    mode <- v11, inFlight <- v12, job <- v13, dispatched <- v14, told <- v15,
    seeded <- v16, disturbed <- v17

Unused ==
    /\ v1 = 0 /\ v2 = 0 /\ v3 = 0 /\ v4 = 0 /\ v5 = 0 /\ v6 = 0 /\ v7 = 0 /\ v8 = 0
    /\ v9 = 0 /\ v10 = 0 /\ v11 = 0 /\ v12 = 0 /\ v13 = 0 /\ v14 = 0 /\ v15 = 0
    /\ v16 = 0 /\ v17 = 0

SceneInit ==
    \/ scene = "once" /\ Init /\ Unused
    \/ /\ Init /\ reachable
       /\ \/ scene = "lossy" /\ Lossy!Init
          \/ scene = "seeds" /\ Seeds!Init
          \/ scene = "learn" /\ Learn!Init

SceneNext ==
    \/ scene = "once" /\ Next /\ UNCHANGED <<scene, copy>>
    \/ scene = "lossy" /\ Lossy!Next /\ UNCHANGED <<scene, vars>>
    \/ scene = "seeds" /\ Seeds!Next /\ UNCHANGED <<scene, vars>>
    \/ scene = "learn" /\ Learn!Next /\ UNCHANGED <<scene, vars>>

SceneSpec ==
    /\ SceneInit /\ [][SceneNext]_all
    /\ WF_all(scene = "learn" /\ (\E p \in Polls : Learn!PollStep(p)) /\ UNCHANGED <<scene, vars>>)
    /\ WF_all(scene = "learn" /\ Learn!SourceCatchesUp /\ UNCHANGED <<scene, vars>>)

\* Only a seed passes a certificate nobody was shown (NoCertSkipped).
OnlySeedsSkip ==
    /\ scene = "lossy" => Lossy!NoCertSkipped
    /\ scene = "seeds" => Seeds!NoCertSkipped

\* With db-sync reachable, an account is never reported joined twice, or left
\* twice, in a row (NoDoubleReport).
NeverTwice == [][scene = "learn" => ~Learn!DoubleReport]_all

\* With db-sync reachable and a chain that comes to rest, the operator's picture of
\* every account becomes the chain's (OperatorLearns).
LearnsInTheEnd == <>[](scene = "learn" => Learn!Informed)
=============================================================================
