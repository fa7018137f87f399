--------------------------- MODULE MCGithubBatch ---------------------------
(* Small instances of GithubBatch: two overlapping invocations on one batch *)
(* that is cancelled, or one of which fails; one invocation on a batch that *)
(* is replayed into another; one that may fail on a batch that may be      *)
(* cancelled, one of whose items is on a lane the worker does not serve.   *)
EXTENDS GithubBatch, TLC

CONSTANTS i1, i2, i3, i4, w1, w2, b1, b2

VARIABLE instance

MCKinds == [i \in Items |-> IF i = i1 THEN "read" ELSE "update"]
MCLanes == [i \in Items |-> IF i = i4 THEN "github_native" ELSE "backend_ops"]

Overlap ==
    \/ \E S \in SUBSET (Items \cap {i1, i2}) : CreateBatch(b1, S)
    \/ Cancel(b1)

\* Of two invocations alike, the one to fail is w1.
Faulty ==
    \/ \E S \in SUBSET (Items \cap {i1, i2}) : CreateBatch(b1, S)
    \/ Failure(w1)

Replay ==
    \E b \in Batches :
      \/ \E S \in SUBSET (Items \cap {i2, i3}) :
           CreateBatch(b, S) \/ \E src \in Batches \ {b} : ReplayFailures(src, b, S)
      \/ Cancel(b)

Mixed ==
    \/ \E S \in SUBSET (Items \cap {i2, i4}) : CreateBatch(b1, S)
    \/ Cancel(b1)
    \/ Failure(w1)

MCInit == Init /\ instance \in {"overlap", "faulty", "replay", "mixed"}
MCNext ==
    /\ \/ instance = "overlap" /\ Overlap
       \/ instance = "faulty" /\ Faulty
       \/ instance = "replay" /\ Replay
       \/ instance = "mixed" /\ Mixed
       \/ \E w \in IF instance \in {"overlap", "faulty"} THEN Invocations ELSE {w1} : Invoke(w) \/ Step(w)
       \/ DispatchLeaseLapses
       \/ \E i \in Items : ItemLeaseLapses(i)
    /\ instance' = instance

\* The fairness of FairSpec: what an instance leaves out is never enabled for
\* good within it.
MCFairSpec == MCInit /\ [][MCNext]_<<vars, instance>> /\ Fairness
=============================================================================
