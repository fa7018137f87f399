-------------------------- MODULE ConnectorRuntime --------------------------
(***************************************************************************)
(* The in-process runtime of control_plane_runtime.py: the worker router   *)
(* (ControlPlane) and the connector calls behind a circuit breaker, whose  *)
(* exhausted attempts become dead letters.  One thread runs all of it; what *)
(* the workers really hold is kept beside what the router believes.        *)
(***************************************************************************)
EXTENDS Integers, FiniteSets, FiniteSetsExt

CONSTANTS
    Workers,      \* worker ids, in their order: 1..n
    Capacity,     \* [Workers -> Nat]
    Skills,       \* [Workers -> capabilities]
    Costs,        \* job costs
    Attempts,     \* attempts of one connector call
    TripAt,       \* failure_threshold
    Jobs,         \* ids of jobs
    MaxLetters    \* bound on dead letters

\* Worker and dispatch refuse capacities and costs below 1; no worker is the 0
\* that stands for none.
ASSUME RouterAssumption ==
    /\ 0 \notin Workers /\ Capacity \in [Workers -> Nat \ {0}]
    /\ Costs \subseteq Nat \ {0} /\ IsFiniteSet(Jobs)

VARIABLES
    worker,       \* the router's rows
    job,          \* where each job really runs, and at what cost
    forgotten,    \* history: workers whose load was reset or released twice
    breaker,      \* the breaker of one connector
    callLeft,     \* attempts the running call has left (0: no call runs)
    deadLetters

runtimeVars == <<worker, job, forgotten, breaker, callLeft, deadLetters>>
routerVars == <<worker, job, forgotten>>
connectorVars == <<breaker, callLeft, deadLetters>>

NoJob == [worker |-> 0, cost |-> 0]
Unregistered == [known |-> FALSE, load |-> 0, healthy |-> FALSE]

RuntimeInit ==
    /\ worker = [w \in Workers |-> Unregistered]
    /\ job = [j \in Jobs |-> NoJob] /\ forgotten = {}
    /\ breaker = [state |-> "closed", failures |-> 0, rested |-> FALSE]
    /\ callLeft = 0 /\ deadLetters = 0

-----------------------------------------------------------------------------
(* The router.                                                             *)
Supports(w, skill) == skill = "any" \/ skill \in Skills[w]
\* Mutants.
\* Mutant: the capacity is looked at before the job's cost is added.
FitsNow(w, cost) == worker[w].load < Capacity[w]

Fits(w, cost) == worker[w].load + cost <= Capacity[w]

HasRoom(cost, skill) ==
    {w \in Workers : worker[w].known /\ worker[w].healthy /\ Supports(w, skill) /\ Fits(w, cost)}

\* Less of its capacity is taken; the id decides between equals.
LoadedLess(v, w) ==
    \/ worker[v].load * Capacity[w] < worker[w].load * Capacity[v]
    \/ worker[v].load * Capacity[w] = worker[w].load * Capacity[v] /\ v <= w

OnWorker(w) == {j \in Jobs : job[j].worker = w}
Held(w) == MapThenSumSet(LAMBDA j : job[j].cost, OnWorker(w))

\* A new row takes the place of the old one: whatever runs, its load is 0.
Register(w) ==
    /\ worker' = [worker EXCEPT ![w] = [known |-> TRUE, load |-> 0, healthy |-> TRUE]]
    /\ forgotten' = IF OnWorker(w) = {} THEN forgotten ELSE forgotten \cup {w}
    /\ worker' # worker
    /\ UNCHANGED <<job, connectorVars>>

Heartbeat(w, healthy) ==
    /\ worker[w].known /\ worker[w].healthy # healthy
    /\ worker' = [worker EXCEPT ![w].healthy = healthy]
    /\ UNCHANGED <<job, forgotten, connectorVars>>

Dispatch(j, cost, skill) ==
    /\ job[j] = NoJob
    /\ \E w \in HasRoom(cost, skill) :
         /\ \A v \in HasRoom(cost, skill) : LoadedLess(w, v)
         /\ worker' = [worker EXCEPT ![w].load = @ + cost]
         /\ job' = [job EXCEPT ![j] = [worker |-> w, cost |-> cost]]
    /\ UNCHANGED <<forgotten, connectorVars>>

Lowered(w, cost) == [worker EXCEPT ![w].load = IF cost > @ THEN 0 ELSE @ - cost]

\* A job ends, and its caller releases what it took.
Release(j) ==
    /\ job[j] # NoJob
    /\ worker' = Lowered(job[j].worker, job[j].cost)
    /\ job' = [job EXCEPT ![j] = NoJob]
    /\ UNCHANGED <<forgotten, connectorVars>>

\* A caller that releases again takes from the load of other jobs.
ReleaseAgain(w, cost) ==
    /\ worker[w].load > 0
    /\ worker' = Lowered(w, cost)
    /\ forgotten' = forgotten \cup {w}
    /\ UNCHANGED <<job, connectorVars>>

-----------------------------------------------------------------------------
(* Calls to one connector.                                                 *)
\* allow_request, which lets an open breaker that has rested be probed.
Allows == breaker.state # "open" \/ breaker.rested
Probed == IF breaker.state = "open" THEN [breaker EXCEPT !.state = "half_open"] ELSE breaker

Failed(b) ==
    IF b.failures + 1 >= TripAt
    THEN [state |-> "open", failures |-> b.failures + 1, rested |-> FALSE]
    ELSE [b EXCEPT !.failures = @ + 1]

Rest ==
    /\ breaker.state = "open" /\ ~breaker.rested
    /\ breaker' = [breaker EXCEPT !.rested = TRUE]
    /\ UNCHANGED <<routerVars, callLeft, deadLetters>>

BeginCall ==
    /\ callLeft = 0 /\ deadLetters < MaxLetters /\ Allows
    /\ breaker' = Probed
    /\ callLeft' = Attempts
    /\ UNCHANGED <<routerVars, deadLetters>>

AttemptSucceeds ==
    /\ callLeft > 0
    /\ breaker' = [state |-> "closed", failures |-> 0, rested |-> FALSE]
    /\ callLeft' = 0
    /\ UNCHANGED <<routerVars, deadLetters>>

\* The attempts go on although the breaker has opened; the last one leaves a
\* dead letter.
AttemptFails ==
    /\ callLeft > 0
    /\ breaker' = Failed(breaker)
    /\ callLeft' = callLeft - 1
    /\ deadLetters' = IF callLeft = 1 THEN deadLetters + 1 ELSE deadLetters
    /\ UNCHANGED routerVars

RouterNext ==
    \/ \E w \in Workers : Register(w) \/ \E b \in BOOLEAN : Heartbeat(w, b)
    \/ \E j \in Jobs, cost \in Costs, skill \in {"any"} \cup UNION {Skills[w] : w \in Workers} :
         Dispatch(j, cost, skill)
    \/ \E j \in Jobs : Release(j)
    \/ \E w \in Workers, cost \in Costs : ReleaseAgain(w, cost)

ConnectorNext == Rest \/ BeginCall \/ AttemptSucceeds \/ AttemptFails

RuntimeSpec == RuntimeInit /\ [][RouterNext \/ ConnectorNext]_runtimeVars

-----------------------------------------------------------------------------
\* A worker never holds more than its capacity, in whatever order jobs are
\* dispatched and released and workers heard of, unless its load was forgotten
\* by registering it again or by releasing twice; until then the router's load
\* is the cost of what the worker runs (dispatch, release, register).
NeverOvercommitted ==
    \A w \in Workers \ forgotten : worker[w].load = Held(w) /\ Held(w) <= Capacity[w]

=============================================================================
