---------------------------- MODULE Reconciliation ----------------------------
(***************************************************************************)
(* Reconciliation of the Genius pipelines (reconcile_genius_buildkite):    *)
(* per repository, read the head, create or repair the pipeline, read it   *)
(* back, reuse or trigger a build of that head; then wait for the builds   *)
(* and for the commit statuses that name them.  Pushes, other builds and   *)
(* edits of the pipelines go on meanwhile.                                 *)
(***************************************************************************)
EXTENDS Integers, Sequences

CONSTANTS
    Registered,    \* how many repositories the registry lists
    MaxPushes,     \* bound on pushes to the main branches
    MaxBuilds,     \* bound on builds
    MaxReconciles  \* bound on runs of the script

ASSUME RegisteredAssumption == Registered \in Nat \ {0}
ASSUME PushesAssumption == MaxPushes \in Nat

Repositories == 1..Registered

VARIABLES
    head,       \* the commit that main is at
    pipelines,  \* each repository's pipeline at the provider
    hooked,     \* repositories whose pushes reach the provider
    builds,     \* the provider's builds, by number
    statuses,   \* the newest commit status of the pipeline's context
    reconciler, \* what the running script knows
    reconciles

reconcileVars == <<head, pipelines, hooked, builds, statuses, reconciler, reconciles>>

-----------------------------------------------------------------------------
\* A pipeline on the repository is as desired; differs in a field that is read
\* back, or only in others; or has another slug.
PipelineStates == {"none", "desired", "drifted", "retouched", "other slug"}
Symbolic == 0
NoStatus == [state |-> "none", number |-> 0]
Failing == {"failed", "canceled"}
Reusable == {"pending", "success"}

NewRun == [stage |-> "idle", at |-> 1, listed |-> pipelines, left |-> {},
          source |-> [r \in Repositories |-> 0], number |-> [r \in Repositories |-> 0]]

ReconcileInit ==
    /\ head = [r \in Repositories |-> 1]
    /\ pipelines \in [Repositories -> PipelineStates]
    /\ hooked = {} /\ builds = <<>> /\ reconciles = 0
    /\ statuses = [r \in Repositories |-> [c \in 1..(1 + MaxPushes) |-> NoStatus]]
    /\ reconciler = NewRun

-----------------------------------------------------------------------------
(* The provider and the people pushing.                                    *)
BuildOf(r, commit, shown) == [repository |-> r, commit |-> commit, shown |-> shown, state |-> "scheduled"]

StatusOf(state) == IF state = "passed" THEN "success"
                   ELSE IF state \in Failing THEN "failure" ELSE "pending"

\* A build moves on, and its commit's status follows: the newest is read.
BuildsMove(moved, state) ==
    /\ builds' = [n \in DOMAIN builds |-> IF n \in moved THEN [builds[n] EXCEPT !.state = state] ELSE builds[n]]
    /\ statuses' = [r \in Repositories |-> [c \in DOMAIN statuses[r] |->
          LET here == {n \in moved : builds[n].repository = r /\ builds[n].commit = c}
          IN  IF here = {} THEN statuses[r][c]
              ELSE [state |-> StatusOf(state), number |-> CHOOSE n \in here : \A m \in here : m <= n]]]

InState(states) == {n \in DOMAIN builds : builds[n].state \in states}

BuildStarts(n) ==
    /\ n \in InState({"scheduled"}) /\ BuildsMove({n}, "running")
    /\ UNCHANGED <<head, pipelines, hooked, reconciler, reconciles>>

BuildEnds(n) ==
    /\ n \in InState({"running"}) /\ \E s \in {"passed", "failed"} : BuildsMove({n}, s)
    /\ UNCHANGED <<head, pipelines, hooked, reconciler, reconciles>>

\* Builds of the branch that a push has made obsolete are given up.
Supersede(r) ==
    LET old == {n \in InState({"scheduled", "running"}) :
                  builds[n].repository = r /\ builds[n].commit < head[r]}
    IN  /\ old # {} /\ BuildsMove(old, "canceled")
        /\ UNCHANGED <<head, pipelines, hooked, reconciler, reconciles>>

\* A pipeline that was edited may build the push or not.
Push(r) ==
    /\ head[r] <= MaxPushes /\ Len(builds) < MaxBuilds
    /\ head' = [head EXCEPT ![r] = @ + 1]
    /\ \/ r \in hooked /\ pipelines[r] # "none"
          /\ builds' = Append(builds, BuildOf(r, head'[r], head'[r]))
       \/ ~(r \in hooked /\ pipelines[r] = "desired") /\ builds' = builds
    /\ UNCHANGED <<pipelines, hooked, statuses, reconciler, reconciles>>

BuildByHand(r) ==
    /\ Len(builds) < MaxBuilds /\ pipelines[r] # "none"
    /\ \E c \in 1..head[r] : builds' = Append(builds, BuildOf(r, c, c))
    /\ UNCHANGED <<head, pipelines, hooked, statuses, reconciler, reconciles>>

PipelineEdited(r) ==
    /\ pipelines[r] = "desired" /\ \E to \in {"drifted", "retouched"} : pipelines' = [pipelines EXCEPT ![r] = to]
    /\ UNCHANGED <<head, hooked, builds, statuses, reconciler, reconciles>>

-----------------------------------------------------------------------------
(* The script.                                                             *)
Source(r) == reconciler.source[r]
Stage(s) == reconciler' = [reconciler EXCEPT !.stage = s]
At(s, r) == reconciler.stage = s /\ r = reconciler.at

BeginReconcile ==
    /\ reconciler.stage \in {"idle", "failed", "written"} /\ reconciles < MaxReconciles
    /\ reconciles' = reconciles + 1
    /\ reconciler' = [NewRun EXCEPT !.stage = "head"]
    /\ UNCHANGED <<head, pipelines, hooked, builds, statuses>>

\* Any request may fail and any wait may time out: nothing is undone.
RequestFails ==
    /\ reconciler.stage \notin {"idle", "failed", "written"} /\ Stage("failed")
    /\ UNCHANGED <<head, pipelines, hooked, builds, statuses, reconciles>>

ReadMain(r) ==
    /\ At("head", r)
    /\ reconciler' = [reconciler EXCEPT !.source[r] = head[r], !.stage = "pipeline"]
    /\ UNCHANGED <<head, pipelines, hooked, builds, statuses, reconciles>>

\* The list was read when the run began: what is created meanwhile makes the
\* provider refuse, and a pipeline with another slug is never taken over.
ReconcilePipeline(r) ==
    LET refused == \/ reconciler.listed[r] = "other slug"
                   \/ reconciler.listed[r] = "none" /\ pipelines[r] # "none"
    IN  /\ At("pipeline", r)
        /\ Stage(IF refused THEN "failed" ELSE "webhook")
        /\ pipelines' = IF refused THEN pipelines ELSE [pipelines EXCEPT ![r] = "desired"]
        /\ UNCHANGED <<head, hooked, builds, statuses, reconciles>>

EnsureWebhook(r) ==
    /\ At("webhook", r) /\ Stage("readback") /\ hooked' = hooked \cup {r}
    /\ UNCHANGED <<head, pipelines, builds, statuses, reconciles>>

\* Of what was asked for, six fields are compared.
VerifyPipeline(r) ==
    /\ At("readback", r)
    /\ Stage(IF pipelines[r] \in {"desired", "retouched"} THEN "project" ELSE "failed")
    /\ UNCHANGED <<head, pipelines, hooked, builds, statuses, reconciles>>

Numbered(r, n) ==
    reconciler' = [reconciler EXCEPT
        !.number[r] = n, !.at = r + 1,
        !.stage = IF r + 1 \in Repositories THEN "head" ELSE "builds",
        !.left = Repositories]

ReuseProjection(r) ==
    LET projection == statuses[r][Source(r)] IN
    /\ At("project", r) /\ projection.state \in Reusable
    /\ Numbered(r, projection.number)
    /\ UNCHANGED <<head, pipelines, hooked, builds, statuses, reconciles>>

\* Only an explicit other commit in the answer is a conflict: a symbolic one
\* may stand for whatever main is at.
Conflicts(b, r) == b.shown # Symbolic /\ b.shown # Source(r)

TriggerBuild(r) ==
    /\ At("project", r) /\ statuses[r][Source(r)].state \notin Reusable /\ Len(builds) < MaxBuilds
    /\ \E commit \in {Source(r), head[r]} : \E shown \in {commit, Symbolic} :
         LET b == BuildOf(r, commit, shown)
         IN  /\ builds' = Append(builds, b)
             /\ IF Conflicts(b, r) THEN Stage("failed") ELSE Numbered(r, Len(builds) + 1)
    /\ UNCHANGED <<head, pipelines, hooked, statuses, reconciles>>

\* One poll of one of the repositories still waited for.
Waits(from, r) == reconciler.stage = from /\ r \in reconciler.left
Settles(r, next) ==
    LET left == reconciler.left \ {r} IN
    reconciler' = [reconciler EXCEPT
        !.stage = IF left = {} THEN next ELSE @,
        !.left = IF left = {} THEN Repositories ELSE left]

PollBuild(r) ==
    LET b == builds[reconciler.number[r]] IN
    /\ Waits("builds", r)
    /\ \/ b.state = "passed" /\ ~Conflicts(b, r) /\ Settles(r, "statuses")
       \/ b.state = "passed" /\ Conflicts(b, r) /\ Stage("failed")
       \/ b.state \in Failing /\ Stage("failed")
    /\ UNCHANGED <<head, pipelines, hooked, builds, statuses, reconciles>>

\* Mutant of OfThisBuild: any success of the commit will do.
OfAnyBuild(projection, r) == TRUE

OfThisBuild(projection, r) == projection.number = reconciler.number[r]

PollStatus(r) ==
    LET projection == statuses[r][Source(r)] IN
    /\ Waits("statuses", r)
    /\ \/ projection.state = "failure" /\ Stage("failed")
       \/ projection.state = "success" /\ ~OfThisBuild(projection, r) /\ Stage("failed")
       \/ projection.state = "success" /\ OfThisBuild(projection, r) /\ Settles(r, "written")
    /\ UNCHANGED <<head, pipelines, hooked, builds, statuses, reconciles>>

ReconcileNext ==
    \/ BeginReconcile \/ RequestFails
    \/ \E r \in Repositories :
         \/ Push(r) \/ BuildByHand(r) \/ PipelineEdited(r)
         \/ ReadMain(r) \/ ReconcilePipeline(r) \/ EnsureWebhook(r) \/ VerifyPipeline(r)
         \/ ReuseProjection(r) \/ TriggerBuild(r) \/ PollBuild(r) \/ PollStatus(r)
         \/ Supersede(r)
    \/ \E n \in DOMAIN builds : BuildStarts(n) \/ BuildEnds(n)

ReconcileSpec == ReconcileInit /\ [][ReconcileNext]_reconcileVars

-----------------------------------------------------------------------------
(* Property.                                                               *)
\* The receipt "heads verified" names, for every repository, a build that
\* really ran the commit it records and passed, although the provider may
\* answer with a symbolic commit, statuses are published by other builds, and main moves on (await_terminal_child_builds).
ReceiptIsEarned ==
    reconciler.stage = "written" =>
        \A r \in Repositories :
            LET b == builds[reconciler.number[r]]
            IN  b.repository = r /\ b.commit = Source(r) /\ b.state = "passed"
=============================================================================
