--------------------------- MODULE RuntimeKernel ---------------------------
(***************************************************************************)
(* The repair-forward lifecycle of one task in the APEX runtime kernel     *)
(* (src/src/apex_runtime_kernel.py).  The host calls the kernel's methods  *)
(* in any order; each is one action, guarded by the phase and mode it      *)
(* requires.  A failed test, verification or readback leads to REPAIRING,  *)
(* a provider boundary to BLOCKED, or, for a mutation that is executing,   *)
(* to a blocker the execution carries along.                               *)
(*                                                                         *)
(* Receipts are reduced to the kinds that ever succeeded, which is what    *)
(* the completion gate consults; texts, references and digests are left    *)
(* out.  A call whose arguments are refused is a step where something has  *)
(* changed by then.                                                        *)
(***************************************************************************)
EXTENDS Naturals, FiniteSets

CONSTANTS Blockers,   \* reasons a route can be blocked for
          MaxTasks    \* bound: entries of one kernel's history

ASSUME KernelAssumption == MaxTasks \in Nat

VARIABLES phase,
          task,      \* the bound task
          archived,  \* entries of _history
          fresh,     \* history: kinds that succeeded after the latest attempt
                     \* at every earlier stage and after the latest repair
          frozen     \* history: the phase in which the route was blocked

kernelVars == <<phase, task, archived, fresh, frozen>>

Phases == {"bootstrapped", "context_recovering", "ready", "observing", "executing",
           "testing", "adversarial_testing", "repairing", "verifying", "verified",
           "persisting", "readback", "complete", "blocked"}

MutationPhases == {"executing", "testing", "adversarial_testing", "verified", "persisting"}

\* The stages of a task, in order; config/apex_runtime_policy.json requires
\* all stages of the mode.
Stages == <<"context_recovery", "observation", "execution", "test", "adversarial_test",
            "verification", "persistence", "readback">>
StageKinds == {Stages[n] : n \in 1..8}
ReceiptRequirements ==
    [observation |-> {"context_recovery", "observation", "verification", "readback"},
     mutation |-> StageKinds \ {"observation"}]
Modes == DOMAIN ReceiptRequirements

\* Why a task is in repair: whether the outcome of the execution is in doubt.
Reasons == {"outcome", "test"}

Task == [mode: Modes, blockers: SUBSET Blockers, resume: Phases \cup {"none"},
         reasons: SUBSET Reasons, ever: SUBSET StageKinds, gains: BOOLEAN]
NoTask == [mode |-> "none"]
NewTask(mode) == [mode |-> mode, blockers |-> {}, resume |-> "none", reasons |-> {},
                  ever |-> {}, gains |-> FALSE]

KernelTypeOK ==
    /\ phase \in Phases
    /\ task \in Task \cup {NoTask}
    /\ archived \in 0..MaxTasks
    /\ task # NoTask /\ task.mode = "observation" => phase \notin MutationPhases
    /\ fresh \subseteq StageKinds
    /\ frozen \in Phases \cup {"none"}

KernelInit ==
    /\ phase = "bootstrapped" /\ task = NoTask /\ archived = 0
    /\ fresh = {} /\ frozen = "none"

-----------------------------------------------------------------------------
\* What comes after a kind of receipt, and is stale once the kind is recorded.
LaterThan(kind) ==
    {Stages[n] : n \in {m \in 1..8 : \E k \in 1..8 : Stages[k] = kind /\ k < m}}

\* A receipt of the stage: the task's record of successes, and its freshness.
Recorded(kind, ok) == [task EXCEPT !.ever = IF ok THEN @ \cup {kind} ELSE @]
Freshly(kind, ok) ==
    fresh' = IF ok THEN (fresh \ LaterThan(kind)) \cup {kind}
             ELSE fresh \ (LaterThan(kind) \cup {kind})

Repair(t, reason) == task' = [t EXCEPT !.reasons = @ \cup {reason}] /\ phase' = "repairing"
Proceed(t, next) == task' = t /\ phase' = next

InPhase(p) == task # NoTask /\ phase = p
InMode(m) == task.mode = m

BindTask(mode) ==
    /\ phase \in {"bootstrapped", "complete"}
    /\ IF phase = "complete" THEN archived < MaxTasks /\ archived' = archived + 1
       ELSE UNCHANGED archived
    /\ Proceed(NewTask(mode), "context_recovering")
    /\ fresh' = {}
    /\ UNCHANGED frozen

\* Refused arguments: a completed task has been archived by then, and stays
\* bound, so that the next binding archives it again.
BindRefused ==
    /\ phase = "complete" /\ archived < MaxTasks
    /\ archived' = archived + 1
    /\ UNCHANGED <<phase, task, fresh, frozen>>

RecordContextRecovery ==
    /\ InPhase("context_recovering")
    /\ Proceed(Recorded("context_recovery", TRUE), "ready")
    /\ Freshly("context_recovery", TRUE)
    /\ UNCHANGED <<archived, frozen>>

Begin ==
    /\ InPhase("ready")
    /\ Proceed(task, IF InMode("observation") THEN "observing" ELSE "executing")
    /\ UNCHANGED <<archived, fresh, frozen>>

RecordObservation ==
    /\ InPhase("observing") /\ InMode("observation")
    /\ Proceed(Recorded("observation", TRUE), "verifying")
    /\ Freshly("observation", TRUE)
    /\ UNCHANGED <<archived, frozen>>

RecordExecution ==
    /\ InPhase("executing") /\ InMode("mutation")
    /\ Proceed(Recorded("execution", TRUE), "testing")
    /\ Freshly("execution", TRUE)
    /\ UNCHANGED <<archived, frozen>>

\* record_test and record_adversarial_test.
TestStage(kind, at, next, passed) ==
    /\ InPhase(at) /\ InMode("mutation")
    /\ IF passed THEN Proceed(Recorded(kind, TRUE), next)
       ELSE Repair(Recorded(kind, FALSE), "test")
    /\ Freshly(kind, passed)
    /\ UNCHANGED <<archived, frozen>>

RecordTest(passed) == TestStage("test", "testing", "adversarial_testing", passed)
RecordAdversarialTest(passed) ==
    TestStage("adversarial_test", "adversarial_testing", "verifying", passed)

\* Mutant of RepairedTo: the repair is not tested again.
RepairedUntested == IF "outcome" \in task.reasons THEN "executing" ELSE "verifying"

RepairedTo ==
    IF InMode("observation") THEN "verifying"
    ELSE IF "outcome" \in task.reasons THEN "executing" ELSE "testing"

\* A repair changes what was tested: nothing after the execution or
\* observation counts as fresh any more.
RecordRepair ==
    /\ InPhase("repairing")
    /\ Proceed([task EXCEPT !.reasons = {}], RepairedTo)
    /\ fresh' = fresh \ LaterThan("execution")
    /\ UNCHANGED <<archived, frozen>>

RecordVerification(passed, gains) ==
    LET t == Recorded("verification", passed) IN
    /\ InPhase("verifying")
    /\ IF ~passed \/ (InMode("mutation") /\ ~gains) THEN Repair(t, "outcome")
       ELSE Proceed([t EXCEPT !.gains = @ \/ gains],
                    IF InMode("observation") THEN "readback" ELSE "verified")
    /\ Freshly("verification", passed)
    /\ UNCHANGED <<archived, frozen>>

\* Malformed references of gains are refused after the receipt was recorded.
GainsRefused ==
    /\ InPhase("verifying")
    /\ Proceed(Recorded("verification", TRUE), "verifying")
    /\ Freshly("verification", TRUE)
    /\ UNCHANGED <<archived, frozen>>

BeginPersistence ==
    /\ InPhase("verified") /\ InMode("mutation")
    /\ Proceed(task, "persisting")
    /\ UNCHANGED <<archived, fresh, frozen>>

RecordPersistence ==
    /\ InPhase("persisting") /\ InMode("mutation")
    /\ Proceed(Recorded("persistence", TRUE), "readback")
    /\ Freshly("persistence", TRUE)
    /\ UNCHANGED <<archived, frozen>>

NoCompletionGaps(t) ==
    /\ t.blockers = {}
    /\ ReceiptRequirements[t.mode] \subseteq t.ever
    /\ t.mode = "mutation" => t.gains

RecordReadback(ok) ==
    LET t == Recorded("readback", ok) IN
    /\ InPhase("readback")
    /\ IF ok /\ NoCompletionGaps(t) THEN Proceed(t, "complete") ELSE Repair(t, "outcome")
    /\ Freshly("readback", ok)
    /\ UNCHANGED <<archived, frozen>>

Continues == InMode("mutation") /\ phase = "executing"

\* Mutant of ResumePhase: every block remembers the phase it finds.
ResumeAtBlock == phase

\* Where a blocked task is to resume: the phase of the first block.
ResumePhase == IF Continues \/ phase = "blocked" THEN task.resume ELSE phase

Block(b) ==
    /\ task # NoTask /\ phase # "complete"
    /\ task' = [task EXCEPT !.blockers = @ \cup {b}, !.resume = ResumePhase]
    /\ IF Continues THEN UNCHANGED <<phase, frozen>>
       ELSE /\ phase' = "blocked"
            /\ frozen' = IF phase = "blocked" THEN frozen ELSE phase
    /\ UNCHANGED <<archived, fresh>>

ResumeTo == IF task.resume \in {"none", "blocked"} THEN "ready" ELSE task.resume

ResolveBlocker(b) ==
    /\ task # NoTask /\ (phase = "blocked" \/ InMode("mutation"))
    /\ b \in task.blockers
    /\ IF task.blockers = {b} /\ phase = "blocked"
       THEN /\ task' = [task EXCEPT !.blockers = {}, !.resume = "none"]
            /\ phase' = ResumeTo /\ frozen' = "none"
       ELSE task' = [task EXCEPT !.blockers = @ \ {b}] /\ UNCHANGED <<phase, frozen>>
    /\ UNCHANGED <<archived, fresh>>

-----------------------------------------------------------------------------
KernelNext ==
    \/ BindRefused
    \/ \E mode \in Modes : BindTask(mode)
    \/ RecordContextRecovery \/ Begin \/ RecordObservation \/ RecordExecution
    \/ \E passed \in BOOLEAN : RecordTest(passed) \/ RecordAdversarialTest(passed)
    \/ RecordRepair
    \/ \E passed, gains \in BOOLEAN : RecordVerification(passed, gains)
    \/ GainsRefused \/ BeginPersistence \/ RecordPersistence
    \/ \E ok \in BOOLEAN : RecordReadback(ok)
    \/ \E b \in Blockers : Block(b) \/ ResolveBlocker(b)

KernelSpec == KernelInit /\ [][KernelNext]_kernelVars

-----------------------------------------------------------------------------
(* Properties.                                                             *)

\* A task completes only if each stage its mode requires succeeded after the
\* latest attempt at every earlier stage and after the latest repair, although
\* the completion gate (_completion_gaps) accepts a success of any time, and
\* only with no route left blocked.
CompletionIsFresh ==
    phase = "complete" =>
        ReceiptRequirements[task.mode] \subseteq fresh /\ task.blockers = {}

\* A blocked task goes back to the phase in which it was blocked, whatever was
\* blocked or resolved meanwhile, and only when nothing blocks it any more.
BlockReturns ==
    [][phase = "blocked" /\ phase' # "blocked"
         => phase' = frozen /\ task'.blockers = {}]_kernelVars
=============================================================================
