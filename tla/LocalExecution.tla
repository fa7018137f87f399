-------------------------- MODULE LocalExecution --------------------------
(***************************************************************************)
(* The three executors that run without any boot gate: the operation       *)
(* journal (OperationalCore: dispatch, independent readback, replay), the  *)
(* direct executor (DirectExecutor: reserve, effect, record) writing       *)
(* casebooks, and the local command of control_plane.py that proves its    *)
(* output file.  Each SQLite transaction is one action; provider calls,    *)
(* readbacks and file operations happen between transactions.              *)
(***************************************************************************)
EXTENDS Integers, FiniteSets

CONSTANTS
    Runners,              \* processes that run the one journalled operation
    Missions,             \* missions that use one operation id and one directory
    MaxDrifts,            \* times the provider loses the effect again
    MaxLate,              \* calls on their way to the provider at once
    MaxRuns, MaxVersions  \* bounds on calls of run and on versions of the file

VARIABLES
    idempotent,   \* what the adapter says of itself
    operation,           \* the operation's row
    runner,       \* calls of run and run_to_verified
    present,      \* the desired effect, at the provider
    late,         \* calls still on their way to the provider
    executions,   \* calls of an adapter whose effect cannot be repeated
    drifts, runs,
    action,       \* rows of the direct executor
    caller,       \* its calls
    artifact,     \* the mission whose casebook lies at the shared path
    effects,      \* casebook effects begun for each mission
    file,         \* version of the file to verify, 0 when absent
    command       \* the local command

coreVars == <<idempotent, operation, runner, present, late, executions, drifts, runs>>
directVars == <<action, caller, artifact, effects>>
commandVars == <<file, command>>
localVars == <<coreVars, directVars, commandVars>>

-----------------------------------------------------------------------------
(* OperationalCore.                                                        *)
Unsubmitted == [state |-> "none", tried |-> FALSE, lease |-> "none"]
AtRest == [at |-> "idle"]
Errors == {"raised", "missing"}

CoreInit ==
    /\ idempotent \in BOOLEAN
    /\ operation = Unsubmitted
    /\ runner = [p \in Runners |-> AtRest]
    /\ present = FALSE /\ late = 0
    /\ executions = 0 /\ drifts = 0 /\ runs = 0

\* submit: the same request again is accepted and changes nothing.
Submit ==
    /\ operation = Unsubmitted
    /\ operation' = [operation EXCEPT !.state = "queued"]
    /\ UNCHANGED <<idempotent, runner, present, late, executions, drifts, runs>>

Leased == operation.state = "running" /\ operation.lease = "live"
Dispatched == [state |-> "running", tried |-> TRUE, lease |-> "live"]

\* A call in progress: the failures its loop has seen, and whether it has been
\* repaired.
To(r, at) == [at |-> at, seen |-> r.seen, repaired |-> r.repaired]
Ends(r, state, error) ==
    [at |-> "finish", seen |-> r.seen, repaired |-> r.repaired,
     state |-> state, error |-> error, recheck |-> r.at = "recheck"]
Returned(f, state) ==
    [at |-> "returned", seen |-> f.seen, repaired |-> f.repaired, state |-> state, error |-> f.error]

\* Mutant of NeedsReadback: only an end that was recorded asks for a readback.
NeedsReadbackOnceEnded(row) == row.tried /\ row.state # "running"

\* An earlier effect can exist even if its response was lost.
NeedsReadback(row) == row.tried

\* The first transaction of run; run_to_verified begins with it each time round.
FirstTransaction(p, r) ==
    /\ runner' = [runner EXCEPT ![p] =
         To(r, IF operation.state = "verified" THEN "recheck"
               ELSE IF Leased THEN "status"
               ELSE IF NeedsReadback(operation) THEN "reverify"
               ELSE "execute")]
    /\ operation' = IF runner'[p].at = "execute" THEN Dispatched ELSE operation
    /\ UNCHANGED <<idempotent, present, late, executions, drifts>>

BeginRun(p) ==
    /\ operation # Unsubmitted /\ runner[p] = AtRest /\ runs < MaxRuns
    /\ runs' = runs + 1
    /\ FirstTransaction(p, [seen |-> {}, repaired |-> FALSE])

\* A readback that fails or answers oddly is no answer; what each answer leads
\* to depends on whether it is of a verified row, of an earlier attempt, or of
\* the attempt just made.
Judged(r, verdict, error) ==
    IF verdict = "unknown" THEN Ends(r, "uncertain", "missing")
    ELSE IF verdict = "present"
         THEN IF r.at = "recheck" THEN To(r, "status") ELSE Ends(r, "verified", "missing")
    ELSE IF ~idempotent THEN Ends(r, "needs_reconciliation", "missing")
    ELSE IF r.at = "reverify" THEN To(r, "redispatch")
    ELSE Ends(r, "retryable", error)

Readback(p) ==
    /\ runner[p].at \in {"recheck", "reverify", "confirm"}
    /\ \E verdict \in {IF present THEN "present" ELSE "absent", "unknown"}, error \in Errors :
         runner' = [runner EXCEPT ![p] = Judged(@, verdict, error)]
    /\ UNCHANGED <<idempotent, operation, present, late, executions, drifts, runs>>

\* After a readback the row is looked at again: somebody may have been faster.
Redispatch(p) ==
    /\ runner[p].at = "redispatch"
    /\ IF operation.state = "verified" \/ Leased
       THEN runner' = [runner EXCEPT ![p] = To(@, "status")] /\ UNCHANGED operation
       ELSE runner' = [runner EXCEPT ![p] = To(@, "execute")] /\ operation' = Dispatched
    /\ UNCHANGED <<idempotent, present, late, executions, drifts, runs>>

\* execute: the effect is there at once, later, or never, whatever it returns.
ExecuteEffect(p) ==
    /\ runner[p].at = "execute"
    /\ executions' = IF idempotent THEN executions ELSE executions + 1
    /\ \/ present' = TRUE /\ UNCHANGED late
       \/ late < MaxLate /\ late' = late + 1 /\ UNCHANGED present
       \/ UNCHANGED <<present, late>>
    /\ runner' = [runner EXCEPT ![p] = To(@, "confirm")]
    /\ UNCHANGED <<idempotent, operation, drifts, runs>>

EffectLands ==
    /\ late > 0 /\ late' = late - 1 /\ present' = TRUE
    /\ UNCHANGED <<idempotent, operation, runner, executions, drifts, runs>>

\* _finish: a verified row only yields to a recheck; the lease is dropped
\* whoever holds it.  A recheck that found drift runs the operation again.
FinishRun(p) ==
    /\ runner[p].at = "finish"
    /\ LET f == runner[p]
           kept == operation.state = "verified" /\ ~f.recheck
       IN  /\ operation' = IF kept THEN operation
                           ELSE [state |-> f.state, tried |-> operation.tried, lease |-> "none"]
           /\ runner' = [runner EXCEPT ![p] =
                IF f.recheck /\ f.state = "retryable" THEN To(f, "again")
                ELSE Returned(f, operation'.state)]
    /\ UNCHANGED <<idempotent, present, late, executions, drifts, runs>>

RunAgainAfterDrift(p) ==
    /\ runner[p].at = "again"
    /\ FirstTransaction(p, runner[p]) /\ UNCHANGED runs

\* run_to_verified: another round after a repair by a route not taken before,
\* or after the first failure of its kind; run itself just returns.
Result(r) == IF r.at = "status" THEN operation.state ELSE r.state

RepairAndRun(p) ==
    /\ runner[p].at \in {"status", "returned"} /\ ~runner[p].repaired
    /\ Result(runner[p]) \notin {"verified", "running"}
    /\ FirstTransaction(p, [seen |-> {}, repaired |-> TRUE]) /\ UNCHANGED runs

Retest(p) ==
    /\ runner[p].at = "returned" /\ runner[p].state = "retryable"
    /\ runner[p].error \notin runner[p].seen
    /\ FirstTransaction(p, [seen |-> runner[p].seen \cup {runner[p].error},
                            repaired |-> runner[p].repaired])
    /\ UNCHANGED runs

ReturnRun(p) ==
    /\ runner[p].at \in {"status", "returned"}
    /\ runner' = [runner EXCEPT ![p] = AtRest]
    /\ UNCHANGED <<idempotent, operation, present, late, executions, drifts, runs>>

RunnerDies(p) ==
    /\ runner[p] # AtRest
    /\ runner' = [runner EXCEPT ![p] = AtRest]
    /\ UNCHANGED <<idempotent, operation, present, late, executions, drifts, runs>>

LeaseEnds ==
    /\ Leased /\ operation' = [operation EXCEPT !.lease = "over"]
    /\ UNCHANGED <<idempotent, runner, present, late, executions, drifts, runs>>

TargetDrifts ==
    /\ present /\ drifts < MaxDrifts
    /\ present' = FALSE /\ drifts' = drifts + 1
    /\ UNCHANGED <<idempotent, operation, runner, late, executions, runs>>

CoreNext ==
    /\ \/ Submit \/ EffectLands \/ LeaseEnds \/ TargetDrifts
       \/ \E p \in Runners : BeginRun(p) \/ Readback(p) \/ Redispatch(p) \/ ExecuteEffect(p)
            \/ FinishRun(p) \/ RunAgainAfterDrift(p) \/ RepairAndRun(p)
            \/ Retest(p) \/ ReturnRun(p) \/ RunnerDies(p)
    /\ UNCHANGED <<directVars, commandVars>>

-----------------------------------------------------------------------------
(* DirectExecutor, writing casebooks.  Missions that use one operation id  *)
(* and one output directory share the artifact, and each has its content.  *)
NoArtifact == "none"

ASSUME MissionAssumption == NoArtifact \notin Missions

DirectInit ==
    /\ action = [m \in Missions |-> "none"]
    /\ caller = [p \in Runners |-> AtRest]
    /\ artifact = NoArtifact
    /\ effects = [m \in Missions |-> 0]

\* run and _reserve: an invalid, changed or unauthorized action raises and
\* changes nothing, and so does one that is reserved or in reconciliation; a
\* completed one is answered with its receipt after a fresh readback.
Reserve(p, m) ==
    /\ caller[p] = AtRest /\ action[m] = "none"
    /\ action' = [action EXCEPT ![m] = "RESERVED"]
    /\ caller' = [caller EXCEPT ![p] = [at |-> "write", mission |-> m]]
    /\ UNCHANGED <<artifact, effects>>

Onto(p, at) == caller' = [caller EXCEPT ![p] = [at |-> at, mission |-> @.mission]]

\* The casebook effect: look, link, read back what lies there.
LookForArtifact(p) ==
    /\ caller[p].at = "write"
    /\ effects' = [effects EXCEPT ![caller[p].mission] = @ + 1]
    /\ Onto(p, IF artifact = NoArtifact THEN "link" ELSE "compare")
    /\ UNCHANGED <<action, artifact>>

\* Mutant of Linked: the temporary file is renamed over the artifact.
Renamed(there, mine) == mine

\* os.link creates the artifact or leaves the one that is there.
Linked(there, mine) == IF there = NoArtifact THEN mine ELSE there

LinkArtifact(p) ==
    /\ caller[p].at = "link"
    /\ artifact' = Linked(artifact, caller[p].mission)
    /\ Onto(p, "compare")
    /\ UNCHANGED <<action, effects>>

CompareArtifact(p) ==
    /\ caller[p].at = "compare"
    /\ Onto(p, IF artifact = caller[p].mission THEN "record" ELSE "raised")
    /\ UNCHANGED <<action, artifact, effects>>

EffectRaises(p) ==
    /\ caller[p].at \in {"write", "link", "compare", "record"}
    /\ Onto(p, "raised")
    /\ UNCHANGED <<action, artifact, effects>>

\* _record, with the readback before it: the reservation must still be there.
RecordAction(p) ==
    /\ caller[p].at \in {"record", "raised"}
    /\ LET m == caller[p].mission
           ends == IF caller[p].at = "raised" THEN "RECONCILE"
                   ELSE IF artifact = m THEN "VERIFIED" ELSE "EXECUTED"
       IN  action' = [action EXCEPT ![m] = IF @ = "RESERVED" THEN ends ELSE @]
    /\ caller' = [caller EXCEPT ![p] = AtRest]
    /\ UNCHANGED <<artifact, effects>>

CallerDies(p) ==
    /\ caller[p] # AtRest /\ caller' = [caller EXCEPT ![p] = AtRest]
    /\ UNCHANGED <<action, artifact, effects>>

DirectNext ==
    /\ \E p \in Runners :
         \/ \E m \in Missions : Reserve(p, m)
         \/ LookForArtifact(p) \/ LinkArtifact(p) \/ CompareArtifact(p)
         \/ EffectRaises(p) \/ RecordAction(p) \/ CallerDies(p)
    /\ UNCHANGED <<coreVars, commandVars>>

-----------------------------------------------------------------------------
(* The local command of control_plane.py --run-next-local with a file to   *)
(* verify.  Other processes may write the file at any time, in place.      *)
NoCommand == [at |-> "idle", receipt |-> {}]

CommandInit == file \in {0, 1} /\ command = NoCommand

\* What each look at the file finds; the content is read while it may change.
StartCommand ==
    /\ command = NoCommand
    /\ command' = [at |-> "running", before |-> file, receipt |-> {}]
    /\ UNCHANGED file

WriteFile ==
    /\ command.at # "idle" /\ file < MaxVersions
    /\ file' = file + 1 /\ UNCHANGED command

\* A nonzero exit leaves an execution receipt alone, and so does a file that is
\* absent or as it was before.
CommandExits ==
    /\ command.at = "running"
    /\ \/ command' = [command EXCEPT !.at = "done"]
       \/ /\ file # 0 /\ file # command.before
          /\ command' = [at |-> "changed", before |-> command.before, after |-> file, receipt |-> {}]
    /\ UNCHANGED file

OpenFile ==
    /\ command.at = "changed"
    /\ command' = IF file = command.after
                  THEN [at |-> "reading", before |-> command.before, after |-> command.after,
                        read |-> {}, receipt |-> {}]
                  ELSE [command EXCEPT !.at = "done"]
    /\ UNCHANGED file

ReadSome ==
    /\ command.at = "reading" /\ command' = [command EXCEPT !.read = @ \cup {file}]
    /\ UNCHANGED file

\* Mutant of StillSame: the handle is not looked at again after reading.
NotLookedAgain(now, opened) == TRUE

StillSame(now, opened) == now = opened

FinishReading ==
    /\ command.at = "reading" /\ command.read # {}
    /\ command' = [command EXCEPT !.at = "done",
                     !.receipt = IF StillSame(file, command.after) THEN command.read ELSE {}]
    /\ UNCHANGED file

CommandNext ==
    /\ StartCommand \/ WriteFile \/ CommandExits \/ OpenFile \/ ReadSome \/ FinishReading
    /\ UNCHANGED <<coreVars, directVars>>

LocalSpec ==
    CoreInit /\ DirectInit /\ CommandInit /\ [][CoreNext \/ DirectNext \/ CommandNext]_localVars

-----------------------------------------------------------------------------
(* Properties.                                                             *)
\* An effect that cannot be repeated is carried out once, however many
\* processes run the operation, whatever is lost and whoever dies; and an
\* action of the direct executor is never begun twice (OperationalCore.run,
\* DirectExecutor._reserve).
NothingBlindlyReplayed ==
    /\ ~idempotent => executions <= 1
    /\ \A m \in Missions : effects[m] <= 1

\* A casebook receipt that says VERIFIED is of the artifact that is there,
\* although missions may meet at one path (_casebook_effect).
ReceiptsMatchArtifacts ==
    \A m \in Missions : action[m] = "VERIFIED" => artifact = m

\* A verification receipt is of one version of the file, written after the
\* command was started (control_plane.py, execute_queued).
ProofIsFreshAndWhole ==
    command.receipt # {} =>
        /\ Cardinality(command.receipt) = 1
        /\ \A v \in command.receipt : v > command.before
=============================================================================
