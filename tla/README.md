# Verification of the APEX control plane

TLA+ models of the parts of this repository that change shared state, the TLC
configurations that check them on small instances, and TLAPS proofs of what
matters most for every value of the constants. `PROJECT.json` names, for every
definition, the source lines it stands for.

    tlc -workers 2 -config GithubBatch.cfg MCGithubBatch     # one of the runs
    tlapm GithubBatchProofs.tla                              # one of the proof modules

1. [The system](#1-the-system)
2. [What is modelled, module by module](#2-what-is-modelled-module-by-module)
3. [The runs](#3-the-runs)
4. [Fairness](#4-fairness)
5. [What is proved](#5-what-is-proved)
6. [What is only model-checked, and what is abstracted](#6-what-is-only-model-checked-and-what-is-abstracted)
7. [Where the code and its documentation disagree](#7-where-the-code-and-its-documentation-disagree)
8. [Not modelled, and the plan](#8-not-modelled-and-the-plan)

## 1. The system

The control plane lets language-model sessions and operators act on GitHub,
local machines and mail through durable, receipted work. It has three kinds of
code:

* **SQL functions** in a Postgres database (`src/db/migrations`, 65 files).
  They own all shared state of the deployed system. Every function runs in one
  transaction; what makes them hard is what other transactions do between two
  calls, between two statements (READ COMMITTED reads afresh each time) and
  after a row lock is granted.
* **Edge functions** in TypeScript (`src/supabase/functions`, 18). They keep no
  state: they call the SQL functions, GitHub and each other over HTTP. They can
  be killed at any await, two of them can overlap, and a caller that gives up
  on them does not stop them.
* **Python modules** (`src/src`, `src/scripts`): state machines and gates that
  run inside one session process and persist to SQLite, to JSON and JSONL
  files or to Supabase. Several of them run over the same files: other
  sessions, other chats, an editor.

| component | state it keeps | operations | correct when |
|---|---|---|---|
| GitHub batch plane | batch and item rows, receipts, the dispatch lease | create, claim, finish, finalize, cancel, replay, sweep; a worker invocation | an item has one worker; final receipts stay true; every batch on the worker's lane ends; only failures are replayed |
| GitHub write path | mutation leases, idempotency rows, the repository itself | router lease and preconditions, connector lookup, mutation, readback, record | a mutation is done at most once and no one's version is lost |
| GitHub circuit | one failure row per operation | read, call, write back | the circuit opens after the threshold, and in an outage it does open |
| GitHub webhook plane | deliveries, event queue, parent status | receive, enqueue trigger, claim, call, finish, rollup | what GitHub was told is received is processed once, to a true verdict |
| Desktop Commander plane | devices, jobs, receipts, execution binding, worker and registry rows | enrol, approve, withdraw, enqueue, claim, finish, heartbeat | the device bound for execution has earned it and is the one the registry names |
| Outbound transaction and execution permit | outbound actions, plan rows, permits, receipts, peer frontier | prepare, bind, start, finish, issue, validate and consume | nobody is written to twice, and no call outruns the authority it was given |
| Dispatch awareness fence | sources, events, dispatch rows, awareness receipts | record, evaluate, admit | no stale context outranks newer evidence |
| Continuity intelligence | messages, promises, matters | ingest, resolve, loop | no promise is dropped or counted twice |
| Connector retry storm | incidents, milestones, outbox | a trigger on retry counts | one escalation for each milestone |
| Session gateway | reservations and checkpoints in SQLite | recover, reserve, invoke, persist, read back | a turn invokes its model at most once and returns what was stored |
| Runtime kernel | phase, blockers, receipts of one task | bind, record each stage, repair, block, resolve | completion only when every stage succeeded since the last repair |
| Continuous control plane | events, work items, leases, receipts in JSONL files under one file lock | ingest, claim, execute, record, transition, sweep | an item is in one session's hands, external work is not repeated blindly, an answered event has its work |
| Case orchestrator | timeline, idempotency index, audit receipts | process an event with its threat inputs | an event is judged and audited once, as it first arrived |
| Worker router, connector breaker | worker loads, breaker, dead letters | register, dispatch, release; call with attempts | no worker is overcommitted while its load is known |
| Approved operations, connector receipts | approvals, plans, receipts; the orchestrator's indexes | read requests, plans, execution by a host, admission | a key stands for one approved scope, a receipt is audited once |
| Mission checkpoint store, mission router | tasks in SQLite, effect reservations | reconcile, claim, send, rearm; dispatch once, checkpoint | a step and an effect happen once, whoever dies |
| Receipt ledger, changesets, mission life cycle | a JSONL chain; the phase of a changeset; a stage | append; apply, read back, compensate; move | an append that returned stays chained |
| Live journal, chat handoff, captured notes | a journal with an anchored head; tasks; continuations | open, ingest, search, create, reread, complete | a handoff is complete only when its event, task and continuation are there |
| Operational core, direct executor, local commands | operation rows, action rows, artifacts, proof files | submit, run, read back, repair; reserve, effect, record | nothing is blindly repeated, receipts are of what is there |
| Executable frontier authorities | documents and their hashes | five validations | what is authorized is what the inputs name |
| Pipeline reconciliation | pipelines, builds, statuses at the provider | create or repair, trigger, await | the receipt names builds that ran the commit and passed |
| Execution fabric | observations, attempts | observe, rank, try | no second attempt after an answer that is not a failure; a delivery has its proof |
| Case bridge, pursuit engine | lanes, outbound ledger, findings | decide, make and prepare an action; next step, dispatch | no transmission is decided past a row of the ledger; one action for a packet and the targets it was decided and made for |
| Startup gates, continuation records | policies, receipts, kept proofs, records on disk | load, read, conclude; record | a kept proof is of the policy loaded and of each cited file as it was read; a durable record is on the disk |
| Operator source bindings | sources, bindings, the contract file | bind, enforce, read back, triage | a quote stands in the source it names |
| Judgements of one document | none | scores, gates, contracts | see section 8 |

How they interact: an edge function calls the SQL functions of its own plane and
the edge functions of the next one. The batch worker calls the GitHub router,
the router takes a mutation lease and calls the GitHub connector, the connector
calls GitHub; the webhook worker calls the same router. The batch plane's
circuit stands in front of the router. Outbound starts go through the execution
gate and, across control planes, through a permit that rests on the peer's
frontier, the packet and the awareness receipt. The Python modules run on the
caller's side: a session passes its startup gates, recovers its mission from
the journal or the checkpoint store, plans an approved operation, and hands the
plan to a host that owns the provider connection; what the host did comes back
as a receipt, which the orchestrator admits.

What is hard, in order of how much of it there is:

* **Abandoned callers.** The router gives up on the connector after 30 s and
  the worker on the router; whatever they abandoned continues.
* **Leases that lapse under a live holder** (items, mutation leases, jobs, the
  dispatch lease), and leases that no one ever renews.
* **Reads that are stale when used**: the circuit row, the binding a heartbeat
  or claim has seen, the duplicate search of a racing prepare, the frontier a
  validation checks before its permit is consumed.
* **Files that change between two readings**: a policy, an operator's source, a
  frontier's documents, a proof file, a ledger.
* **Partial failure**: an edge function that dies between claiming and
  finishing, an RPC whose failure is swallowed.
* **At most once against an outside system** which cannot take part in a
  transaction: GitHub and mail.

`PROJECT.json` lists each of these under `hazards` at the line where it bites,
with the property that would catch it.

## 2. What is modelled, module by module

A variable models a table column or a local variable of an invocation, an
action one SQL function (a transaction), or the stretch of an edge function
between two awaits. Times are reduced to whether a deadline has passed: a
lease is live or not, and an environment action lets it lapse. A row that a
function locks is changed in one action; where a function reads without a lock
and writes later, there is an action for the read and one for the write.

### GithubBatch (with BoundedWork, MCGithubBatch, GithubBatchProofs)

*Code:* the batch runtime migrations and `apex-github-batch-worker`.
*State:* `batchStatus`, `receipts`, and for each item `status`, `attempts`,
`lease`, `quality`, `batchOf`, `origin` (the rows); `dispatch` (the dispatch
lease row); `pc`, `held`, `cur`, `cycle`, `touched` (an invocation's locals);
`faults` (a bound). *Actions:* `CreateBatch`, `Cancel`, `ReplayFailures` and
`Invoke` are callers; `SelectBatch` … `Release` follow the worker's handler,
one action per RPC; each RPC has an action in which it fails, `Crash` is the
death of an invocation, `DispatchLeaseLapses` and `ItemLeaseLapses` pass time.
What GitHub answered is the verdict picked by `FinishItem`; `GithubWrite`
models what a verdict stands for. The constant `Lane` gives each item its
execution lane, the caller's or the operation's; a claim takes those of
`WorkerLane` only (`OnLane`), and nothing in the repository claims the others.

**BoundedWork** is the abstract promise of every retrying queue here: a piece of
work waits, is worked on by one attempt at a time, at most as often as it
allows, and settles for good. Three queues are shown to implement it:
`GithubBatch` with `WorkPhase` as the refinement mapping (a running item whose
lease lapsed is still being worked on), `GithubWebhook` with `PhaseOf` (an event
whose handler threw stays in someone's hands for ever), and `DesktopCommander`
with `JobPhase` (a claimed job whose lease lapsed is waiting again, or settled
if that was its last attempt: the next claim only writes the failure down).

### GithubWrite (with MCGithubWrite, GithubWriteProofs)

*Code:* `apex-github-ops-router`, `github-connector`, the mutation lease
functions. *State:* a caller for each request, the router's and the
connector's program counter for each call, the leases, `content` and `applied`
(GitHub: the version of each resource and how often each request took effect),
`receipts` (the connector's idempotency rows). *Actions:* the router's steps
(circuit, lease, preflight, gateway call, reply, settle), the connector's
(lookup, read, mutate, read back, verify, record), a failure for every one
that can fail, the router's time-out (`GatewayTimesOut`) after which the
connector's half still runs, `LeaseLapses`, and `ForeignPush` by people
outside. Kinds: a put compares a version, a post does not, a branch creation
is refused if it exists.

### GithubCircuit (with KernelProofs; in MCKernels)

*Code:* the circuit breaker in the router. *State:* the row, and for each call
its program counter, result and the snapshot it read. *Actions:* `Start`,
`Return`, `ReadRow`, `WriteRow`, `RecordLost`; `OpenElapses`; `Outage`.
Time-out of an open circuit leaves the row as it is, as in the code.

### GithubWebhook (with BoundedWork, MCGithubWebhook, GithubWebhookProofs)

*Code:* `apex-github-webhook`, its worker and wake functions, the enqueue
trigger, claim, finish and the parent's rollup. *State:* `receiver`,
`acked` (deliveries GitHub holds a 2xx for), `delivery`, `queue`, `results`
(what each attempt stored), `worker`. *Actions:* `Receive`, `Insert`,
`InsertFails`; `Claim`, `NextEvent`, `Call`, `Finish`, `Abort`;
`BackoffElapses`.

### DesktopCommander (with BoundedWork, MCDesktopCommander, GatewayProofs)

*Code:* the local agent plane, the hardening and binding-guard migrations and
the bridge function. *State:* `device`, `job`, `receipts`; `bound`, `proof`
(the binding); `worker`, `registry` (the rows other planes read); `txn` (what a
claim or heartbeat has read so far). *Actions:* `Enrol`, `Reenrol`, `Approve`,
`Withdraw`, `Enqueue`, `BeginClaim`/`CommitClaim`, `Finish`,
`BeginHeartbeat`/`CommitHeartbeat`, `Lapse`. The triggers that guard the
binding are part of the actions whose statements fire them (`ChangeDevice`,
`ExecutionGuard`, `Preserved`).

### OutboundPermit (with MCOutboundPermit, OutboundPermitProofs)

*Code:* the outbound transaction v3, the federated permit v1 and v2 and the
stale-context reroute. *State:* `action`, its `receipts`, `event` (timeline
rows), `authorized` (plan rows the operator has approved), `peer` (the other
plane's frontier and awareness), `permit` and `issued`, `call` (a consume or
validate transaction). `scope` picks one of four bounds in the initial state,
so that one run examines races of prepares, rebinding, two adapters at one
permit, and a frontier that goes forward and back, without their product.
*Actions:* `BeginPrepare`/`CommitPrepare`/`AbortPrepare` (the duplicate search
and the write are two statements), `Bind`, `StartRefused`, `StartBlocked`,
`Start`, `Finish`, `Issue`, and the validation as the code orders it:
`BeginCall`, `CheckAction`, `CheckGate`, `CheckFrontier`, `CommitCall` or
`AbortCall`. The environment moves the frontier, the operator's decisions,
the packet and permit expiries and the 24 hours of the duplicate window.

### ContinuousControl (with KernelProofs; in MCKernels)

*Code:* `src/src/continuous_control_plane.py`. *State:* `item` (the last row of
each item in `work.jsonl`), `ledger` (successful receipts), `event`
(recorded, and answered to the sender), `store` (which file ends in a torn
line, and whether a torn line was glued to the next one), `session` (the locals
of a drain or of a host), `recall` (a row in the memory of the process that
sweeps). `past` is history for the properties: items begun outside and not
accounted for, replayed, lapsed under a holder, swept on an outdated view.
*Actions:* every method that takes the file lock reads all files again, so
it is one action: `Ingest`, `ClaimLocal`/`ClaimExternal`/`ClaimNothing` (with the
recovery of expired leases and due sleepers inside the claim), `Move` (the
transitions of `execute_next_local`), `RecordReceipt`, `Report`, `Operate`,
`OperatorRecords`, `Sweep`. `Recall` and `Sweep` are two actions because the
sweeps choose from memory. `IngestDies`, `Die` and `DieClaiming` are deaths
between and inside appends; `Raise` is a refused transition or an unreadable
store. Left open: which claimable item comes first, what the executor, the
operator and the authorization checker decide.

### RuntimeKernel (with KernelProofs; in MCKernels)

*Code:* `src/src/apex_runtime_kernel.py`. *State:* `phase`; `task`, with the
kinds of receipts that ever succeeded, which is all the completion gate
(`_completion_gaps`) looks at; `archived`, the length of `_history`. `fresh` and
`frozen` are history for the properties. *Actions:* one for each method, and
one for each refusal that leaves something changed (`BindRefused`,
`GainsRefused`).

### SessionGateway (with OneShot, GatewayProofs; in MCKernels)

*Code:* `src/src/apex_session_gateway.py` and its store. *State:* `journal`,
`turnRow` (the continuation table), `host` (the locals of one call of
`run_admitted_session`); `invoked` and `returned` are history. *Actions:*
`Recover`, `Reserve`, `Invoke`, `Persist`, `Readback` are the stretches between
two uses of the store or of a callback. `Reserve` and `Persist` may commit and
still raise (`Leave` with the row changed); `GiveUp` is an exception or a death
anywhere; `Correct` lets the journal grow between any two steps.

**OneShot** is the abstract promise: what must not happen twice is claimed once,
runs once, is then answered or lost, and nothing leads back. The turns of the
gateway implement it with `Progress` as the refinement mapping, the connector
effects of `MissionResume` with `EffectProgress`.

### ApprovedOperation and ProviderAdmission (with AuthorityProofs; in MCPlanes)

*Code:* `approved_operation_bridge`, `approved_session_dispatch`,
`authenticated_session_bridge`, `authorization_compat`,
`source_bound_authorization`, `connector_bridge_contract`,
`connector_receipts`, `direct_connector_runtime_contract`,
`epistemic_risk_gate`, three scripts, and the receipt part of
`control_plane_runtime`. `ApprovedOperation` holds the judgements of one
document as operators: the catalog, the exact approval, the source-bound
envelope, readiness, the plan and the receipts. `ProviderAdmission` is the
protocol. *State:* `plans`, `receipts` (what hosts hold), `runtime` (the
orchestrator's indexes), `audits`, `readLedger`, `outdated` (what has aged).
*Actions:* `PlanByCommand`, `PlanBySession`, `HostExecutes`, `Admit`,
`AdmitReads`, `NewProcess` (the indexes live in the process), `GoesStale`.

### CaseIntake (with AuthorityProofs; in MCPlanes)

*Code:* `CaseBrainOrchestrator.process_event` and the brains it asks. *State:*
`timeline`, `processed`, `auditLog`. *Actions:* `ProcessEvent`, and
`ProcessRaises`: the event is on the timeline before its threat inputs are
assessed, and an assessment may raise.

### ConnectorRuntime (with KernelProofs; in MCPlanes)

*Code:* the worker router and the connector calls of `control_plane_runtime`.
*State:* `worker` (the router's rows), `job` (where jobs really run), `breaker`,
`callLeft`, `deadLetters`; `forgotten` is history. *Actions:* `Register`,
`Heartbeat`, `Dispatch`, `Release`, `ReleaseAgain`; `BeginCall`,
`AttemptSucceeds`, `AttemptFails`, `Rest`.

### MissionResume (with OneShot, DurabilityProofs; in MCPlanes and MCKernels)

*Code:* `mission_resume` and `connector_mission_router`. *State:* `row` (the
tasks table, with a revision for each row), `agent` (the locals of a resume or
a rearming), `sent`/`underway`/`landed` (what each step's provider received, has
not settled, has done), `reservation`, `dispatcher`, `executed`. *Actions:*
every `BEGIN IMMEDIATE` transaction is one action; `BeginResume`, `ReadStep`,
`ApplyStep` are the reading of the rows, the provider's readback outside any
transaction, and its application, which checks the revision; `ClaimStep`,
`SendStep`, `AgentDies`, `ProviderSettles`, `BeginRearm`, `Rearm`;
`BeginDispatch`, `Execute`, `PersistDispatch`, `ReturnDispatch`, `DispatchFails`,
`HostPersists`. The steps of missions and the effects of the router share no
state: `MCPlanes` has the agents and steps, `MCKernels` the calls and keys.

### DurableMutation (with DurabilityProofs; in MCPlanes)

*Code:* `verified_changeset`, `echo_receipt_ledger`,
`durable_mission_lifecycle`. *State:* the changeset's phase and what is in
effect; `ledger` (lines of a file that processes append to without a lock),
`appender`, `accepted`; `stage`. *Actions:* `Preflight`, `ApplyOperation`,
`ApplyRaises`, `Compensate`; `MakeReceipt`, `CheckReceipt`, `WriteReceipt`
(whole, or torn by a death), `AuditReceipt`; `Transition`. The property is
about the ledger; the changeset and the life cycle are modelled for their
protocol and explored, and no property of a run is about them alone.

### CaptureHandoff (with DurabilityProofs; in MCPlanes)

*Code:* `spiral_live_journal`, `spiral_chat_handoff`,
`mem_capture_action_bridge`. *State:* `journal`, `anchored` (the head somebody
preserved), `capture`, `chat` (how far each chat is), `ingested`, `native`
(tasks at the provider), `stored`. *Actions:* `OpenChat`, `Ingest`,
`PersistPartial`, `PartialHandoff`, `Search`, `CreateTask`, `Reread`,
`PersistContinuation`, `CompleteHandoff`, `HandoffRaises`, `RunAgain`; the
environment appends corrections and checkpoints to the journal, preserves its
head and edits tasks. What is stored is what the code stores: the cursor the
chat recovered (`CursorOf`), and the owner's status or the task
(`PartialResult`, `BoundedResult`); the other fields of the record are one
behaviour's own.

### LocalExecution (with DurabilityProofs; in MCPlanes)

*Code:* `operational_core`, `execute_now`, and the queued command of
`control_plane`. *State:* one operation's row with its lease, the calls of
`run` and `run_to_verified` (`runner`), the desired effect and calls still on
their way (`present`, `late`); the direct executor's rows and callers and the
artifact at a shared path; the proof file's version and the command. *Actions:*
the first transaction of a run, readback, redispatch, effect, finish, repair
and retest; `Reserve`, `LookForArtifact`, `LinkArtifact`, `CompareArtifact`,
`RecordAction`; `StartCommand` … `FinishReading` around a file that changes;
deaths, lapsing leases, drift of the target.

### Frontier (with AuthorityProofs; in MCPlanes)

*Code:* the strict executable frontier authority and the authorities it calls
(dependency basis, material inputs, enumeration, evidence and lineage, verifier
identity and execution, discovery): eleven files. *State:* `receipt`,
`sources` (the documents as they are now), `validation`, `discovered`;
`providerSaid` is history: the provider's record when the lineage was checked.
*Actions:* `Discover` and the five validations in the code's order, each of
which reads its documents again; `EditSource` between any two.

### Reconciliation (with DurabilityProofs; in MCPlanes)

*Code:* `scripts/reconcile_genius_buildkite.py`. *State:* `head`, `pipelines`,
`hooked`, `builds`, `statuses` (GitHub and the CI provider), `reconciler` (the
script's locals). A pipeline is as desired, `retouched` in fields the readback
does not compare, drifted or missing. *Actions:* the script's requests in
order, each of which may fail; `Push`, `BuildByHand`, `PipelineEdited`,
`BuildStarts`, `BuildEnds` and `Supersede` by others.

### ExecutionFabric (with MCExecutionFabric, AuthorityProofs; in MCPlanes)

*Code:* `dynamic_execution_fabric`. *State:* `workload`, `sighted` (the
observation of each substrate), `attempts`, `delivered`. *Actions:* `Observe`,
`Attempt`, `Exhaust`. A reply and whether the effect took place (`landed`) are
chosen apart: the run `fabric_replay` looks at both.

### CasePursuit (with AuthorityProofs; in MCPlanes)

*Code:* `case_execution_bridge`, the outbound part of
`communications_continuity_bridge` with the lookup of the idempotency key in
`continuity_prepare_outbound_v1`, and `pursuit_engine`. *State:* `lanes` (with
recipient, phone and packet), `outbounds`, `decisions`, `prepared`; `finding`,
`history`, `pursued`, `pursuits`. *Actions:* `Decide`, `Prepare`, `MoveLane`,
`LaneEdited`, `LedgerRow`; `NextPursuitStep`, `DispatchPursuit`,
`FindingChanges`, `HistoryGrows`. A key holds the target the decision named
(`Target`) and the one the lane names when the action is made (`ContactTarget`,
which knows the phone). `LedgerRow` writes a row only for an action that was
prepared, and may come as late as it likes. The property is about the lanes; no
property of a run is about pursuits alone.

### StartupGates (with AuthorityProofs; in MCPlanes)

*Code:* `model_attractor_defense`, `notion_continuity_gate`,
`startup_continuation`. *State:* `config` (the files under `config/` that a
receipt may cite, the attractor policy among them) and `topology` (Notion's
policy), as they are now, `filing` (the receipt as it is now), `hands` (each
interpreter's locals), `seals` and `gateStatus` (what each keeps), `disk`,
`durable`. *Actions:* `CallGate`, `ReadReceipt`, `VerifyRole` (the file that the
receipt cites for one role is read and compared with the hash cited for that
role), `ConcludeAttractor`, `OpenTemporary`, `Flush`, `Replace`, `Enrich`;
`Refile` replaces any of those files, and receipts.

### OperatorSource (with AuthorityProofs; in MCPlanes)

*Code:* `operator_source_binding_contract`, `operator_source_authority`.
*State:* `spoken` (the source), `lapsed` (sections of the contract file that
lack an invariant), `claim`, `request`, `emitted`, `triaged`. *Actions:*
`Bind`, `BindSpan`, `AskVerbatim`, `ReadBack`, `CheckLiterals`, `Assess`, and
`Rewrite` between any two.

### MCOutsideWrites, MCKernels and MCPlanes

Instances of components that share no state: `GithubWrite` and `OutboundPermit`
in `MCOutsideWrites`, five in `MCKernels`, the other thirteen of the Python
side in `MCPlanes`. A variable, `path` or `focus`, constant in every behaviour,
says which one runs, so that one run explores their sum and not their product.
No property relates two of them. `MCPlanes` also keeps the choices of a
component's initial state to the behaviours that are about it.

## 3. The runs

Every run below is exhaustive for its bounds. States and times are those of two
workers.

| run | configuration | instance | states |
|---|---|---|---|
| `batch` | GithubBatch.cfg | one batch of a read and an update, two attempts and two overlapping invocations, with cancellations or with one fault; or one invocation and a batch replayed into another; or one, one fault, cancellations and a batch of an item on the worker's lane and one on another | 301 000, 1 min |
| `batch_crash` | GithubBatchCrash.cfg | one invocation, one fault: a counterexample | |
| `outside_writes` | OutsideWrites.cfg | either two creations of one file, three calls and two faults; or a comment and a branch, with as many; or two messages to one recipient, two plan rows, two adapters, three frontier generations, two permits | 916 000, 2 min |
| `write_duplicate` | GithubWriteDuplicate.cfg | one comment, two calls: a counterexample | |
| `webhook` | GithubWebhook.cfg | events of two, one and no operations; two receivers, two workers, two attempts, one fault | 375 000, 2 min |
| `commander` | DesktopCommander.cfg | two devices, a job for any and one for a named device, one withdrawal or re-enrolment | 131 000, 1 min |
| `commander_heartbeat` | DesktopCommanderHeartbeat.cfg | the same, nothing withdrawn: a counterexample | |
| `outbound_reissue` | OutboundReissue.cfg | the messages and permits of `outside_writes`: a counterexample | |
| `kernels` | Kernels.cfg | see below | 377 000, 2 min |
| `control_replay` | ControlReplay.cfg | the same, one property: a counterexample | |
| `planes` | Planes.cfg | see below | 843 000, 2 min |
| `fabric_replay` | FabricReplay.cfg | two substrates, nine answers: a counterexample | |

What each passing run shows, and why its bounds suffice:

* `batch`: `OneHolder`, `FinalReceiptTrue`, the refinement
  `ImplementsBoundedWork`, and `BatchSettles` while nothing fails: every item
  on the worker's lane settles, and a batch that has no others is finalized or
  cancelled. Two invocations are enough because every conflict in the code is
  between two: a claim and another claim, a stale finish, a late finalization.
  Two items give a claim that splits a batch; two attempts give both a retry
  and a last attempt. A fault and a cancellation meet with one invocation
  only. The theorems hold without these bounds.
* `outside_writes`, on GitHub: `OkIsRecorded` (a reported success rests on a
  change that took place and on its receipt, whichever call made it);
  `LostUpdatesAreAbandoned` says exactly what the leases do not prevent: a
  version is lost only if its writer was abandoned or outlived its lease. Three
  calls are the first number at which a retry races its abandoned predecessor
  and a third writer. Requests for different resources share no row and no
  lease, so they need not be in one behaviour.
* `outside_writes`, by permit: `OneUsablePermit`, `NoRecentDuplicates`,
  `DoomedIsRefused`, `ReceiptsTellTheEnd`. Two generations of the frontier have
  one hash, because validation compares hash and watermark, and issuing only
  the hash.
* `webhook`: `AckedIsQueued`, `SettledTruly`, and `AckedSettles` while nothing
  fails. Two receivers give the race of the existence check with the insert; two
  operations give a result stored before the attempt fails.
* `commander`: `BindingStands`, `RowsFollowBinding`, the refinement
  `JobsAreBoundedWork`, and `ClaimedSettles`. Two devices: one bound, one with a
  stale view. One job allows two attempts and one a single attempt, so that a
  lapse gives one back and ends the other.
* `kernels`: `OneRunner` (two sessions, a local and an external item; one death,
  one sweep and one operator's move, or six moves, which is enough to lead an
  external item once round its lifecycle); `CompletionIsFresh`, `BlockReturns`
  (two blockers: one resolved while the other stands); `ReturnedIsStored`,
  `ImplementsOneShot` (two hosts, two turns of two missions, two corrections);
  `EffectsAreOneShot` (two calls race for a key, one comes after it is
  checkpointed, and one is left for the other key; two continuations);
  `OutageOpens` (three calls and a threshold of three: enough calls to lose
  every increment but one).
* `planes`: one property or two for each component.
  * `KeysNameOneScope`: four actions, two of them with one key and different
    contents, two receipt numbers, two executions, one thing that ages.
  * `EventsAreAudited`: two events, four contents, five sets of indicators, one
    of which raises.
  * `NeverOvercommitted`: a worker of capacity one and one of three, jobs of
    cost one and two, so that a job may fit one worker and not the other.
  * `StepsHappenOnce`: two agents, a step and one that waits for it and whose
    provider refuses repeats; one unreachable provider, one rearming.
  * `AcceptedStaysChained`: three processes and three receipts: a fork with a
    successor. `HandoffsAreReal`: two chats, two tasks, one rerun.
  * `NothingBlindlyReplayed`, `ReceiptsMatchArtifacts`: two runners or missions,
    one drift, one late effect, two runs. `ProofIsFreshAndWhole`: four versions
    of the file: one before the command, one read, one in between, one after.
  * `AuthorizedIsComplete`: two inputs, four accounts a document may give, one
    edit; a record's evidence is compared with what the provider held when the
    lineage was checked. `ReceiptIsEarned`: one repository, one push, two
    builds, two runs: the script treats repositories one after the other,
    without shared state.
  * `AnswersAreFinal`: two substrates, six observations, nine answers.
    `OneOutbound`: two lanes between the trigger of the evidence and the
    acknowledgement, one recipient besides the agency and the phone, one edit,
    two actions. Eight changes of a finding bound the pursuits.
  * `SealsStand`: two files, five stances, two topologies, six receipts, some of
    which cite a file or a version of their own for each role, one replacement:
    enough for a proof that rests on two versions of one file, each under its own
    hash, and for a policy that names a role more than the one that was judged.
    Proofs are judged with one recording at most. `DurableIsOnDisk`: two
    interpreters, three recordings.
    `QuotesAreTheOperators`: sources that grow at either end, two rewrites of
    the source or of the one section of the contract.

Deadlock is checked in the batch runs. The other instances may stop: callers
have nothing left to ask for and bounds are used up.

Type invariants are not part of the runs' properties: for the modules with a
proof module they are proved (`TypeCorrect` or a conjunct of the inductive
invariant), and everywhere a state outside a type would be caught by the
properties that read it.

Each property of a passing run has a mutant in `PROJECT.json`: a definition of
the model is replaced by the form a plausible bug would give it, and the run
then finds the property violated.

## 4. Fairness

| run | assumed | because |
|---|---|---|
| `batch`, `batch_crash` | WF of each invocation's steps, of some invocation starting, of the dispatch lease lapsing | a live isolate runs on; pg_cron wakes the worker every minute; the lease is 55 s of wall-clock time. Callers and failures are not assumed |
| `webhook` | WF of each worker's steps and of each backoff ending | pg_cron wakes the worker; backoffs are `next_attempt_at` in wall-clock time |
| `commander` | SF of beginning a claim or a heartbeat, WF of committing, WF of a lease lapsing | agents poll and beat while they run. Strong, because the calls alternate on one row lock, which queues its waiters |
| `kernels` | WF of each circuit call's steps | calls are made and return or time out. Nothing is assumed of the other components: their properties are safety |

Nowhere is an outcome assumed: no agent must report, no executor must return, no
operator must act, and nobody is assumed to serve the lanes that no worker of the
repository claims. The Python components of `planes` are called by sessions
that may stop at any time: nothing in the code makes them go on, and no liveness
is claimed of them.

## 5. What is proved

Each theorem holds for every value of the constants that satisfies the module's
named assumptions: limits are natural numbers, functions are total on their
domains, `None`-values are no elements, and what a document or a reply consists
of has the fields and words its parser lets through (`ActionsAssumption`,
`CatalogAssumption`, `ThreatsAssumption`, `RepliesAssumption`). Nothing bounds
the number of items, invocations, devices, messages, hosts, turns, workers,
jobs, processes or documents.

Every invariant, every action property and every refinement that a passing run
checks is also a theorem.


* **GithubBatchProofs.** `IInv` is the type invariant, `OneHolder`, "a
  claimable row has attempts left" (`AttemptsLeft`) and "a row that exists has
  a batch" (`HasBatch`). `OneHolder` alone is not inductive: what keeps a
  second invocation away from a held item is that the item is *running* and a
  claim looks only at the status, never at the lease. `AttemptsLeft` is what
  bounds `attempts` although the claim never looks at `max_attempts`. From it:
  `TypeCorrect`, `SingleHolder`, `HolderSettles` (by the shape of a step:
  untouched, inserted, withdrawn, taken or finished), `QueueImplemented` (each
  of those shapes is a step of `BoundedWork` or stutters).
  `FinalReceiptsStayTrue` needs `RInv` besides: a batch with a final receipt
  has nothing open, so that no later step can change its verdict.
* **GithubWriteProofs.** `WriteInv` says of each call what its connector knows
  and what was told of it: past the mutation the change was made (`CallHonest`),
  and a success told by the connector or by the router has its receipt. From it
  `SuccessIsRecorded`. `LeaseInv` adds what the lease protects: a request has at
  most one call without an answer (`Alone`), which holds the resource's lease
  from taking it to the answer, and for good if its router died on the way
  (`Holds`), unless the lease lapsed under the request; a connector still at
  work has told nothing, so a router that answered without it did not report a
  success (`Abreast`). Hence after the preflight of a put nobody writes its
  resource but people outside and requests that were abandoned or outlived
  (`Guarded`), and `LeaseClosesTheGap` follows without a look at what the
  connector re-read.
* **GithubWebhookProofs.** `IInv` adds to the properties what a worker between
  two awaits knows (`SupportedAt`: the results stored so far are those of this
  attempt), that a worker's event is in processing in its name (`AtWork`), and
  that a waiting event has attempts left (`AttemptsLeft`). With it, each step
  turns the phase of at most the events of one claim, in the way of one action
  of `BoundedWork`: `EventQueueImplemented`. The claim takes several events at
  once, which is why the abstract `Begin` is of a set.
* **GatewayProofs**, about SessionGateway and DesktopCommander. `GatewayInv`: a
  host between its reservation and its checkpoint works on a reserved row,
  alone (`HoldsAlone`), and its turn's model has not run if it has not invoked
  it; every checkpoint is a valid output under corrections of the journal. From
  it `TurnRunsOnce`, `ReturnsTheStored`, `MemoryIsSourced` and the refinement
  `GatewayIsOneShot`, by lemmas that say how `Progress` moves for each step of
  a host. `Inv`, of the commander: besides the properties `SeenHolds`, that a
  transaction which saw its own device bound still has it bound, because losing
  the binding needs the device row, which the transaction holds locked. From it
  `BindingHolds`, `RowsAreRight`, `BindingIsKept`. `JobInv` says only that what
  was never claimed has used no attempt; by it `JobsImplemented`: an exhausted
  job was settled by its last lapse, so that the claim which fails it stutters
  for it while it begins an attempt at each job of its batch.
* **OutboundPermitProofs.** `Inv` has four parts, for actions, permits, calls
  and the rest. `OneUsablePermit` follows from `OneIdentity`: of two permits
  with the same action, snapshot hash and awareness receipt one is used up.
  `DoomedIsRefused` follows from `CallInv`: what doomed a call when it began
  still does, because a begun action never executes again (`StatusMoves`).
* **KernelProofs**, about RuntimeKernel, ContinuousControl, GithubCircuit and
  the router of ConnectorRuntime. The completion gate accepts a success of any
  time, so that freshness rests on the order of the phases alone. `KernelInv`
  says which stages are behind a task in each phase (`Behind`) and that they
  are fresh, of a blocked task for the phase it will go back to (`Stand`). From
  it `FreshCompletion`; with the part that ties a blocked task's stored phase
  to the one it was blocked in, `ReturnsFromBlock`. `RunnersAreAlone` rests on
  `Owns`: a session that holds an item owns its row, in a leased state under a
  live lease, unless the item is disputed (its lease ran out, or a sweep took a
  row that had changed). Every action spares such a row or makes it disputed
  (`Spared`): claims look at unleased states only, sessions past their item ask
  for moves that no leased state allows (`LeasedRefuse`), an operator moves
  only what nobody owns. `CircuitAgrees`: the count is at the threshold exactly
  when an opening time is set. `CircuitInv` says it of every snapshot a call
  still holds as well, because a stale snapshot becomes the row.
  `LoadIsWhatIsHeld`: the load of a worker that has not been registered again
  is the sum of the costs of the jobs that run on it, and within its capacity.
  The property needs only its types to be inductive; the work is in the sum, a
  fold over a finite set of jobs. What such a fold does when one job comes or
  goes is shown by a smallest counterexample (`SmallestSubset`, from the
  well-foundedness of the strict subsets of a finite set), because the
  library's induction rules take an operator, which the provers cannot
  instantiate: `SumsAgree`, `CostWithout`.
* **DurabilityProofs**, about MissionResume, LocalExecution, DurableMutation,
  CaptureHandoff and Reconciliation. `StepsInv`: a step whose provider repeats
  effects is claimed by one agent, and neither claimed nor sent while it is
  ready (`SentOnce`); every effect was sent for (`LandsOnce`); what was claimed
  or sent had its dependencies verified, which is never taken back (`InOrder`);
  a receipt that an agent has read and not yet applied is of an effect
  (`ReceiptsTrue`). `EffectsInv`: an effect that is reserved and not
  checkpointed is in the hands of at most one call, ran only if that call is
  past it, and a checkpoint is of an effect that ran (`EffectHeld`). From them
  `StepsAreSentOnce`, `EffectsRunOnce` and the refinement `EffectIsOneShot`,
  theorems of `MissionSpec`, whose steps are those of the focus `steps` of
  `planes` and the focus `effects` of `kernels` together. `CoreInv`
  (`TriedOnce`): of an adapter that cannot repeat its effect, at most one run
  stands before the effect, with the row already marked tried and nothing
  executed, and the mark is never taken back. `DirectInv`: a caller that is
  about to write stands alone before an action that is reserved and has not had
  its effect (`BegunOnce`). `CommandInv`: what is read of the proof file lies
  between the version opened and the present one (`ReadingHeld`), so that equal
  versions before and after mean one version. From them `NothingRepeats`,
  `VerifiedIsThere` and `ProofIsWhole`, theorems of `LocalSpec`; they assume
  `MissionAssumption`, that no mission is the mark of an absent artifact.
  `LedgerInv`: a line that was written whole is still in the file when its
  audit reads it, and what was accepted lies in a beginning of the file that
  was chained at its audit; appending never changes a beginning, whoever forks
  or tears the rest. From it `AcceptedForGood`. `CaptureInv`: the head a chat
  opened with is a beginning of the one preserved now (`IsBeginning`), so that
  a cursor it stores is one the anchored journal had; nobody deletes a task,
  and unless two chats searched at once there is only one (`overlapped`);
  whatever is stored tells the truth (`TellsTheTruth`), for good. From it
  `HandoffsHappened`. `ReconcileInv`: a status that is reused or waited for
  names a build of its own commit (`StatusTrue`), and of the repositories
  behind the script each has earned its line of the receipt (`Earned`); a build
  that passed stays as it is (`BuildsKept`), though the head, the pipelines and
  newer builds move on. From it `HeadsAreVerified`.
* **AuthorityProofs**, about the parts that decide what may be done or relied
  on. `AdmissionInv`: a receipt that a host holds is of a plan (`OfAPlan`), and
  the key of an admitted one is held by the scope it names (`HeldByItsKey`),
  which a new process forgets as a whole. From it `KeysStandForOneScope`.
  `IntakeInv`: what is processed is on the timeline as it first arrived, with
  one audit receipt that fits it (`Receipted`, `AdviceFits`). From it
  `ArrivedOnceAuditedOnce`; sums and maxima over threat indicators are not
  needed, only that an advice freezes exactly when a level is high.
  `FrontierInv`: each of the five validations stands on those before it: once
  the base authority has passed, the frontier is that of the discovered claims,
  and each record of the lineage is what the provider then said, verified
  (`BaseHeld`); and the claims are those the enumerated inputs name, whatever
  is edited in between. From it `AuthorizedByTheInputs`. `FabricInv`: every
  answer but the last was a refusal (`Refuses`), the outcome is that of the
  last answer and has its proof (`OutcomeStands`), and a warned route was tried
  only when no other was left (`Preferred`). From it `FallbacksAreSeen`.
  `LanesInv`: a decision to transmit is taken from one state only with no row
  in sight (`Decided`), every prepared action is of such a decision, under a
  key made of it and of its own target (`OfADecision`), and no key has two.
  From it `TransmittedOnce`. `GatesInv`: an interpreter in the middle of a gate
  has no proof of it yet (`HandsOK`); of the roles it has read, each stands in
  the bytes read for it or has its error noted (`Verifying`, `Stood`); and a
  kept proof says so of every role, for good (`SealsOK`). From it
  `SealsAreForGood`. `RecordsInv`: a temporary file that is not shared has one
  writer, which finds it as it left it (`TemporaryOK`); a record in its place
  is whole or was shared, and whoever still has it open makes it shared
  (`FinalOK`). From it `DurableRecordsStay`. `QuoteInv`: what was emitted was
  read back whole, whatever the caller's request has become since. From it
  `OnlyTheOperatorIsQuoted`.

`SealsStand` says no more than the code does: the policy is loaded once, and the
file cited for each role is read after that, one role at a time. A proof may
therefore rest on two versions of one file, each under the hash cited for its
role, and a file may name a role more than the policy that was judged. What
holds is said role by role, of the roles the code knows (`RoleKeys`).

Theorems that state no property of a run: the type invariants, `HolderSettles`
(batch), `SingleOwner`, `SettlementIsFinal` and the refinement
`EventQueueImplemented` (webhook), `BindingIsKept` (commander), `TurnRunsOnce`
and `MemoryIsSourced` (gateway), `EffectsRunOnce` (connector effects),
`GuardHolds` (outbound), `CircuitAgrees`. TLC finds no counterexample to them on
the instances of the runs either, where they can be added as properties.

## 6. What is only model-checked, and what is abstracted

Only model-checked: the liveness properties `BatchSettles`, `AckedSettles`,
`ClaimedSettles` and `OutageOpens` (the prover does not handle fairness or
ENABLED), and the six statements that runs refute, of which there is nothing to
prove. Of the refinements the safety part is all there is: `BoundedWork` and
`OneShot` promise nothing that must happen. No module uses RECURSIVE.

Abstracted everywhere: clocks (a deadline has passed or not), texts, hashes and
identifiers (a value stands for what it digests), authentication of callers.
READ COMMITTED is modelled by separate actions for separate statements where a
row is not locked between them. A SQLite transaction begun IMMEDIATE and a
method that holds the store's file lock are one action. Judgements of a document
are operators over records that keep the facts the judgement looks at; where a
module checks dozens of fields one by one, those that must all be present and of
the right form are one Boolean (`complete`, `traced`, `analysed`).

## 7. Where the code and its documentation disagree

Six runs end in a counterexample to something the repository says:

| run | said | done |
|---|---|---|
| `batch_crash` | "Work is claimed with leases" (docs/GITHUB_BACKEND_OPS_CONNECTOR.md:172) | expired running items are never claimed again, and their batch never ends |
| `write_duplicate` | writes are not automatically retried (same file, :94) | the worker retries after a transport failure, also a write |
| `commander_heartbeat` | a secondary heartbeat cannot replace the active binding (docs/DESKTOP_COMMANDER_CONTROL_PLANE.md:151) | one that read the binding too early overwrites the worker row |
| `outbound_reissue` | a permit can be issued only while the action remains bound to its plan row (docs/FEDERATED_EXECUTION_PERMIT.md:52) | the permit of the old row is handed out again |
| `control_replay` | external work never blind-retries (docs/CONTINUOUS_CONTROL_PLANE.md:55) | `reawaken_due` acts on stale memory and puts an executing external item back |
| `fabric_replay` | an ambiguous side effect is not retried blindly, even when fallback routes exist; unknown side effects must be reconciled (comments, src/src/dynamic_execution_fabric.py:180, :294) | an executor that raised or timed out after its effect is followed by the next substrate |

Met while modelling, described by the models, and not checked by a run:

* Batch plane: nothing in the repository claims items on the lanes
  `github_native`, `desktop_commander` and `github_runner`, while `pull.create`,
  `pull.review` and `local.*` are put there by default: a batch with such an
  item never ends, with no fault at all, until it is cancelled. `BatchSettles`
  promises an end only to batches wholly on the worker's lane, and the run has
  one of each. The dispatch lease (55 s) is never renewed, while its comment says
  it prevents overlapping worker invocations. A replay of dead letters refuses
  an expected version of null.
* Write path: the router releases its lease after its own 30 s time-out, while
  the connector goes on. The circuit counts failures that are not retryable, and
  a stale read restores a count that was reset.
* Webhook plane: events stay in `processing` after the handler throws.
* Desktop Commander: a finish does not look at the roots of its device, so roots
  emptied between a claim and its finish do not stop it (v9:487); a job for an
  approved device that is not the bound one is never claimed while the binding
  lasts.
* Outbound: stale context no longer blocks a start (migration 20260923112000),
  while docs/COMMUNICATIONS_CONTINUITY_CONTROL_PLANE.md says it does. The
  current start writes no `started` receipt; finish accepts actions that never
  started; two racing prepares block both starts; consuming compares the expiry
  with the start of its transaction; no code issues REVOKED; consuming and
  issuing again allows several dispatches of one action.
* Continuous control plane: a worker that dies between RECONCILING and COMPLETE
  strands its item (:671), while the comment at line 507 says it cannot; the
  executor has no time-out and its 90 s lease is not renewed; `transition` is
  not fenced by the lease; an item moved to DISPATCHED by hand has no lease to
  expire; a torn last line is tolerated
  (tests/test_continuous_control_plane.py:190) until the next append joins it
  (:267), after which every read raises.
* Runtime kernel: a `bind_task` with refused arguments has archived the completed
  task already (:171), and the next call archives it again, so that
  `completed_task_count` counts it twice; a verification stays recorded when its
  gain references are refused.
* Session gateway: the argument `kernel` is not used; a reservation whose host
  is lost is never released.
* Approved operations: docs/APEX_APPROVED_OPERATION_BRIDGE.md:17 says a repeated
  key gives a duplicate result without admitting a second execution.
  `admit_connector_execution_receipt` (control_plane_runtime.py:680-703) gives it
  for a repeated receipt id; a second receipt of the same key and scope is
  admitted.
* Mission router: `dispatch_recovered_once` (connector_mission_router.py:194-202)
  passes an argument its callee does not take and always raises TypeError.
* Mission life cycle: `transition` reaches COMPLETE without the checks of
  `mark_complete` (durable_mission_lifecycle.py).
* Operational core: docs/OPERABLE_EXECUTION_CORE.md:55 says active leases prevent
  competing invocations. A call whose lease lapsed still finishes the row and
  clears the lease of whoever took over (operational_core.py:280-291, :144), so
  that a third may enter while that one runs; the readback before any replay
  keeps this safe.
* Frontier: a strict frontier's fallback discovery can never be authorized.
* Case bridge: nothing compares a decision with the ledger as it is when the
  decision is carried out, and the key of an action follows the lane's
  recipient: the same packet is prepared again once the lane names somebody
  else, or once its phone becomes known. The branch that answers
  `reconcile_receipt` (:185) is dead, and the second lane of a case is never
  transmitted. Pursuit engine: `operation_id` (:100-108) changes with the
  evidence references, so a step may be admitted again under another id.
* Startup: a receipt may cite for each role another file, or another version of
  one (model_attractor_defense.py:446-475). An absent Notion receipt returns
  "blocked" (notion_continuity_gate.py:480-492) while a bad one exits the
  interpreter (:516); two recordings of one record share a temporary file
  (startup_continuation.py:107).
* Read and not modelled: `lease` of the continuous execution kernel takes work
  that is COMPLETE; `_find_conflicts` of the Jack CaseBuilder hides a peer's
  first row, and a `dispatch_jack_queue` that raises midway loses its receipts.

## 8. Not modelled

`PROJECT.json` lists every component with what is left out of it. Not modelled,
and why:

* **Dispatch awareness fence, connector retry storm, continuity intelligence**
  (SQL): their rules are over tables this repository does not create, or
  classify text. What other planes need of them is in `OutboundPermit`: the
  awareness receipt and its watermark, and the outbound transaction itself.
* **Legal case control plane, Jack CaseBuilder; forensic integrity; context and
  epistemic judgements; single-document contracts; impact selection:** each
  computes a verdict or a projection from the one document it is given, in one
  call. There is no state between two calls, and a model would repeat the code.
  The append-only chain with racing writers is in `DurableMutation`.
* **Continuous execution kernel:** in memory, and nothing in `src/` uses it.
* **Operator administration, runtime health views, registries, route tables:**
  rows and read-only views.
* **Connector tool gateway, direct MCP fabric, health pings, remote store
  adapters:** they forward one request and keep nothing.
* **Census and daily scripts, legacy startup:** straight-line file and network
  I/O, and superseded code.

Of the modelled planes: claimants of the other execution lanes, heartbeats,
pacing, priorities and reporting columns of the batch plane; who deletes or
edits an artifact of the direct executor later; file deletes, tree commits,
merges, bulk reads, token minting and route planning of the write path;
signatures, nonces and policy changes of the Desktop Commander bridge;
follow-up commitments and bounces of outbound actions; checkpoints and the
choice among claimable items of the continuous control plane.

Some hazards are modelled and exempted by the property that comes closest,
because the code has no answer to them: an event whose handler threw stays in
processing (`AckedSettles` speaks of runs without faults); a permit's action
may change after validation has read it (`DoomedIsRefused` speaks of what was
settled before the call); a worker registered again forgets its load
(`NeverOvercommitted` leaves such workers out). The notes in `PROJECT.json` say
so at each of them.

What would come next: properties of their own for the changeset, the mission
life cycle and the pursuits, which are only explored; an abstract at-most-once
authority that the permits of `OutboundPermit` and the leases of `GithubWrite`
could be shown to implement; and the work items of `ContinuousControl` as an
implementation of a queue that, unlike `BoundedWork`, knows work done outside.
