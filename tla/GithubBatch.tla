---------------------------- MODULE GithubBatch ----------------------------
(***************************************************************************)
(* The GitHub batch plane: the batch and item rows with the SQL functions  *)
(* that create, claim, finish, finalize, cancel and replay them, and the   *)
(* edge-function invocations of apex-github-batch-worker that drain them.  *)
(*                                                                         *)
(* Every SQL function is one transaction and one action, except the claim, *)
(* whose batch is chosen by one statement and whose items are taken by a   *)
(* later one that does not look at the batch's status again.  Invocations  *)
(* interleave, overrun their leases, meet failing RPCs and die at any step.*)
(*                                                                         *)
(* Abstracted: priorities and ordinals (a claim takes any of the items it  *)
(* might), the pacing of writes, timing columns, heartbeats, the wording   *)
(* of summaries.  available_at is the delay before a claim happens.        *)
(***************************************************************************)
EXTENDS Naturals, FiniteSets

CONSTANTS
  Batches,        \* batch ids (one per batch_key)
  Items,          \* item ids
  Kind,           \* the operation of each item
  Lane,           \* the execution_lane of each item, given or by its operation
  Invocations,    \* worker invocations that may be alive at a time
  MaxAttempts,    \* max_attempts of an item
  ClaimSize,      \* items one claim may take
  MaxCycles,      \* claim cycles of one invocation
  MinSuccessPct,  \* minimum_success_ratio of the quality policy, in percent
  MaxFaults,      \* bound: crashes and failed RPCs in one behaviour
  NoItem, NoInvocation, NoBatch

Kinds == {"read", "update", "create", "dispatch"}

\* create_github_batch_v2 files an item under the lane it names, else under
\* github_native or desktop_commander by its operation, else backend_ops.
Lanes == {"backend_ops", "github_native", "desktop_commander", "github_runner"}

\* The one lane that is ever claimed: by apex-github-batch-worker.
WorkerLane == "backend_ops"

ASSUME KindAssumption == Kind \in [Items -> Kinds]
ASSUME LaneAssumption == Lane \in [Items -> Lanes]
ASSUME LimitAssumption ==
  /\ MaxAttempts \in Nat \ {0}
  /\ ClaimSize \in Nat \ {0}
  /\ MaxCycles \in Nat \ {0}
  /\ MinSuccessPct \in 0..100
  /\ MaxFaults \in Nat
ASSUME NoneAssumption ==
  /\ NoItem \notin Items
  /\ NoInvocation \notin Invocations
  /\ NoBatch \notin Batches

VARIABLES
  batchStatus,  \* github_batch_runs_v2.status
  receipts,     \* batch-level rows of github_batch_receipts_v2
  status,       \* github_batch_items_v2.status
  attempts,     \* github_batch_items_v2.attempts
  lease,        \* lease_owner and lease_expires_at of an item
  quality,      \* quality_status, with error_code ambiguous_external_outcome
  batchOf,      \* github_batch_items_v2.batch_id
  origin,       \* the failed item a replayed item was copied from
  dispatch,     \* the row of github_batch_dispatch_leases_v2
  pc,           \* where each invocation is in its handler
  held,         \* items an invocation claimed and has not finished
  cur,          \* the batch of its current claim
  cycle,        \* claim cycles it has started
  touched,      \* batches it will finalize once more
  faults        \* crashes and failed RPCs so far

rows == <<batchStatus, receipts, status, attempts, lease, quality, batchOf, origin>>
itemRows == <<status, attempts, lease, quality, batchOf, origin>>
local == <<held, cur, cycle, touched>>
vars == <<rows, dispatch, pc, local, faults>>

BatchStatus == {"absent", "queued", "running", "completed",
                "completed_with_errors", "quality_failed", "cancelled"}
Finalized == {"completed", "completed_with_errors", "quality_failed"}
ItemStatus == {"absent", "pending", "running", "retry",
               "succeeded", "failed", "cancelled"}
Claimable == {"pending", "retry"}
Unfinished == {"pending", "running", "retry"}
SettledStatus == {"succeeded", "failed", "cancelled"}
\* "unset" is pending or not_applicable, "ok" is passed or warning.
Quality == {"unset", "ok", "failed", "ambiguous"}
Receipt == [type : {"quality_finalized"}, outcome : {"passed", "failed"}]
           \cup [type : {"batch_completed"}, outcome : Finalized]
           \cup [type : {"batch_cancelled"}, outcome : {"cancelled"}]
PC == {"idle", "select", "take", "read_batch", "work", "finalize", "sweep",
       "release", "unwinding", "draining"}

TypeOK ==
  /\ batchStatus \in [Batches -> BatchStatus]
  /\ receipts \in [Batches -> SUBSET Receipt]
  /\ status \in [Items -> ItemStatus]
  /\ attempts \in [Items -> 0..MaxAttempts]
  /\ lease \in [Items -> {"none", "held", "expired"}]
  /\ quality \in [Items -> Quality]
  /\ batchOf \in [Items -> Batches \cup {NoBatch}]
  /\ origin \in [Items -> Items \cup {NoItem}]
  /\ dispatch \in [owner : Invocations \cup {NoInvocation}, live : BOOLEAN]
  /\ pc \in [Invocations -> PC]
  /\ held \in [Invocations -> SUBSET Items]
  /\ cur \in [Invocations -> Batches \cup {NoBatch}]
  /\ cycle \in [Invocations -> 0..MaxCycles]
  /\ touched \in [Invocations -> SUBSET Batches]
  /\ faults \in 0..MaxFaults

Init ==
  /\ batchStatus = [b \in Batches |-> "absent"]
  /\ receipts = [b \in Batches |-> {}]
  /\ status = [i \in Items |-> "absent"]
  /\ attempts = [i \in Items |-> 0]
  /\ lease = [i \in Items |-> "none"]
  /\ quality = [i \in Items |-> "unset"]
  /\ batchOf = [i \in Items |-> NoBatch]
  /\ origin = [i \in Items |-> NoItem]
  /\ dispatch = [owner |-> NoInvocation, live |-> FALSE]
  /\ pc = [w \in Invocations |-> "idle"]
  /\ held = [w \in Invocations |-> {}]
  /\ cur = [w \in Invocations |-> NoBatch]
  /\ cycle = [w \in Invocations |-> 0]
  /\ touched = [w \in Invocations |-> {}]
  /\ faults = 0

-----------------------------------------------------------------------------
(* Helpers: the queries the SQL functions and the worker run.              *)

ItemsOf(b) == {i \in Items : batchOf[i] = b}
With(b, S) == {i \in ItemsOf(b) : status[i] \in S}
OnLane(S) == {i \in S : Lane[i] = WorkerLane}
IsWrite(i) == Kind[i] # "read"
DeterministicWrite(i) == Kind[i] \in {"update", "create"}

\* Mutants of Candidates: running rows whose lease expired are taken back;
\* failed rows are tried again; rows waiting for a retry are never taken.
CandidatesReclaimed(b) == {i \in OnLane(With(b, Claimable \cup {"running"})) : lease[i] # "held"}
CandidatesFailed(b) == {i \in OnLane(With(b, Claimable \cup {"failed"})) : lease[i] # "held"}
CandidatesPending(b) == {i \in OnLane(With(b, {"pending"})) : lease[i] # "held"}

\* The rows a claim may take: those of its lane, and never running ones,
\* whatever their lease.
Candidates(b) ==
  {i \in OnLane(With(b, Claimable)) : lease[i] # "held"}

\* Updates the rows of S to v and leaves the others alone.
Assign(f, S, v) == [i \in DOMAIN f |-> IF i \in S THEN v ELSE f[i]]

\* classify: what a call's reply makes of an item.  fallback_required is
\* answered for no operation this worker sends, so "blocked" does not occur.
Verdicts(i) ==
  [status : {"succeeded"}, quality : {"ok"}]
  \cup (IF DeterministicWrite(i)
          THEN [status : {"succeeded"}, quality : {"failed"}] ELSE {})
  \cup [status : {"failed"}, quality : {"failed", "ambiguous"}]
  \cup (IF attempts[i] < MaxAttempts
          THEN [status : {"retry"}, quality : {"unset"}] ELSE {})

\* quality_policy with readback and unambiguous outcomes required.
QualityOK(b) ==
  /\ 100 * Cardinality(With(b, {"succeeded"}))
       >= MinSuccessPct * Cardinality(ItemsOf(b))
  /\ \A i \in ItemsOf(b) : DeterministicWrite(i) => quality[i] \notin {"failed", "ambiguous"}
  /\ \A i \in ItemsOf(b) : quality[i] # "ambiguous"

BatchVerdict(b) ==
  IF With(b, Unfinished) # {} THEN "running"
  ELSE IF ~QualityOK(b) THEN "quality_failed"
  ELSE IF With(b, {"failed"}) = {} THEN "completed"
  ELSE "completed_with_errors"

\* insert ... where not exists a receipt of that type
ReceiptOnce(rs, type, outcome) ==
  IF \E r \in rs : r.type = type THEN rs
  ELSE rs \cup {[type |-> type, outcome |-> outcome]}

\* Mutant of FinalReceipts: written although items are unfinished.
FinalReceiptsEarly(b, rs) ==
  ReceiptOnce(rs, "batch_completed",
              IF With(b, {"failed"}) = {} THEN "completed" ELSE "completed_with_errors")

FinalReceipts(b, rs) ==
  IF With(b, Unfinished) # {} THEN rs
  ELSE ReceiptOnce(
         ReceiptOnce(rs, "quality_finalized",
                     IF QualityOK(b) THEN "passed" ELSE "failed"),
         "batch_completed", BatchVerdict(b))

\* finalize_github_batch_v2
Finalize(b) ==
  /\ batchStatus' = [batchStatus EXCEPT ![b] = BatchVerdict(b)]
  /\ receipts' = [receipts EXCEPT ![b] = FinalReceipts(b, @)]
  /\ UNCHANGED itemRows

\* finish_github_batch_item_v2: the row must be running and owned; the
\* owner is WORKER_ID for every invocation and expiry is not looked at.
Finish(i, v) ==
  /\ status[i] = "running" /\ lease[i] # "none"
  /\ status' = [status EXCEPT ![i] = v.status]
  /\ quality' = [quality EXCEPT ![i] = v.quality]
  /\ lease' = [lease EXCEPT ![i] = "none"]
  /\ UNCHANGED <<batchStatus, receipts, attempts, batchOf, origin>>

Fault == faults < MaxFaults /\ faults' = faults + 1
Goto(w, label) == pc' = [pc EXCEPT ![w] = label]

-----------------------------------------------------------------------------
(* Callers: create, replay, cancel.                                        *)

\* Inserts a batch of fresh items, copied from the items orig names.
Insert(b, S, orig) ==
  /\ batchStatus[b] = "absent"
  /\ S # {}
  /\ \A i \in S : status[i] = "absent"
  /\ batchStatus' = [batchStatus EXCEPT ![b] = "queued"]
  /\ status' = Assign(status, S, "pending")
  /\ batchOf' = Assign(batchOf, S, b)
  /\ origin' = [i \in Items |-> IF i \in S THEN orig[i] ELSE origin[i]]
  /\ UNCHANGED <<receipts, attempts, lease, quality, dispatch, pc, local, faults>>

\* create_github_batch_v2; a batch_key that exists is answered unchanged.
CreateBatch(b, S) == Insert(b, S, [i \in S |-> NoItem])

DeadLetters(b) == With(b, {"failed"})

\* The items are rebuilt through jsonb_strip_nulls, which drops the null
\* expected_before_sha of a create, and create_github_batch_v2 then refuses.
ReplayAccepted(b) ==
  DeadLetters(b) # {} /\ \A i \in DeadLetters(b) : Kind[i] # "create"

\* replay_github_batch_failures_v2: operation and lane are copied.
ReplayFailures(src, b, S) ==
  /\ ReplayAccepted(src)
  /\ Cardinality(S) = Cardinality(DeadLetters(src))
  /\ \E copy \in [S -> DeadLetters(src)] :
       /\ \A i \in S : Kind[copy[i]] = Kind[i] /\ Lane[copy[i]] = Lane[i]
       /\ \A i, j \in S : i # j => copy[i] # copy[j]
       /\ Insert(b, S, copy)

Cancellable(b) == With(b, Claimable)

\* cancel_github_batch_v2
Cancel(b) ==
  /\ batchStatus[b] # "absent"
  /\ LET S == Cancellable(b) IN
       /\ status' = Assign(status, S, "cancelled")
       /\ lease' = Assign(lease, S, "none")
       /\ quality' = Assign(quality, S, "unset")
  /\ batchStatus' = [batchStatus EXCEPT ![b] = IF @ \in Finalized THEN @ ELSE "cancelled"]
  /\ receipts' = [receipts EXCEPT ![b] = ReceiptOnce(@, "batch_cancelled", "cancelled")]
  /\ UNCHANGED <<attempts, batchOf, origin, dispatch, pc, local, faults>>

-----------------------------------------------------------------------------
(* One worker invocation.                                                  *)

\* A wake (insert trigger, cron, self-chain) starts an invocation, which
\* answers "busy" unless the dispatch lease is free.  Its owner string is
\* new, so the same-owner branch of the acquisition is never taken.
Invoke(w) ==
  /\ pc[w] = "idle"
  /\ ~dispatch.live
  /\ dispatch' = [owner |-> w, live |-> TRUE]
  /\ Goto(w, "select")
  /\ cycle' = [cycle EXCEPT ![w] = 1]
  /\ UNCHANGED <<rows, held, cur, touched, faults>>

\* The claim's first statement: some batch that is queued or running.
SelectBatch(w) ==
  /\ pc[w] = "select"
  /\ \E b \in Batches :
       /\ batchStatus[b] \in {"queued", "running"}
       /\ Candidates(b) # {}
       /\ cur' = [cur EXCEPT ![w] = b]
  /\ Goto(w, "take")
  /\ UNCHANGED <<rows, dispatch, held, cycle, touched, faults>>

\* Nothing to claim: the loop ends.
SelectNothing(w) ==
  /\ pc[w] = "select"
  /\ \A b \in Batches : batchStatus[b] \in {"queued", "running"} => Candidates(b) = {}
  /\ Goto(w, "sweep")
  /\ UNCHANGED <<rows, dispatch, local, faults>>

\* The update both ends of a claim make to the batch row.
MarkRunning(b) ==
  batchStatus' = [batchStatus EXCEPT ![b] = IF @ = "queued" THEN "running" ELSE @]

\* The claim's last statement and its commit.
TakeRows(b, S) ==
  /\ S # {} /\ Cardinality(S) <= ClaimSize
  /\ status' = Assign(status, S, "running")
  /\ attempts' = [i \in Items |-> attempts[i] + (IF i \in S THEN 1 ELSE 0)]
  /\ lease' = Assign(lease, S, "held")
  /\ MarkRunning(b)
  /\ UNCHANGED <<receipts, quality, batchOf, origin>>

TakeItems(w) ==
  /\ pc[w] = "take"
  /\ \E S \in SUBSET Candidates(cur[w]) :
       /\ TakeRows(cur[w], S)
       /\ held' = [held EXCEPT ![w] = S]
  /\ touched' = [touched EXCEPT ![w] = @ \cup {cur[w]}]
  /\ Goto(w, "read_batch")
  /\ UNCHANGED <<dispatch, cur, cycle, faults>>

\* batch_claim_failed: the RPC failed, before or after its commit.
ClaimFails(w) ==
  /\ pc[w] = "take"
  /\ Fault
  /\ \/ \E S \in SUBSET Candidates(cur[w]) : TakeRows(cur[w], S)
     \/ UNCHANGED rows
  /\ Goto(w, "unwinding")
  /\ UNCHANGED <<dispatch, local>>

\* Every candidate was taken or cancelled between the two statements.
TakeNothing(w) ==
  /\ pc[w] = "take"
  /\ Candidates(cur[w]) = {}
  /\ MarkRunning(cur[w])
  /\ Goto(w, "sweep")
  /\ UNCHANGED <<receipts, itemRows, dispatch, local, faults>>

ReadBatch(w) ==
  /\ pc[w] = "read_batch"
  /\ Goto(w, "work")
  /\ UNCHANGED <<rows, dispatch, local, faults>>

\* batch_read_failed is thrown with the whole claim in hand.
ReadBatchFails(w) ==
  /\ pc[w] = "read_batch"
  /\ Fault
  /\ held' = [held EXCEPT ![w] = {}]
  /\ Goto(w, "unwinding")
  /\ UNCHANGED <<rows, dispatch, cur, cycle, touched>>

\* processClaim: the reads are finished before the first write is sent.
Ready(w) ==
  LET reads == {i \in held[w] : ~IsWrite(i)}
  IN  IF reads # {} THEN reads ELSE held[w]

\* Leaves the label of an invocation that has finished its last item.
AfterItem(w, rest) ==
  IF rest # {} THEN pc[w]
  ELSE CASE pc[w] = "work"     -> "finalize"
         [] pc[w] = "draining" -> "idle"
         [] OTHER              -> pc[w]

FinishItem(w, i) ==
  /\ pc[w] \in {"work", "unwinding", "draining"}
  /\ i \in Ready(w)
  /\ \E v \in Verdicts(i) : Finish(i, v)
  /\ held' = [held EXCEPT ![w] = @ \ {i}]
  /\ Goto(w, AfterItem(w, held[w] \ {i}))
  /\ UNCHANGED <<dispatch, cur, cycle, touched, faults>>

\* finish_item_failed: the RPC failed, before or after its commit.  A read
\* ends the whole claim; a write ends its runner, and the other runners,
\* if there are any, go on while the handler unwinds.
FinishItemFails(w, i) ==
  /\ pc[w] \in {"work", "unwinding", "draining"}
  /\ i \in Ready(w)
  /\ Fault
  /\ \/ \E v \in Verdicts(i) : Finish(i, v)
     \/ UNCHANGED rows
  /\ LET rest == IF IsWrite(i) THEN held[w] \ {i} ELSE {} IN
       \E survivors \in {{}, rest} :
         /\ held' = [held EXCEPT ![w] = survivors]
         /\ Goto(w, IF pc[w] = "draining" /\ survivors # {} THEN "draining"
                    ELSE IF pc[w] = "draining" THEN "idle" ELSE "unwinding")
  /\ UNCHANGED <<dispatch, cur, cycle, touched>>

\* The finalization after a claim; an error of this RPC is not looked at.
\* The next cycle starts unless the cycles or HARD_RUNTIME_MS are used up.
NextCycle(w) ==
  \/ /\ cycle[w] < MaxCycles
     /\ cycle' = [cycle EXCEPT ![w] = @ + 1]
     /\ Goto(w, "select")
  \/ /\ Goto(w, "sweep")
     /\ UNCHANGED cycle

FinalizeCurrent(w) ==
  /\ pc[w] = "finalize"
  /\ Finalize(cur[w])
  /\ NextCycle(w)
  /\ UNCHANGED <<dispatch, held, cur, touched, faults>>

FinalizeCurrentFails(w) ==
  /\ pc[w] = "finalize"
  /\ Fault
  /\ NextCycle(w)
  /\ UNCHANGED <<rows, dispatch, held, cur, touched>>

\* After the loop every batch it touched is finalized once more.
SweepBatch(w, b) ==
  /\ pc[w] = "sweep"
  /\ b \in touched[w]
  /\ Finalize(b)
  /\ touched' = [touched EXCEPT ![w] = @ \ {b}]
  /\ UNCHANGED <<dispatch, pc, held, cur, cycle, faults>>

SweepBatchFails(w, b) ==
  /\ pc[w] = "sweep"
  /\ b \in touched[w]
  /\ Fault
  /\ touched' = [touched EXCEPT ![w] = @ \ {b}]
  /\ UNCHANGED <<rows, dispatch, pc, held, cur, cycle>>

SweepDone(w) ==
  /\ pc[w] = "sweep"
  /\ touched[w] = {}
  /\ Goto(w, "release")
  /\ UNCHANGED <<rows, dispatch, local, faults>>

\* What an invocation forgets when its handler ends.
Forget(w) ==
  /\ cur' = [cur EXCEPT ![w] = NoBatch]
  /\ cycle' = [cycle EXCEPT ![w] = 0]
  /\ touched' = [touched EXCEPT ![w] = {}]

\* release_github_batch_dispatch_lease_v2, at the end of the handler and in
\* its catch: only the owner's row is expired.
ReleaseLease(w) ==
  dispatch' = IF dispatch.owner = w THEN [dispatch EXCEPT !.live = FALSE] ELSE dispatch

EndHandler(w) ==
  /\ pc[w] \in {"release", "unwinding"}
  /\ Goto(w, IF held[w] = {} THEN "idle" ELSE "draining")
  /\ Forget(w)
  /\ UNCHANGED <<rows, held>>

Release(w) ==
  /\ EndHandler(w)
  /\ ReleaseLease(w)
  /\ UNCHANGED faults

\* Neither path looks at the error of the release.
ReleaseFails(w) ==
  /\ EndHandler(w)
  /\ Fault
  /\ UNCHANGED dispatch

\* The isolate dies, or is shut down with runners still at work.
Crash(w) ==
  /\ pc[w] # "idle"
  /\ Fault
  /\ Goto(w, "idle")
  /\ held' = [held EXCEPT ![w] = {}]
  /\ Forget(w)
  /\ UNCHANGED <<rows, dispatch>>

-----------------------------------------------------------------------------
(* Time.                                                                   *)

\* The 55 second dispatch lease runs out, whoever still works under it.
DispatchLeaseLapses ==
  /\ dispatch.live
  /\ dispatch' = [dispatch EXCEPT !.live = FALSE]
  /\ UNCHANGED <<rows, pc, local, faults>>

\* The 120 second item lease runs out.
ItemLeaseLapses(i) ==
  /\ lease[i] = "held"
  /\ lease' = [lease EXCEPT ![i] = "expired"]
  /\ UNCHANGED <<batchStatus, receipts, status, attempts, quality, batchOf, origin,
                 dispatch, pc, local, faults>>

-----------------------------------------------------------------------------
Callers ==
  \/ \E b \in Batches, S \in SUBSET Items : CreateBatch(b, S)
  \/ \E src, b \in Batches, S \in SUBSET Items : ReplayFailures(src, b, S)
  \/ \E b \in Batches : Cancel(b)

\* The steps of an invocation to which nothing goes wrong.
Step(w) ==
  \/ SelectBatch(w) \/ SelectNothing(w) \/ TakeItems(w) \/ TakeNothing(w)
  \/ ReadBatch(w)
  \/ \E i \in Items : FinishItem(w, i)
  \/ FinalizeCurrent(w)
  \/ \E b \in Batches : SweepBatch(w, b)
  \/ SweepDone(w) \/ Release(w)

Failure(w) ==
  \/ ClaimFails(w) \/ ReadBatchFails(w)
  \/ \E i \in Items : FinishItemFails(w, i)
  \/ FinalizeCurrentFails(w)
  \/ \E b \in Batches : SweepBatchFails(w, b)
  \/ ReleaseFails(w) \/ Crash(w)

Next ==
  \/ Callers
  \/ \E w \in Invocations : Invoke(w) \/ Step(w) \/ Failure(w)
  \/ DispatchLeaseLapses
  \/ \E i \in Items : ItemLeaseLapses(i)

Spec == Init /\ [][Next]_vars

\* A live invocation runs on, cron wakes the worker every minute, and time
\* passes.  Nothing is assumed of callers, and nothing that fails must fail.
Fairness ==
  /\ \A w \in Invocations : WF_vars(Step(w))
  /\ WF_vars(\E w \in Invocations : Invoke(w))
  /\ WF_vars(DispatchLeaseLapses)

FairSpec == Spec /\ Fairness

-----------------------------------------------------------------------------
(* Safety.                                                                 *)

\* An item being worked on is a running, leased row, and one invocation works
\* on it: although all invocations finish items under the same WORKER_ID and
\* no lease expiry is checked, a finish never meets
\* item_not_owned_or_not_running and never answers for another's attempt.
OneHolder ==
  /\ \A w \in Invocations : \A i \in held[w] : status[i] = "running" /\ lease[i] # "none"
  /\ \A w, x \in Invocations : w # x => held[w] \cap held[x] = {}

\* The batch_completed receipt is written once, by whichever invocation comes
\* first, yet it stays true for good: later finalizations, cancellations and
\* stale invocations leave the batch at the status the receipt names, which
\* is the status its items still earn.
FinalReceiptTrue ==
  \A b \in Batches : \A r \in receipts[b] :
    r.type = "batch_completed" =>
      batchStatus[b] = r.outcome /\ BatchVerdict(b) = r.outcome

\* Work in flight is left alone by cancellation, by lease expiry and by other
\* invocations: a running row changes only under the invocation working on it.
OnlyHolderSettles ==
  [][\A i \in Items : status[i] = "running" /\ status'[i] # "running" =>
       \E w \in Invocations : i \in held[w] /\ i \notin held'[w]]_vars

\* Whatever the invocations do to each other, an item is attempted at most
\* MaxAttempts times and never again once it has settled.
PhaseOf(s) ==
  CASE s = "absent"         -> "absent"
    [] s \in Claimable     -> "waiting"
    [] s = "running"        -> "working"
    [] s \in SettledStatus -> "settled"

WorkPhase == [i \in Items |-> PhaseOf(status[i])]

Queue == INSTANCE BoundedWork
           WITH Work <- Items, MaxTries <- [i \in Items |-> MaxAttempts],
                phase <- WorkPhase, tries <- attempts

ImplementsBoundedWork == Queue!Spec

-----------------------------------------------------------------------------
(* Liveness.                                                               *)

\* What becomes of a batch.
Settled(b) ==
  /\ OnLane(With(b, Unfinished)) = {}
  /\ OnLane(ItemsOf(b)) = ItemsOf(b) => batchStatus[b] \in Finalized \cup {"cancelled"}

\* While nothing fails and whatever the leases do meanwhile, every item on the
\* worker's lane settles, in whatever company, and a batch whose items are all
\* on that lane is finalized or cancelled.  A batch with an item on another
\* lane is never finalized: nothing in the repository claims those.
BatchSettles ==
  \A b \in Batches : batchStatus[b] # "absent" ~> Settled(b) \/ faults > 0

\* Claimed work is settled sooner or later.

ClaimedWorkSettles ==
  \A i \in Items : status[i] = "running" ~> status[i] # "running"

=============================================================================
