-------------------------- MODULE DesktopCommander --------------------------
(***************************************************************************)
(* The desktop commander plane: local agents enrol as devices, an operator *)
(* approves them, they claim jobs under a lease and report the outcome.    *)
(* The first approved device that completes a read job with a hashed       *)
(* result becomes the one bound execution device.  The binding is kept in  *)
(* three rows that one transaction cannot all lock: the capability matrix  *)
(* (bound), the worker row and the connector registry row.                 *)
(*                                                                         *)
(* Source: the functions as the last migration that defines each leaves    *)
(* them (hardening v4 to device binding guard v9, over the v1 tables).     *)
(* Heartbeat and claim read the binding in one statement and write in      *)
(* later ones under READ COMMITTED, so they are two steps here; both hold  *)
(* the lock of their own device row in between.                            *)
(***************************************************************************)
EXTENDS Naturals, FiniteSets, Sequences

CONSTANTS
  Devices,        \* device rows, named by their device key
  Jobs,           \* idempotency keys of enqueued jobs
  ReadJobs,       \* the jobs whose operation the policy classes as read
  Target,         \* target_device_id of each job, Nobody for any device
  Nobody,         \* a null device reference
  MaxAttempts,    \* max_attempts of each job
  MaxUpsets       \* bound: re-enrolments and administrative withdrawals

ASSUME CommanderAssumption ==
  /\ Nobody \notin Devices
  /\ ReadJobs \subseteq Jobs
  /\ Target \in [Jobs -> Devices \cup {Nobody}]
  /\ MaxAttempts \in [Jobs -> Nat \ {0}]
  /\ MaxUpsets \in Nat

VARIABLES
  device,     \* desktop_commander_devices_v1
  job,        \* desktop_commander_jobs_v1
  receipts,   \* claim and terminal rows of desktop_commander_receipts_v1, by job
  bound,      \* device of the verified capability matrix row, or Nobody
  proof,      \* history: job, identity and roots the binding was proved with
  worker,     \* github_batch_workers_v2 row glacier-desktop-commander
  registry,   \* connector_registry_v2 row desktop_commander.glacier
  txn,        \* the open heartbeat or claim transaction of each device
  upsets      \* re-enrolments and withdrawals so far

vars == <<device, job, receipts, bound, proof, worker, registry, txn, upsets>>

-----------------------------------------------------------------------------
(* Types.                                                                  *)

Someone == Devices \cup {Nobody}
(* identity counts the key and host pairs a device key was enrolled with:  *)
(* the code only asks whether a pair differs from the one before.          *)
Device == [status : {"absent", "pending", "approved", "suspended", "revoked"},
           identity : Nat, rooted : BOOLEAN]
Job == [status : {"absent", "queued", "claimed", "completed", "failed"},
        attempts : Nat, holder : Someone, live : BOOLEAN]
Receipt == [type : {"job_claimed", "job_completed", "job_failed"}, device : Devices]
NoProof == [job |-> "none", identity |-> 0, rooted |-> FALSE]
Proof == [job : Jobs, identity : Nat, rooted : BOOLEAN] \cup {NoProof}
WorkerRow == [status : {"source_ready", "online"}, device : Someone,
              selected : BOOLEAN]
RegistryRow == [device : Someone, verified : BOOLEAN]
Idle == [kind |-> "idle", seen |-> Nobody]
Txn == [kind : {"heartbeat", "claim"}, seen : Someone] \cup {Idle}

TypeOK ==
  /\ device \in [Devices -> Device]
  /\ job \in [Jobs -> Job]
  /\ receipts \in [Jobs -> Seq(Receipt)]
  /\ bound \in Someone
  /\ proof \in Proof
  /\ worker \in WorkerRow
  /\ registry \in RegistryRow
  /\ txn \in [Devices -> Txn]
  /\ upsets \in 0..MaxUpsets
  /\ \A j \in Jobs : job[j].attempts <= MaxAttempts[j]

Terminal == {"completed", "failed"}

Init ==
  /\ device = [d \in Devices |->
       [status |-> "absent", identity |-> 0, rooted |-> FALSE]]
  /\ job = [j \in Jobs |-> [status |-> "absent", attempts |-> 0, holder |-> Nobody,
                            live |-> FALSE]]
  /\ receipts = [j \in Jobs |-> <<>>]
  /\ bound = Nobody
  /\ proof = NoProof
  /\ worker = [status |-> "source_ready", device |-> Nobody, selected |-> FALSE]
  /\ registry = [device |-> Nobody, verified |-> FALSE]
  /\ txn = [d \in Devices |-> Idle]
  /\ upsets = 0

-----------------------------------------------------------------------------
(* Changes of a device row, each followed by its trigger.                  *)

InvalidatesWithRoots(old, new) ==
  (old.status = "approved" /\ new.status # "approved") \/ old.identity # new.identity

(* What the execution guard reacts to: approval lost, another identity, or *)
(* the last approved root removed.                                         *)
Invalidates(old, new) ==
  \/ old.status = "approved" /\ new.status # "approved"
  \/ old.identity # new.identity
  \/ old.rooted /\ ~new.rooted

WorkerUnbound == [status |-> "source_ready", device |-> Nobody, selected |-> FALSE]

(* desktop_commander_device_execution_guard_v1: if the changed device is   *)
(* the bound one, the binding goes and both rows are downgraded with it.   *)
ExecutionGuard(d, new) ==
  IF Invalidates(device[d], new) /\ bound = d
  THEN /\ bound' = Nobody
       /\ proof' = NoProof
       /\ worker' = WorkerUnbound
       /\ registry' = [device |-> Nobody, verified |-> FALSE]
  ELSE UNCHANGED <<bound, proof, worker, registry>>

(* An update of a device row takes its lock and fires the guard.           *)
ChangeDevice(d, new) ==
  /\ txn[d] = Idle
  /\ new # device[d]
  /\ device' = [device EXCEPT ![d] = new]
  /\ ExecutionGuard(d, new)
  /\ UNCHANGED <<job, receipts, txn>>

(* register_desktop_commander_device_v1 of a new device key.               *)
Enrol(d) ==
  /\ device[d].status = "absent"
  /\ ChangeDevice(d, [status |-> "pending", identity |-> 1, rooted |-> FALSE])
  /\ UNCHANGED upsets

(* The same call for a key that is enrolled: another key or host resets    *)
(* the approval; the same identity changes nothing that is modelled.       *)
Reenrol(d) ==
  /\ device[d].status \notin {"absent", "revoked"}
  /\ upsets < MaxUpsets
  /\ upsets' = upsets + 1
  /\ ChangeDevice(d, [status |-> "pending", identity |-> device[d].identity + 1,
                      rooted |-> FALSE])

(* approve_desktop_commander_device_v1, which demands at least one root.   *)
Approve(d) ==
  /\ device[d].status \in {"pending", "suspended", "approved"}
  /\ ChangeDevice(d, [device[d] EXCEPT !.status = "approved", !.rooted = TRUE])
  /\ UNCHANGED upsets

(* The operator's own updates of a row, for which there is no function:    *)
(* suspension, revocation, and emptying approved_roots.                    *)
Withdraw(d) ==
  /\ device[d].status \notin {"absent", "revoked"}
  /\ upsets < MaxUpsets
  /\ upsets' = upsets + 1
  /\ \E new \in {[device[d] EXCEPT !.status = "suspended"],
                 [device[d] EXCEPT !.status = "revoked"],
                 [device[d] EXCEPT !.rooted = FALSE]} : ChangeDevice(d, new)

-----------------------------------------------------------------------------
(* Jobs.                                                                   *)

(* enqueue_desktop_commander_job_v1.  A repeated key returns the old job   *)
(* or is refused: neither changes anything.                                *)
Enqueue(j) ==
  /\ job[j].status = "absent"
  /\ Target[j] # Nobody => device[Target[j]].status = "approved"
  /\ job' = [job EXCEPT ![j].status = "queued"]
  /\ UNCHANGED <<device, receipts, bound, proof, worker, registry, txn, upsets>>

(* A lease reaches its lease_expires_at.                                   *)
Lapse(j) ==
  /\ job[j].status = "claimed" /\ job[j].live
  /\ job' = [job EXCEPT ![j].live = FALSE]
  /\ UNCHANGED <<device, receipts, bound, proof, worker, registry, txn, upsets>>

(* The device is approved and rooted, and nobody else is seen as bound.    *)
MayClaim(d, seen) ==
  /\ device[d].status = "approved"
  /\ device[d].rooted
  /\ seen \in {Nobody, d}

(* claim_desktop_commander_jobs_v1 up to the read of the binding.          *)
BeginClaim(d) ==
  /\ txn[d] = Idle
  /\ MayClaim(d, bound)
  /\ txn' = [txn EXCEPT ![d] = [kind |-> "claim", seen |-> bound]]
  /\ UNCHANGED <<device, job, receipts, bound, proof, worker, registry, upsets>>

(* Mutant of Lapsed: a claim does not look at lease_expires_at.            *)
LapsedOrNot(j) == job[j].status = "claimed"

Lapsed(j) == job[j].status = "claimed" /\ ~job[j].live

ExhaustedNever == {}

(* The claimed jobs whose lease ran out on their last attempt.             *)
Exhausted == {j \in Jobs : Lapsed(j) /\ job[j].attempts >= MaxAttempts[j]}

(* What device d may take: queued, or lapsed with attempts left.           *)
Candidates(d) ==
  {j \in Jobs : /\ Target[j] \in {Nobody, d}
                /\ \/ job[j].status = "queued"
                   \/ Lapsed(j) /\ job[j].attempts < MaxAttempts[j]}

WithClaimReceipt(d, j) == Append(receipts[j], [type |-> "job_claimed", device |-> d])

(* The rest of the claim: exhausted jobs fail, and a batch of the          *)
(* candidates, of whatever limit, is leased to the caller.                 *)
CommitClaim(d) ==
  /\ txn[d].kind = "claim"
  /\ \E batch \in SUBSET Candidates(d) :
       /\ Candidates(d) # {} => batch # {}
       /\ job' = [j \in Jobs |->
            IF j \in Exhausted THEN [job[j] EXCEPT !.status = "failed"]
            ELSE IF j \in batch
            THEN [job[j] EXCEPT !.status = "claimed", !.attempts = @ + 1,
                                !.holder = d, !.live = TRUE]
            ELSE job[j]]
       /\ receipts' = [j \in Jobs |->
            IF j \in Exhausted
            THEN Append(receipts[j], [type |-> "job_failed", device |-> job[j].holder])
            ELSE IF j \in batch
            THEN WithClaimReceipt(d, j)
            ELSE receipts[j]]
  /\ txn' = [txn EXCEPT ![d] = Idle]
  /\ UNCHANGED <<device, bound, proof, worker, registry, upsets>>

(* v_execution_proof: a hashed read result, with no other device bound.    *)
Proves(d, j, outcome, hashed) ==
  /\ outcome = "completed"
  /\ j \in ReadJobs
  /\ hashed
  /\ bound \in {Nobody, d}

(* finish_desktop_commander_job_v1.  The advisory lock makes the read of   *)
(* the binding and the promotion one step; a proof establishes the         *)
(* binding.                                                                *)
Finish(d, j, outcome, hashed) ==
  /\ txn[d] = Idle
  /\ device[d].status = "approved"
  /\ job[j].status = "claimed" /\ job[j].holder = d /\ job[j].live
  /\ job' = [job EXCEPT ![j].status = outcome, ![j].live = FALSE]
  /\ receipts' = [receipts EXCEPT ![j] =
       Append(@, [type |-> IF outcome = "completed" THEN "job_completed" ELSE "job_failed",
                  device |-> d])]
  /\ IF Proves(d, j, outcome, hashed)
     THEN /\ bound' = d
          /\ proof' = [job |-> j, identity |-> device[d].identity,
                        rooted |-> device[d].rooted]
          /\ worker' = [status |-> "online", device |-> d, selected |-> TRUE]
          /\ registry' = [device |-> d, verified |-> TRUE]
     ELSE UNCHANGED <<bound, proof, worker, registry>>
  /\ UNCHANGED <<device, txn, upsets>>

-----------------------------------------------------------------------------
(* Heartbeats.                                                             *)

(* record_desktop_commander_heartbeat_v1 up to the read of the binding.    *)
BeginHeartbeat(d) ==
  /\ txn[d] = Idle
  /\ device[d].status \notin {"absent", "revoked"}
  /\ txn' = [txn EXCEPT ![d] = [kind |-> "heartbeat", seen |-> bound]]
  /\ UNCHANGED <<device, job, receipts, bound, proof, worker, registry, upsets>>

Unpreserved(new) == new

(* desktop_commander_registry_preserve_bound_v1: an update that would drop *)
(* the verified mark keeps the old row while the matrix is still verified. *)
Preserved(new) ==
  IF registry.verified /\ ~new.verified /\ bound # Nobody THEN registry ELSE new

(* v_active_binding of a heartbeat that read seen.                         *)
Selects(d, seen) == seen = d

(* The rest of the heartbeat: nothing more when it saw another device      *)
(* bound; otherwise the worker row, and for an approved device the         *)
(* registry row, name this device, selected if it was seen to be bound.    *)
CommitHeartbeat(d) ==
  LET seen == txn[d].seen
      approved == device[d].status = "approved"
  IN /\ txn[d].kind = "heartbeat"
     /\ IF seen \in {Nobody, d}
        THEN /\ worker' = [status |-> IF approved THEN "online" ELSE "source_ready",
                           device |-> d, selected |-> Selects(d, seen)]
             /\ registry' = IF approved
                            THEN Preserved([device |-> d, verified |-> Selects(d, seen)])
                            ELSE registry
        ELSE UNCHANGED <<worker, registry>>
     /\ txn' = [txn EXCEPT ![d] = Idle]
     /\ UNCHANGED <<device, job, receipts, bound, proof, upsets>>

-----------------------------------------------------------------------------
Next ==
  \/ \E d \in Devices :
       \/ Enrol(d) \/ Reenrol(d) \/ Approve(d) \/ Withdraw(d)
       \/ BeginClaim(d) \/ CommitClaim(d)
       \/ BeginHeartbeat(d) \/ CommitHeartbeat(d)
  \/ \E j \in Jobs : Enqueue(j) \/ Lapse(j)
  \/ \E d \in Devices, j \in Jobs, outcome \in Terminal, hashed \in BOOLEAN :
       Finish(d, j, outcome, hashed)

Spec == Init /\ [][Next]_vars

(* Agents poll and beat for as long as they run, a transaction that has    *)
(* its rows commits, and leases are wall-clock times.  Strong fairness of  *)
(* the two calls: they alternate on one row lock, which queues its         *)
(* waiters.  Nothing makes an agent report an outcome.                     *)
Fairness ==
  /\ \A d \in Devices :
       /\ SF_vars(BeginClaim(d)) /\ WF_vars(CommitClaim(d))
       /\ SF_vars(BeginHeartbeat(d)) /\ WF_vars(CommitHeartbeat(d))
  /\ \A j \in Jobs : WF_vars(Lapse(j))

FairSpec == Spec /\ Fairness

-----------------------------------------------------------------------------
(* Safety.                                                                 *)

(* The binding stands for a device that is approved now and still is the   *)
(* key and host, with the roots, that it was proved with: every way to     *)
(* lose one of them (re-enrolment, suspension, revocation, emptied roots)  *)
(* must have gone through the guard.  A finish does not ask for roots, so  *)
(* roots emptied between claim and finish are missing from the start.      *)
BindingStands ==
  bound # Nobody => /\ device[bound].status = "approved"
                    /\ proof.rooted => device[bound].rooted
                    /\ device[bound].identity = proof.identity

(* The registry row says verified exactly while a device is bound, and     *)
(* names it, although a heartbeat may write from a stale read.             *)
RegistryAgrees ==
  /\ registry.verified <=> bound # Nobody
  /\ registry.verified => registry.device = bound

(* The worker row offers the lane for selection only in the name of the    *)
(* bound device.                                                           *)
SelectionIsBound ==
  worker.selected => bound # Nobody /\ worker.device = bound

(* What the two rows tell other planes agrees with the binding.            *)
RowsFollowBinding == RegistryAgrees /\ SelectionIsBound

(* An established binding is never handed from one device to another: it   *)
(* has to be invalidated first.                                            *)
BindingNotStolen ==
  [][bound # Nobody => bound' \in {bound, Nobody}]_vars

-----------------------------------------------------------------------------
(* Refinement.                                                             *)

(* A job whose lease ran out is waiting again, or settled if that was its  *)
(* last attempt: no finish is accepted any more, and the next claim, of    *)
(* whichever device, only writes the failure down.                         *)
JobPhase(j) ==
  IF job[j].status = "absent" THEN "absent"
  ELSE IF job[j].status = "claimed" /\ job[j].live THEN "working"
  ELSE IF \/ job[j].status = "queued"
          \/ Lapsed(j) /\ job[j].attempts < MaxAttempts[j]
       THEN "waiting"
  ELSE "settled"

JobQueue == INSTANCE BoundedWork
              WITH Work <- Jobs, MaxTries <- MaxAttempts,
                   phase <- [j \in Jobs |-> JobPhase(j)],
                   tries <- [j \in Jobs |-> job[j].attempts]

(* The jobs keep the promise of the bounded work queue, whatever devices   *)
(* claim, lapse, are withdrawn or come back: a job is worked on under one  *)
(* lease at a time, at most as often as it allows, and settled for good    *)
(* (claim_desktop_commander_jobs_v1, finish_desktop_commander_job_v1).     *)
JobsAreBoundedWork == JobQueue!Spec

-----------------------------------------------------------------------------
(* Liveness.                                                               *)

(* Somebody who polls would be given job j.                                *)
Served(j) == \E d \in Devices : MayClaim(d, bound) /\ Target[j] \in {Nobody, d}

(* A job an agent took and never reported still settles, by its attempts   *)
(* running out, unless no device is left that may claim it.                *)
ClaimedSettles ==
  \A j \in Jobs :
    (job[j].status = "claimed") ~> (job[j].status \in Terminal \/ ~Served(j))

-----------------------------------------------------------------------------
(* What the documentation says of heartbeats: a secondary device cannot    *)
(* replace the active binding of the worker row.                           *)
WorkerNamesBound == bound # Nobody => worker.device = bound
=============================================================================
