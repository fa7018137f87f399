--------------------------- MODULE MissionResume ---------------------------
(***************************************************************************)
(* The durable mission checkpoint (MissionCheckpointStore, one SQLite file *)
(* shared by all agents) and the connector effects it reserves             *)
(* (connector_mission_router.dispatch_once).  Agents reconcile the steps   *)
(* of a mission with their providers, claim the next one, and carry it out *)
(* or die; a provider call can take effect long after it was sent.  Every  *)
(* transaction is BEGIN IMMEDIATE and one action here; what happens between *)
(* two of them is an action of its own.                                    *)
(***************************************************************************)
EXTENDS Integers, FiniteSets

CONSTANTS
    Steps,        \* the mission's tasks in their order: 1..n
    Deps,         \* [Steps -> SUBSET Steps]
    ReplaySafe,   \* steps whose provider itself enforces the idempotency key
    Agents,
    EffectKeys, Dispatchers, Cursors,
    MaxOutages, MaxRearms   \* bounds on failing readbacks and on rearmed claims

VARIABLES
    taskRow,      \* the tasks table
    agent,        \* what each agent is doing
    sent,         \* mutations sent for each step
    underway,     \* of those, not yet settled at the provider
    landed,       \* effects at the provider
    outages, rearms,
    reservation,  \* the connector_effect_reservations table
    dispatcher,   \* calls of dispatch_once
    executed      \* connector effects carried out

stepVars == <<taskRow, agent, sent, underway, landed, outages, rearms>>
effectVars == <<reservation, dispatcher, executed>>
missionVars == <<stepVars, effectVars>>

-----------------------------------------------------------------------------
(* The plan.                                                               *)
\* No task waits for itself, directly or through others.
PlanSound ==
    \A S \in SUBSET Steps \ {{}} : \E t \in S : Deps[t] \cap S = {}

Free == "free"
Idle == [at |-> "idle"]

\* initialize: the same plan again changes nothing, another one is refused.
StepsInit ==
    /\ PlanSound
    /\ taskRow = [t \in Steps |-> [state |-> "READY", by |-> Free, revision |-> 0]]
    /\ agent = [a \in Agents |-> Idle]
    /\ sent = [t \in Steps |-> 0] /\ underway = [t \in Steps |-> 0]
    /\ landed = [t \in Steps |-> 0]
    /\ outages = 0 /\ rearms = 0

-----------------------------------------------------------------------------
(* reconcile: a snapshot, then for each row a readback outside of any      *)
(* transaction and a transaction that applies it to the row it was of.     *)
BeginResume(a) ==
    /\ agent[a] = Idle
    /\ agent' = [agent EXCEPT ![a] =
         [at |-> "reconcile", unreadable |-> {},
          snapshot |-> {[task |-> t, row |-> taskRow[t]] :
                          t \in {u \in Steps : taskRow[u].state # "VERIFIED_STEP"}}]]
    /\ UNCHANGED <<taskRow, sent, underway, landed, outages, rearms, effectVars>>

\* The provider answers for what has reached it, or cannot be read.
Answers(t) == {IF landed[t] > 0 THEN "receipt" ELSE "none"}
                \cup (IF outages < MaxOutages THEN {"error"} ELSE {})
Counted(answer) == outages' = IF answer = "error" THEN outages + 1 ELSE outages

ReadStep(a) ==
    /\ agent[a].at = "reconcile"
    /\ \E s \in agent[a].snapshot : \E answer \in Answers(s.task) :
         /\ agent' = [agent EXCEPT ![a] =
              [at |-> "apply", unreadable |-> @.unreadable, snapshot |-> @.snapshot \ {s},
               read |-> s, answer |-> answer]]
         /\ Counted(answer)
    /\ UNCHANGED <<taskRow, sent, underway, landed, rearms, effectVars>>

TaskMoved(r, state, by) == [state |-> state, by |-> by, revision |-> r.revision + 1]

\* Mutant of Reconciled: a claim without a receipt is free again.
ReconciledToReady(seen, now, answer) ==
    IF now # seen THEN now
    ELSE IF answer = "receipt" THEN TaskMoved(now, "VERIFIED_STEP", Free)
    ELSE IF now.state = "IN_FLIGHT" THEN TaskMoved(now, "READY", Free)
    ELSE now

\* What becomes of a row: a stale answer is ignored, a claim without a receipt
\* needs proof, whoever made it and however long ago.
Reconciled(seen, now, answer) ==
    IF now # seen THEN now
    ELSE IF answer = "receipt" THEN TaskMoved(now, "VERIFIED_STEP", Free)
    ELSE IF now.state = "IN_FLIGHT" THEN TaskMoved(now, "NEEDS_PROOF", now.by)
    ELSE now

ApplyStep(a) ==
    /\ agent[a].at = "apply"
    /\ LET s == agent[a].read
       IN  /\ taskRow' = [taskRow EXCEPT ![s.task] = Reconciled(s.row, @, agent[a].answer)]
           /\ agent' = [agent EXCEPT ![a] =
                [at |-> "reconcile", snapshot |-> @.snapshot,
                 unreadable |-> @.unreadable \cup (IF @.answer = "error" THEN {s.task} ELSE {})]]
    /\ UNCHANGED <<sent, underway, landed, outages, rearms, effectVars>>

\* resume: the first step that is ready, readable and has its dependencies.
Verified == {t \in Steps : taskRow[t].state = "VERIFIED_STEP"}
Claimables(a) == {t \in Steps \ agent[a].unreadable : taskRow[t].state = "READY" /\ Deps[t] \subseteq Verified}

ClaimStep(a) ==
    /\ agent[a].at = "reconcile" /\ agent[a].snapshot = {}
    /\ \/ Claimables(a) = {} /\ agent' = [agent EXCEPT ![a] = Idle] /\ UNCHANGED taskRow
       \/ \E t \in Claimables(a) :
            /\ \A u \in Claimables(a) : t <= u
            /\ taskRow' = [taskRow EXCEPT ![t] = TaskMoved(@, "IN_FLIGHT", a)]
            /\ agent' = [agent EXCEPT ![a] = [at |-> "claimed", task |-> t]]
    /\ UNCHANGED <<sent, underway, landed, outages, rearms, effectVars>>

-----------------------------------------------------------------------------
(* The agent and the provider.                                             *)
SendStep(a) ==
    /\ agent[a].at = "claimed"
    /\ sent' = [sent EXCEPT ![agent[a].task] = @ + 1]
    /\ underway' = [underway EXCEPT ![agent[a].task] = @ + 1]
    /\ agent' = [agent EXCEPT ![a] = Idle]
    /\ UNCHANGED <<taskRow, landed, outages, rearms, effectVars>>

AgentDies(a) ==
    /\ agent[a] # Idle
    /\ agent' = [agent EXCEPT ![a] = Idle]
    /\ UNCHANGED <<taskRow, sent, underway, landed, outages, rearms, effectVars>>

ProviderSettles(t) ==
    /\ underway[t] > 0
    /\ underway' = [underway EXCEPT ![t] = @ - 1]
    /\ landed' \in {landed, [landed EXCEPT ![t] = IF t \in ReplaySafe THEN 1 ELSE @ + 1]}
    /\ UNCHANGED <<taskRow, agent, sent, outages, rearms, effectVars>>

-----------------------------------------------------------------------------
(* rearm_after_provider_guarantee, whose verifier attests ReplaySafe.      *)
BeginRearm(a, t) ==
    /\ agent[a] = Idle /\ taskRow[t].state = "NEEDS_PROOF" /\ t \in ReplaySafe
    /\ rearms < MaxRearms
    /\ \E answer \in Answers(t) \ {"error"} :
         agent' = [agent EXCEPT ![a] =
            [at |-> "rearm", task |-> t, revision |-> taskRow[t].revision, answer |-> answer]]
    /\ rearms' = rearms + 1
    /\ UNCHANGED <<taskRow, sent, underway, landed, outages, effectVars>>

Rearmed(r, seen, answer) ==
    IF r.state # "NEEDS_PROOF" \/ r.revision # seen THEN r
    ELSE TaskMoved(r, IF answer = "receipt" THEN "VERIFIED_STEP" ELSE "READY", Free)

Rearm(a) ==
    /\ agent[a].at = "rearm"
    /\ taskRow' = [taskRow EXCEPT ![agent[a].task] = Rearmed(@, agent[a].revision, agent[a].answer)]
    /\ agent' = [agent EXCEPT ![a] = Idle]
    /\ UNCHANGED <<sent, underway, landed, outages, rearms, effectVars>>

StepsNext ==
    \/ \E a \in Agents :
         \/ BeginResume(a) \/ ReadStep(a) \/ ApplyStep(a) \/ ClaimStep(a)
         \/ SendStep(a) \/ AgentDies(a) \/ Rearm(a)
         \/ \E t \in Steps : BeginRearm(a, t)
    \/ \E t \in Steps : ProviderSettles(t)

-----------------------------------------------------------------------------
(* Connector effects: reserve, execute, read back, persist, verify.        *)
Unreserved == [state |-> "NONE", cursor |-> "none"]

EffectsInit ==
    /\ reservation = [k \in EffectKeys |-> Unreserved]
    /\ dispatcher = [d \in Dispatchers |-> Idle]
    /\ executed = [k \in EffectKeys |-> 0]

\* admit, and the insert-if-absent of reserve_connector_effect.
RecoveredMission(expected, recovered, applied, cursor) ==
    [expected |-> expected, recovered |-> recovered, applied |-> applied, cursor |-> cursor]
MissionAdmitted(m, capability) ==
    /\ m.expected # "" /\ m.recovered = m.expected /\ m.applied /\ m.cursor # ""
    /\ capability = [discovered |-> TRUE, authenticated |-> TRUE, permitted |-> TRUE]

\* Mutant of Reserves: a reservation without a checkpoint is taken over.
ReservesAgain(k) == reservation[k].state # "CHECKPOINTED"

Reserves(k) == reservation[k].state = "NONE"

BeginDispatch(d, k, m, capability) ==
    /\ dispatcher[d] = Idle
    /\ MissionAdmitted(m, capability) /\ Reserves(k)
    /\ reservation' = [reservation EXCEPT ![k] = [state |-> "RESERVED", cursor |-> "none"]]
    /\ dispatcher' = [dispatcher EXCEPT ![d] = [at |-> "reserved", key |-> k]]
    /\ UNCHANGED <<executed, stepVars>>

Execute(d) ==
    /\ dispatcher[d].at = "reserved"
    /\ executed' = [executed EXCEPT ![dispatcher[d].key] = @ + 1]
    /\ dispatcher' = [dispatcher EXCEPT ![d].at = "executed"]
    /\ UNCHANGED <<reservation, stepVars>>

\* persist_connector_continuation: a checkpoint is written once; the same one
\* again is answered, a different one is a conflict.
Persists(k, cursor) ==
    \/ reservation[k].state = "RESERVED"
    \/ reservation[k] = [state |-> "CHECKPOINTED", cursor |-> cursor]
Checkpointed(k, cursor) ==
    [reservation EXCEPT ![k] = [state |-> "CHECKPOINTED", cursor |-> cursor]]

\* The provider's readback confirms the effect, then the continuation is
\* persisted.
PersistDispatch(d, cursor) ==
    /\ dispatcher[d].at = "executed"
    /\ Persists(dispatcher[d].key, cursor)
    /\ reservation' = Checkpointed(dispatcher[d].key, cursor)
    /\ dispatcher' = [dispatcher EXCEPT ![d] =
         [at |-> "persisted", key |-> @.key, cursor |-> cursor]]
    /\ UNCHANGED <<executed, stepVars>>

\* verify_connector_continuation compares with what is stored now.
ReturnDispatch(d) ==
    /\ dispatcher[d].at = "persisted"
    /\ reservation[dispatcher[d].key].cursor = dispatcher[d].cursor
    /\ dispatcher' = [dispatcher EXCEPT ![d].at = "returned"]
    /\ UNCHANGED <<reservation, executed, stepVars>>

\* A refusal, an exception or a death after the reservation leaves it.
DispatchFails(d) ==
    /\ dispatcher[d].at \in {"reserved", "executed", "persisted"}
    /\ dispatcher' = [dispatcher EXCEPT ![d] = Idle]
    /\ UNCHANGED <<reservation, executed, stepVars>>

\* A host that reconciles a pending effect by hand and persists what it finds.
HostPersists(k, cursor) ==
    /\ executed[k] > 0 /\ Persists(k, cursor)
    /\ reservation' = Checkpointed(k, cursor)
    /\ UNCHANGED <<dispatcher, executed, stepVars>>

EffectsNext ==
    \/ \E d \in Dispatchers, k \in EffectKeys, recovered \in {"m", "other"}, ok \in BOOLEAN :
         BeginDispatch(d, k, RecoveredMission("m", recovered, TRUE, "c"),
                       [discovered |-> TRUE, authenticated |-> ok, permitted |-> TRUE])
    \/ \E d \in Dispatchers :
         \/ Execute(d) \/ ReturnDispatch(d) \/ DispatchFails(d)
         \/ \E cursor \in Cursors : PersistDispatch(d, cursor)
    \/ \E k \in EffectKeys, cursor \in Cursors : HostPersists(k, cursor)

MissionSpec ==
    StepsInit /\ EffectsInit /\ [][StepsNext \/ EffectsNext]_missionVars

-----------------------------------------------------------------------------
\* Whatever agents die, overlap, read late or rearm: a step is sent to its
\* provider once, unless the provider itself refuses repeats; it is sent only
\* after the steps it depends on are verified; and a verified step has taken
\* effect (reconcile, resume, rearm_after_provider_guarantee).
StepsHappenOnce ==
    \A t \in Steps :
        /\ t \notin ReplaySafe => sent[t] <= 1
        /\ landed[t] <= 1
        /\ sent[t] > 0 => Deps[t] \subseteq Verified
        /\ t \in Verified => landed[t] = 1

\* A connector effect is carried out at most once whatever becomes of the call
\* that reserved it, and a call that returned has left the continuation it
\* named, which no reconciliation has replaced (dispatch_once,
\* persist_connector_continuation).
ReturnedIsCheckpointed ==
    /\ \A k \in EffectKeys : executed[k] <= 1
    /\ \A d \in Dispatchers : dispatcher[d].at = "returned" =>
         /\ executed[dispatcher[d].key] = 1
         /\ reservation[dispatcher[d].key] =
              [state |-> "CHECKPOINTED", cursor |-> dispatcher[d].cursor]

-----------------------------------------------------------------------------
(* Refinement.                                                             *)
ClaimedBy(d, k) == dispatcher[d].at = "reserved" /\ dispatcher[d].key = k

\* An effect that ran stays open to its checkpoint, by the call that ran it or
\* by a host; one that is reserved and did not run needs the call that
\* reserved it.
EffectProgress(k) ==
    IF reservation[k].state = "NONE" THEN "open"
    ELSE IF reservation[k].state = "CHECKPOINTED" THEN "answered"
    ELSE IF executed[k] > 0 THEN "running"
    ELSE IF \E d \in Dispatchers : ClaimedBy(d, k) THEN "claimed"
    ELSE "lost"

EffectShots == INSTANCE OneShot WITH
    Turns <- EffectKeys, turn <- [k \in EffectKeys |-> EffectProgress(k)], runs <- executed

\* Connector effects keep the promise of the one-shot turn: an idempotency key
\* is reserved once, its effect runs once, and it is then checkpointed or, if
\* the call that reserved it is gone, never tried again
\* (reserve_connector_effect, dispatch_once, persist_connector_continuation).
EffectsAreOneShot == EffectShots!OneShotSpec
=============================================================================
