------------------------- MODULE DurabilityProofs --------------------------
(* Proofs about MissionResume, LocalExecution, DurableMutation,             *)
(* CaptureHandoff and Reconciliation: for any plan, agents, effects,        *)
(* processes, missions, receipts, tasks and repositories, whatever dies and *)
(* whatever answer is lost, what was done is not done again and what is     *)
(* said of it is true.                                                      *)
EXTENDS MissionResume, LocalExecution, DurableMutation, CaptureHandoff, Reconciliation,
        FiniteSetTheorems, TLAPS

-----------------------------------------------------------------------------
(* Connector effects.                                                       *)
Dispatcher ==
    {Idle} \cup [at : {"reserved", "executed"}, key : EffectKeys]
           \cup [at : {"persisted", "returned"}, key : EffectKeys, cursor : Cursors]

EffectsTypeOK ==
    /\ reservation \in [EffectKeys ->
         [state : {"NONE", "RESERVED", "CHECKPOINTED"}, cursor : Cursors \cup {"none"}]]
    /\ dispatcher \in [Dispatchers -> Dispatcher]
    /\ executed \in [EffectKeys -> Nat]

Handles(d, k) == dispatcher[d].at # "idle" /\ dispatcher[d].key = k

\* A reserved effect has at most one call that handles it, ran only if that
\* call is past it, and its continuation, once stored, is never another one.
\* Only what ran is checkpointed.
EffectHeld(k) ==
    /\ executed[k] <= 1
    /\ reservation[k].state = "CHECKPOINTED" => executed[k] = 1
    /\ reservation[k].state = "NONE" => executed[k] = 0
    /\ \A d \in Dispatchers : Handles(d, k) =>
         /\ reservation[k].state # "NONE"
         /\ \A e \in Dispatchers : Handles(e, k) => e = d
         /\ dispatcher[d].at = "reserved" => executed[k] = 0
         /\ dispatcher[d].at # "reserved" => executed[k] = 1
         /\ dispatcher[d].at \in {"persisted", "returned"} =>
              reservation[k] = [state |-> "CHECKPOINTED", cursor |-> dispatcher[d].cursor]

EffectsInv == EffectsTypeOK /\ \A k \in EffectKeys : EffectHeld(k)

LEMMA EffectsBegin == EffectsInit => EffectsInv
  BY SMT DEF EffectsInit, EffectsInv, EffectsTypeOK, EffectHeld, Handles, Unreserved, Idle, Dispatcher

LEMMA EffectsStep ==
    ASSUME EffectsInv, [StepsNext \/ EffectsNext]_missionVars
    PROVE  EffectsInv'
  <1> USE DEF EffectsInv, EffectsTypeOK
  <1>1. CASE UNCHANGED effectVars
    BY <1>1 DEF effectVars, EffectHeld, Handles
  <1>2. CASE StepsNext
    <2>1. UNCHANGED effectVars
      BY <1>2 DEF StepsNext, BeginResume, ReadStep, ApplyStep, ClaimStep, SendStep, AgentDies,
                  BeginRearm, Rearm, ProviderSettles
    <2> QED  BY <2>1, <1>1
  <1>3. ASSUME NEW d \in Dispatchers, NEW k \in EffectKeys, NEW m, NEW c, BeginDispatch(d, k, m, c)
        PROVE  EffectsInv'
    <2> USE <1>3 DEF BeginDispatch, Reserves
    <2>1. EffectsTypeOK'
      BY DEF Dispatcher, Idle
    <2>2. ASSUME NEW j \in EffectKeys PROVE EffectHeld(j)'
      <3>1. \A e \in Dispatchers : Handles(e, j)' <=> (IF e = d THEN j = k ELSE Handles(e, j))
        BY DEF Handles, Idle
      <3> QED  BY <3>1 DEF EffectHeld, Handles, Idle, Dispatcher
    <2> QED  BY <2>1, <2>2
  <1>4. ASSUME NEW d \in Dispatchers, Execute(d) PROVE EffectsInv'
    <2> USE <1>4 DEF Execute
    <2> DEFINE k == dispatcher[d].key
    <2>0. k \in EffectKeys /\ Handles(d, k) /\ dispatcher[d] \in [at : {"reserved"}, key : EffectKeys]
      BY DEF Handles, Dispatcher, Idle
    <2>1. EffectsTypeOK'
      BY <2>0 DEF Dispatcher, Idle
    <2>2. ASSUME NEW j \in EffectKeys PROVE EffectHeld(j)'
      <3>1. \A e \in Dispatchers : Handles(e, j)' <=> Handles(e, j)
        BY <2>0 DEF Handles
      <3> QED  BY <3>1, <2>0 DEF EffectHeld, Handles, Idle, Dispatcher
    <2> QED  BY <2>1, <2>2
  <1>5. ASSUME NEW d \in Dispatchers, NEW c \in Cursors, PersistDispatch(d, c) PROVE EffectsInv'
    <2> USE <1>5 DEF PersistDispatch, Persists, Checkpointed
    <2> DEFINE k == dispatcher[d].key
    <2>0. k \in EffectKeys /\ Handles(d, k)
      BY DEF Handles, Dispatcher, Idle
    <2>1. EffectsTypeOK'
      BY <2>0 DEF Dispatcher, Idle
    <2>2. ASSUME NEW j \in EffectKeys PROVE EffectHeld(j)'
      <3>1. \A e \in Dispatchers : Handles(e, j)' <=> Handles(e, j)
        BY <2>0 DEF Handles
      <3> QED  BY <3>1, <2>0 DEF EffectHeld, Handles, Idle, Dispatcher
    <2> QED  BY <2>1, <2>2
  <1>6. ASSUME NEW d \in Dispatchers, ReturnDispatch(d) PROVE EffectsInv'
    <2> USE <1>6 DEF ReturnDispatch
    <2>0. dispatcher[d] \in [at : {"persisted"}, key : EffectKeys, cursor : Cursors]
      BY DEF Dispatcher, Idle
    <2>1. EffectsTypeOK'
      BY <2>0 DEF Dispatcher, Idle
    <2>2. ASSUME NEW j \in EffectKeys PROVE EffectHeld(j)'
      <3>1. \A e \in Dispatchers : Handles(e, j)' <=> Handles(e, j)
        BY <2>0 DEF Handles
      <3> QED  BY <3>1, <2>0 DEF EffectHeld, Handles, Idle, Dispatcher
    <2> QED  BY <2>1, <2>2
  <1>7. ASSUME NEW d \in Dispatchers, DispatchFails(d) PROVE EffectsInv'
    <2> USE <1>7 DEF DispatchFails
    <2>1. EffectsTypeOK'
      BY DEF Dispatcher, Idle
    <2>2. ASSUME NEW j \in EffectKeys PROVE EffectHeld(j)'
      <3>1. \A e \in Dispatchers : Handles(e, j)' <=> (e # d /\ Handles(e, j))
        BY DEF Handles, Idle
      <3> QED  BY <3>1 DEF EffectHeld, Handles, Idle, Dispatcher
    <2> QED  BY <2>1, <2>2
  <1>8. ASSUME NEW k \in EffectKeys, NEW c \in Cursors, HostPersists(k, c) PROVE EffectsInv'
    <2> USE <1>8 DEF HostPersists, Persists, Checkpointed
    <2>1. EffectsTypeOK'
      OBVIOUS
    <2>2. ASSUME NEW j \in EffectKeys PROVE EffectHeld(j)'
      BY DEF EffectHeld, Handles, Idle, Dispatcher
    <2> QED  BY <2>1, <2>2
  <1> QED
    BY <1>1, <1>2, <1>3, <1>4, <1>5, <1>6, <1>7, <1>8 DEF EffectsNext, missionVars, effectVars

\* An effect runs at most once, and a call that returned has left the
\* continuation it named, whatever becomes of the calls.
THEOREM EffectsRunOnce == MissionSpec => []ReturnedIsCheckpointed
  <1>1. EffectsInv => ReturnedIsCheckpointed
    BY DEF EffectsInv, EffectsTypeOK, EffectHeld, Handles, ReturnedIsCheckpointed, Dispatcher, Idle
  <1>2. EffectsInv /\ [StepsNext \/ EffectsNext]_missionVars => EffectsInv'
    BY EffectsStep
  <1> QED  BY <1>1, <1>2, EffectsBegin, PTL DEF MissionSpec


\* The progress of an effect is that of its rows and of the call that claims it.
LEMMA ProgressStays ==
    ASSUME NEW k \in EffectKeys, reservation'[k] = reservation[k], executed'[k] = executed[k],
           \A d \in Dispatchers : ClaimedBy(d, k)' <=> ClaimedBy(d, k)
    PROVE  EffectProgress(k)' = EffectProgress(k)
  <1>1. (\E d \in Dispatchers : ClaimedBy(d, k)') <=> (\E d \in Dispatchers : ClaimedBy(d, k))
    OBVIOUS
  <1> QED  BY <1>1 DEF EffectProgress

\* A move of one effect is a step of OneShot if it is one of these.
LEMMA EffectMoves ==
    ASSUME NEW k \in EffectKeys,
           \A j \in EffectKeys \ {k} : EffectProgress(j)' = EffectProgress(j),
           \/ EffectProgress(k)' = EffectProgress(k) /\ executed' = executed
           \/ EffectProgress(k) = "open" /\ EffectProgress(k)' = "claimed" /\ executed' = executed
           \/ EffectProgress(k) = "claimed" /\ EffectProgress(k)' = "running"
              /\ executed' = [executed EXCEPT ![k] = @ + 1]
           \/ EffectProgress(k) = "running" /\ EffectProgress(k)' = "answered" /\ executed' = executed
           \/ EffectProgress(k) = "claimed" /\ EffectProgress(k)' = "lost" /\ executed' = executed
    PROVE  [EffectShots!OneShotNext]_(EffectShots!oneShotVars)
  <1> DEFINE P == [j \in EffectKeys |-> EffectProgress(j)]
  <1>1. P[k] = EffectProgress(k) /\ P' = [P EXCEPT ![k] = EffectProgress(k)']
    OBVIOUS
  <1>2. CASE EffectProgress(k)' = EffectProgress(k) /\ executed' = executed
    <2>1. P' = P
      BY <1>2
    <2> QED  BY <1>2, <2>1 DEF EffectShots!oneShotVars
  <1>3. CASE EffectProgress(k) = "open" /\ EffectProgress(k)' = "claimed" /\ executed' = executed
    BY <1>1, <1>3 DEF EffectShots!OneShotNext, EffectShots!Claimed, EffectShots!Goes
  <1>4. CASE EffectProgress(k) = "claimed" /\ EffectProgress(k)' = "running"
             /\ executed' = [executed EXCEPT ![k] = @ + 1]
    BY <1>1, <1>4 DEF EffectShots!OneShotNext, EffectShots!Runs, EffectShots!Goes
  <1>5. CASE EffectProgress(k) = "running" /\ EffectProgress(k)' = "answered" /\ executed' = executed
    BY <1>1, <1>5 DEF EffectShots!OneShotNext, EffectShots!Answered, EffectShots!Goes
  <1>6. CASE EffectProgress(k) = "claimed" /\ EffectProgress(k)' = "lost" /\ executed' = executed
    BY <1>1, <1>6 DEF EffectShots!OneShotNext, EffectShots!Lost, EffectShots!Goes
  <1> QED  BY <1>2, <1>3, <1>4, <1>5, <1>6

\* Each step of a call moves the effect it handles, and no other.
LEMMA EffectsShoot ==
    ASSUME EffectsInv, EffectsNext
    PROVE  [EffectShots!OneShotNext]_(EffectShots!oneShotVars)
  <1> USE DEF EffectsInv, EffectsTypeOK
  <1>1. ASSUME NEW d \in Dispatchers, NEW k \in EffectKeys, NEW m, NEW c, BeginDispatch(d, k, m, c)
        PROVE  [EffectShots!OneShotNext]_(EffectShots!oneShotVars)
    <2>1. /\ dispatcher[d] = Idle /\ reservation[k].state = "NONE" /\ executed' = executed
          /\ reservation' = [reservation EXCEPT ![k] = [state |-> "RESERVED", cursor |-> "none"]]
          /\ dispatcher' = [dispatcher EXCEPT ![d] = [at |-> "reserved", key |-> k]]
      BY <1>1 DEF BeginDispatch, Reserves
    <2>2. \A e \in Dispatchers, j \in EffectKeys :
            ClaimedBy(e, j)' <=> IF e = d THEN j = k ELSE ClaimedBy(e, j)
      BY <2>1 DEF ClaimedBy
    <2>3. \A j \in EffectKeys : ~ClaimedBy(d, j)
      BY <2>1 DEF ClaimedBy, Idle
    <2>4. \A j \in EffectKeys \ {k} : EffectProgress(j)' = EffectProgress(j)
      BY <2>1, <2>2, <2>3, ProgressStays
    <2>5. EffectProgress(k) = "open"
      BY <2>1 DEF EffectProgress
    <2>6. executed[k] = 0
      BY <2>1 DEF EffectHeld
    <2>7. EffectProgress(k)' = "claimed"
      BY <2>1, <2>2, <2>6 DEF EffectProgress
    <2> QED  BY <2>1, <2>4, <2>5, <2>7, EffectMoves
  <1>2. ASSUME NEW d \in Dispatchers, Execute(d)
        PROVE  [EffectShots!OneShotNext]_(EffectShots!oneShotVars)
    <2>0. dispatcher[d] \in [at : {"reserved"}, key : EffectKeys]
      BY <1>2 DEF Execute, Dispatcher, Idle
    <2>1. PICK k \in EffectKeys : dispatcher[d] = [at |-> "reserved", key |-> k]
      BY <2>0
    <2>2. /\ reservation' = reservation /\ executed' = [executed EXCEPT ![k] = @ + 1]
          /\ dispatcher'[d].at = "executed"
          /\ \A e \in Dispatchers \ {d} : dispatcher'[e] = dispatcher[e]
      <3>1. dispatcher[d].key = k
        BY <2>1
      <3> QED  BY <1>2, <2>0, <3>1 DEF Execute
    <2>3. /\ Handles(d, k) /\ ClaimedBy(d, k) /\ executed[k] = 0
          /\ reservation[k].state = "RESERVED"
      BY <2>1 DEF Handles, ClaimedBy, EffectHeld
    <2>4. \A j \in EffectKeys \ {k}, e \in Dispatchers : ClaimedBy(e, j)' <=> ClaimedBy(e, j)
      BY <2>1, <2>2 DEF ClaimedBy
    <2>5. \A j \in EffectKeys \ {k} : EffectProgress(j)' = EffectProgress(j)
      BY <2>2, <2>4, ProgressStays
    <2>6. EffectProgress(k) = "claimed" /\ EffectProgress(k)' = "running"
      BY <2>2, <2>3 DEF EffectProgress
    <2> QED  BY <2>2, <2>5, <2>6, EffectMoves
  <1>3. ASSUME NEW k \in EffectKeys, NEW c, executed[k] = 1, executed' = executed,
               reservation' = Checkpointed(k, c),
               \A j \in EffectKeys, e \in Dispatchers : ClaimedBy(e, j)' <=> ClaimedBy(e, j)
        PROVE  [EffectShots!OneShotNext]_(EffectShots!oneShotVars)
    <2>1. reservation' = [reservation EXCEPT ![k] = [state |-> "CHECKPOINTED", cursor |-> c]]
      BY <1>3 DEF Checkpointed
    <2>2. \A j \in EffectKeys \ {k} : EffectProgress(j)' = EffectProgress(j)
      BY <1>3, <2>1, ProgressStays
    <2>3. EffectProgress(k)' = "answered"
      BY <2>1 DEF EffectProgress
    <2>4. EffectProgress(k) \in {"running", "answered"}
      BY <1>3 DEF EffectProgress, EffectHeld
    <2> QED  BY <1>3, <2>2, <2>3, <2>4, EffectMoves
  <1>4. ASSUME NEW d \in Dispatchers, NEW c \in Cursors, PersistDispatch(d, c)
        PROVE  [EffectShots!OneShotNext]_(EffectShots!oneShotVars)
    <2>0. dispatcher[d] \in [at : {"executed"}, key : EffectKeys]
      BY <1>4 DEF PersistDispatch, Dispatcher, Idle
    <2>1. PICK k \in EffectKeys : dispatcher[d] = [at |-> "executed", key |-> k]
      BY <2>0
    <2>2. /\ reservation' = Checkpointed(k, c) /\ executed' = executed
          /\ dispatcher' = [dispatcher EXCEPT ![d] = [at |-> "persisted", key |-> k, cursor |-> c]]
      BY <1>4, <2>1 DEF PersistDispatch
    <2>3. executed[k] = 1
      BY <2>1 DEF EffectHeld, Handles
    <2>4. \A j \in EffectKeys, e \in Dispatchers : ClaimedBy(e, j)' <=> ClaimedBy(e, j)
      BY <2>1, <2>2 DEF ClaimedBy
    <2> QED  BY <1>3, <2>2, <2>3, <2>4
  <1>5. ASSUME NEW k \in EffectKeys, NEW c \in Cursors, HostPersists(k, c)
        PROVE  [EffectShots!OneShotNext]_(EffectShots!oneShotVars)
    <2>1. reservation' = Checkpointed(k, c) /\ executed' = executed /\ dispatcher' = dispatcher
      BY <1>5 DEF HostPersists
    <2>2. executed[k] = 1
      BY <1>5 DEF HostPersists, EffectHeld
    <2>3. \A j \in EffectKeys, e \in Dispatchers : ClaimedBy(e, j)' <=> ClaimedBy(e, j)
      BY <2>1 DEF ClaimedBy
    <2> QED  BY <1>3, <2>1, <2>2, <2>3
  <1>6. ASSUME NEW d \in Dispatchers, ReturnDispatch(d)
        PROVE  [EffectShots!OneShotNext]_(EffectShots!oneShotVars)
    <2>1. /\ reservation' = reservation /\ executed' = executed
          /\ dispatcher[d].at = "persisted"
          /\ dispatcher' = [dispatcher EXCEPT ![d].at = "returned"]
      BY <1>6 DEF ReturnDispatch
    <2>2. \A j \in EffectKeys, e \in Dispatchers : ClaimedBy(e, j)' <=> ClaimedBy(e, j)
      <3>1. ASSUME NEW e \in Dispatchers, e # d PROVE dispatcher'[e] = dispatcher[e]
        BY <2>1, <3>1
      <3>2. dispatcher[d] \in [at : {"persisted"}, key : EffectKeys, cursor : Cursors]
        BY <2>1 DEF Dispatcher, Idle
      <3>3. dispatcher'[d].at = "returned"
        BY <2>1, <3>2
      <3> QED  BY <2>1, <3>1, <3>3 DEF ClaimedBy
    <2>3. \A j \in EffectKeys : EffectProgress(j)' = EffectProgress(j)
      BY <2>1, <2>2, ProgressStays
    <2>4. [j \in EffectKeys |-> EffectProgress(j)]' = [j \in EffectKeys |-> EffectProgress(j)]
      BY <2>3
    <2> QED  BY <2>1, <2>4 DEF EffectShots!oneShotVars
  <1>7. ASSUME NEW d \in Dispatchers, DispatchFails(d)
        PROVE  [EffectShots!OneShotNext]_(EffectShots!oneShotVars)
    <2>1. /\ reservation' = reservation /\ executed' = executed
          /\ dispatcher[d].at \in {"reserved", "executed", "persisted"}
          /\ dispatcher' = [dispatcher EXCEPT ![d] = Idle]
      BY <1>7 DEF DispatchFails
    <2>2. PICK k \in EffectKeys : dispatcher[d].key = k
      BY <2>1 DEF Dispatcher, Idle
    <2>3. \A j \in EffectKeys, e \in Dispatchers : ClaimedBy(e, j)' <=> e # d /\ ClaimedBy(e, j)
      BY <2>1 DEF ClaimedBy, Idle
    <2>4. \A j \in EffectKeys \ {k} : ~ClaimedBy(d, j)
      BY <2>2 DEF ClaimedBy
    <2>5. \A j \in EffectKeys \ {k} : EffectProgress(j)' = EffectProgress(j)
      BY <2>1, <2>3, <2>4, ProgressStays
    <2>6. CASE dispatcher[d].at = "reserved"
      <3>1. Handles(d, k) /\ ClaimedBy(d, k)
        BY <2>2, <2>6 DEF Handles, ClaimedBy
      <3>2. executed[k] = 0 /\ reservation[k].state = "RESERVED"
        BY <2>6, <3>1 DEF EffectHeld
      <3>3. \A e \in Dispatchers : ClaimedBy(e, k) => e = d
        BY <3>1 DEF EffectHeld, Handles, ClaimedBy
      <3>4. EffectProgress(k) = "claimed" /\ EffectProgress(k)' = "lost"
        BY <2>1, <2>3, <3>1, <3>2, <3>3 DEF EffectProgress
      <3> QED  BY <2>1, <2>5, <3>4, EffectMoves
    <2>7. CASE dispatcher[d].at # "reserved"
      <3>1. ~ClaimedBy(d, k)
        BY <2>7 DEF ClaimedBy
      <3>2. EffectProgress(k)' = EffectProgress(k)
        BY <2>1, <2>3, <3>1, ProgressStays
      <3> QED  BY <2>1, <2>5, <3>2, EffectMoves
    <2> QED  BY <2>6, <2>7
  <1> QED
    BY <1>1, <1>2, <1>4, <1>5, <1>6, <1>7 DEF EffectsNext

\* Connector effects implement OneShot: for any calls, keys and hosts, a key
\* is reserved once, its effect runs once, and it is checkpointed or lost for
\* good.
THEOREM EffectIsOneShot == MissionSpec => EffectsAreOneShot
  <1>1. EffectsInit => EffectShots!OneShotInit
    BY DEF EffectsInit, EffectShots!OneShotInit, EffectProgress, Unreserved
  <1>2. EffectsInv /\ [StepsNext \/ EffectsNext]_missionVars
          => [EffectShots!OneShotNext]_(EffectShots!oneShotVars)
    <2> SUFFICES ASSUME EffectsInv, [StepsNext \/ EffectsNext]_missionVars
                 PROVE  [EffectShots!OneShotNext]_(EffectShots!oneShotVars)
      OBVIOUS
    <2>1. CASE StepsNext \/ UNCHANGED missionVars
      <3>1. UNCHANGED effectVars
        BY <2>1 DEF missionVars, StepsNext, BeginResume, ReadStep, ApplyStep, ClaimStep, SendStep,
                    AgentDies, BeginRearm, Rearm, ProviderSettles
      <3> QED
        BY <3>1 DEF effectVars, EffectShots!oneShotVars, EffectProgress, ClaimedBy
    <2> QED  BY <2>1, EffectsShoot
  <1>3. EffectsInv /\ [StepsNext \/ EffectsNext]_missionVars => EffectsInv'
    BY EffectsStep
  <1> QED
    BY <1>1, <1>2, <1>3, EffectsBegin, PTL DEF MissionSpec, EffectsAreOneShot, EffectShots!OneShotSpec

-----------------------------------------------------------------------------
(* Steps of the mission.                                                    *)
Rows == [state : {"READY", "IN_FLIGHT", "NEEDS_PROOF", "VERIFIED_STEP"},
         by : Agents \cup {Free}, revision : Nat]
Seen == [task : Steps, row : Rows]
Told == {"receipt", "none", "error"}

AgentState ==
    {Idle}
    \cup [at : {"reconcile"}, unreadable : SUBSET Steps, snapshot : SUBSET Seen]
    \cup [at : {"apply"}, unreadable : SUBSET Steps, snapshot : SUBSET Seen, read : Seen, answer : Told]
    \cup [at : {"claimed"}, task : Steps]
    \cup [at : {"rearm"}, task : Steps, revision : Nat, answer : Told]

StepsTypeOK ==
    /\ taskRow \in [Steps -> Rows] /\ agent \in [Agents -> AgentState]
    /\ sent \in [Steps -> Nat] /\ underway \in [Steps -> Nat] /\ landed \in [Steps -> Nat]

Claimed(a, t) == agent[a].at = "claimed" /\ agent[a].task = t

\* A step the provider does not protect is claimed by at most one agent and
\* only before it is sent, and what was claimed or sent is never ready again.
SentOnce(t) ==
    t \notin ReplaySafe =>
      /\ sent[t] <= 1
      /\ taskRow[t].state = "READY" => sent[t] = 0
      /\ \A a \in Agents : Claimed(a, t) =>
           /\ taskRow[t].state # "READY" /\ sent[t] = 0
           /\ \A b \in Agents : Claimed(b, t) => b = a

\* Every effect was sent for, and a provider that protects a step has one.
LandsOnce(t) ==
    /\ t \notin ReplaySafe => landed[t] + underway[t] <= sent[t]
    /\ t \in ReplaySafe => landed[t] <= 1

\* What was claimed or sent had its dependencies verified.
InOrder(t) ==
    /\ sent[t] > 0 => Deps[t] \subseteq Verified
    /\ \A a \in Agents : Claimed(a, t) => Deps[t] \subseteq Verified

\* A receipt that an agent still has to apply is of an effect.
ReceiptsTrue(a) ==
    /\ agent[a].at = "apply" /\ agent[a].answer = "receipt" => landed[agent[a].read.task] > 0
    /\ agent[a].at = "rearm" =>
         /\ agent[a].task \in ReplaySafe
         /\ agent[a].answer = "receipt" => landed[agent[a].task] > 0

StepHeld(t) ==
    /\ SentOnce(t) /\ LandsOnce(t) /\ InOrder(t)
    /\ taskRow[t].state = "VERIFIED_STEP" => landed[t] > 0

StepsInv ==
    /\ StepsTypeOK
    /\ \A t \in Steps : StepHeld(t)
    /\ \A a \in Agents : ReceiptsTrue(a)

LEMMA StepsBegin == StepsInit => StepsInv
  <1> SUFFICES ASSUME StepsInit PROVE StepsInv
    OBVIOUS
  <1> USE DEF StepsInit
  <1>1. StepsTypeOK
    BY DEF StepsTypeOK, Rows, AgentState
  <1>2. \A t \in Steps : StepHeld(t)
    BY DEF StepHeld, SentOnce, LandsOnce, InOrder, Claimed, Idle
  <1>3. \A a \in Agents : ReceiptsTrue(a)
    BY DEF ReceiptsTrue, Idle
  <1> QED  BY <1>1, <1>2, <1>3 DEF StepsInv

\* An agent that goes on to something other than a claim or a receipt disturbs
\* no step.
LEMMA AgentTurns ==
    ASSUME StepsInv, NEW a \in Agents, NEW s \in AgentState,
           agent' = [agent EXCEPT ![a] = s], s.at # "claimed",
           UNCHANGED <<taskRow, sent, underway, landed>>,
           s.at = "apply" /\ s.answer = "receipt" => landed[s.read.task] > 0,
           s.at = "rearm" => /\ s.task \in ReplaySafe
                             /\ s.answer = "receipt" => landed[s.task] > 0
    PROVE  StepsInv'
  <1> USE DEF StepsInv, StepsTypeOK
  <1>1. \A b \in Agents, t \in Steps : Claimed(b, t)' => Claimed(b, t)
    BY DEF Claimed
  <1>2. StepsTypeOK'
    OBVIOUS
  <1>3. \A t \in Steps : StepHeld(t)'
    BY <1>1 DEF StepHeld, SentOnce, LandsOnce, InOrder, Verified
  <1>4. \A b \in Agents : ReceiptsTrue(b)'
    BY DEF ReceiptsTrue
  <1> QED  BY <1>2, <1>3, <1>4

\* A row that is given back, verified on a receipt or left alone, while one
\* agent moves on to something other than a claim.
LEMMA RowMoves ==
    ASSUME StepsInv, NEW a \in Agents, NEW t \in Steps, NEW r \in Rows, NEW s \in AgentState,
           taskRow' = [taskRow EXCEPT ![t] = r], agent' = [agent EXCEPT ![a] = s],
           s.at \in {"idle", "reconcile"}, UNCHANGED <<sent, underway, landed>>,
           r.state = "READY" => taskRow[t].state = "READY" \/ t \in ReplaySafe,
           r.state = "VERIFIED_STEP" => landed[t] > 0,
           taskRow[t].state = "VERIFIED_STEP" => r.state = "VERIFIED_STEP"
    PROVE  StepsInv'
  <1> USE DEF StepsInv, StepsTypeOK
  <1>1. \A b \in Agents, u \in Steps : Claimed(b, u)' => Claimed(b, u)
    BY DEF Claimed
  <1>2. Verified \subseteq Verified'
    BY DEF Verified
  <1>3. StepsTypeOK'
    OBVIOUS
  <1>4. ASSUME NEW u \in Steps PROVE StepHeld(u)'
    <2>1. SentOnce(u)'
      BY <1>1 DEF StepHeld, SentOnce
    <2>2. LandsOnce(u)'
      BY DEF StepHeld, LandsOnce
    <2>3. InOrder(u)'
      BY <1>1, <1>2 DEF StepHeld, InOrder
    <2> QED  BY <2>1, <2>2, <2>3 DEF StepHeld
  <1>5. \A b \in Agents : ReceiptsTrue(b)'
    BY DEF ReceiptsTrue
  <1> QED  BY <1>3, <1>4, <1>5

LEMMA MovedIsRow ==
    ASSUME NEW r \in Rows, NEW by \in Agents \cup {Free},
           NEW s \in {"READY", "IN_FLIGHT", "NEEDS_PROOF", "VERIFIED_STEP"}
    PROVE  TaskMoved(r, s, by) \in Rows /\ TaskMoved(r, s, by).state = s
  BY DEF TaskMoved, Rows

LEMMA StepsStep ==
    ASSUME StepsInv, [StepsNext \/ EffectsNext]_missionVars
    PROVE  StepsInv'
  <1> USE DEF StepsInv, StepsTypeOK
  <1>1. CASE UNCHANGED stepVars
    BY <1>1 DEF stepVars, StepHeld, SentOnce, LandsOnce, InOrder, Claimed, Verified, ReceiptsTrue
  <1>2. CASE EffectsNext
    <2>1. UNCHANGED stepVars
      BY <1>2 DEF EffectsNext, BeginDispatch, Execute, PersistDispatch, ReturnDispatch, DispatchFails, HostPersists
    <2> QED  BY <2>1, <1>1
  <1>3. ASSUME NEW a \in Agents, BeginResume(a) PROVE StepsInv'
    <2> DEFINE s == [at |-> "reconcile", unreadable |-> {},
                     snapshot |-> {[task |-> t, row |-> taskRow[t]] :
                                     t \in {u \in Steps : taskRow[u].state # "VERIFIED_STEP"}}]
    <2>1. s \in AgentState
      BY DEF AgentState, Seen
    <2>2. agent' = [agent EXCEPT ![a] = s] /\ UNCHANGED <<taskRow, sent, underway, landed>>
      BY <1>3 DEF BeginResume
    <2>3. s.at = "reconcile"
      OBVIOUS
    <2> HIDE DEF s
    <2> QED  BY <2>1, <2>2, <2>3, AgentTurns
  <1>4. ASSUME NEW a \in Agents, ReadStep(a) PROVE StepsInv'
    <2>1. agent[a] \in [at : {"reconcile"}, unreadable : SUBSET Steps, snapshot : SUBSET Seen]
      BY <1>4 DEF ReadStep, AgentState, Idle
    <2>2. PICK p \in agent[a].snapshot : \E answer \in Answers(p.task) :
             agent' = [agent EXCEPT ![a] =
               [at |-> "apply", unreadable |-> agent[a].unreadable,
                snapshot |-> agent[a].snapshot \ {p}, read |-> p, answer |-> answer]]
      BY <1>4, <2>1 DEF ReadStep
    <2>7. PICK answer \in Answers(p.task) :
             agent' = [agent EXCEPT ![a] =
               [at |-> "apply", unreadable |-> agent[a].unreadable,
                snapshot |-> agent[a].snapshot \ {p}, read |-> p, answer |-> answer]]
      BY <2>2
    <2> DEFINE s == [at |-> "apply", unreadable |-> agent[a].unreadable,
                     snapshot |-> agent[a].snapshot \ {p}, read |-> p, answer |-> answer]
    <2>3. s \in AgentState /\ s.at = "apply" /\ s.answer = answer /\ s.read = p
      BY <2>1 DEF AgentState, Told, Answers
    <2>4. answer = "receipt" => landed[p.task] > 0
      BY DEF Answers
    <2>5. agent' = [agent EXCEPT ![a] = s] /\ UNCHANGED <<taskRow, sent, underway, landed>>
      BY <1>4, <2>7 DEF ReadStep
    <2> HIDE DEF s
    <2> QED  BY <2>3, <2>4, <2>5, AgentTurns
  <1>5. ASSUME NEW a \in Agents, ApplyStep(a) PROVE StepsInv'
    <2>1. agent[a] \in [at : {"apply"}, unreadable : SUBSET Steps, snapshot : SUBSET Seen,
                        read : Seen, answer : Told]
      BY <1>5 DEF ApplyStep, AgentState, Idle
    <2> DEFINE t == agent[a].read.task
               r == Reconciled(agent[a].read.row, taskRow[t], agent[a].answer)
               s == [at |-> "reconcile", snapshot |-> agent[a].snapshot,
                     unreadable |-> agent[a].unreadable
                                      \cup (IF agent[a].answer = "error" THEN {t} ELSE {})]
    <2>2. t \in Steps /\ taskRow[t] \in Rows
      BY <2>1 DEF Seen
    <2>3. /\ r \in Rows
          /\ r.state = "READY" => taskRow[t].state = "READY"
          /\ taskRow[t].state = "VERIFIED_STEP" => r.state = "VERIFIED_STEP"
          /\ r.state = "VERIFIED_STEP" => taskRow[t].state = "VERIFIED_STEP" \/ agent[a].answer = "receipt"
      BY <2>2, MovedIsRow DEF Reconciled, Rows
    <2>4. r.state = "VERIFIED_STEP" => landed[t] > 0
      BY <2>1, <2>2, <2>3 DEF ReceiptsTrue, StepHeld
    <2>5. s \in AgentState /\ s.at = "reconcile"
      BY <2>1, <2>2 DEF AgentState
    <2>6. /\ taskRow' = [taskRow EXCEPT ![t] = r] /\ agent' = [agent EXCEPT ![a] = s]
          /\ UNCHANGED <<sent, underway, landed>>
      BY <1>5, <2>1 DEF ApplyStep
    <2> HIDE DEF r, s, t
    <2> QED  BY <2>2, <2>3, <2>4, <2>5, <2>6, RowMoves
  <1>6. ASSUME NEW a \in Agents, ClaimStep(a) PROVE StepsInv'
    <2>1. CASE agent' = [agent EXCEPT ![a] = Idle] /\ UNCHANGED taskRow
      <3>1. Idle \in AgentState /\ Idle.at = "idle"
        BY DEF AgentState, Idle
      <3> QED  BY <3>1, <2>1, <1>6, AgentTurns DEF ClaimStep
    <2>2. ASSUME NEW t \in Claimables(a), taskRow' = [taskRow EXCEPT ![t] = TaskMoved(@, "IN_FLIGHT", a)],
                 agent' = [agent EXCEPT ![a] = [at |-> "claimed", task |-> t]]
          PROVE  StepsInv'
      <3>0. t \in Steps /\ taskRow[t].state = "READY" /\ Deps[t] \subseteq Verified
        BY DEF Claimables
      <3>1. TaskMoved(taskRow[t], "IN_FLIGHT", a) \in Rows /\ TaskMoved(taskRow[t], "IN_FLIGHT", a).state = "IN_FLIGHT"
        BY <3>0, MovedIsRow
      <3>2. UNCHANGED <<sent, underway, landed>> /\ agent[a].at = "reconcile"
        BY <1>6 DEF ClaimStep
      <3>3. StepsTypeOK'
        BY <2>2, <3>0, <3>1, <3>2 DEF AgentState
      <3>4. \A b \in Agents, u \in Steps : Claimed(b, u)' => Claimed(b, u) \/ (b = a /\ u = t)
        BY <2>2, <3>2 DEF Claimed
      <3>5. Verified' = Verified
        BY <2>2, <3>0, <3>1 DEF Verified
      <3>6. ASSUME NEW u \in Steps PROVE StepHeld(u)'
        <4>1. SentOnce(u)'
          BY <2>2, <3>0, <3>1, <3>2, <3>4 DEF StepHeld, SentOnce
        <4>2. LandsOnce(u)'
          BY <3>2 DEF StepHeld, LandsOnce
        <4>3. InOrder(u)'
          BY <3>0, <3>2, <3>4, <3>5 DEF StepHeld, InOrder
        <4> QED  BY <4>1, <4>2, <4>3, <2>2, <3>0, <3>1, <3>2 DEF StepHeld
      <3>7. \A b \in Agents : ReceiptsTrue(b)'
        BY <2>2, <3>2 DEF ReceiptsTrue
      <3> QED  BY <3>3, <3>6, <3>7
    <2> QED  BY <1>6, <2>1, <2>2 DEF ClaimStep
  <1>7. ASSUME NEW a \in Agents, SendStep(a) PROVE StepsInv'
    <2> DEFINE t == agent[a].task
    <2>1. t \in Steps /\ Claimed(a, t)
      BY <1>7 DEF SendStep, Claimed, AgentState, Idle
    <2>2. /\ sent' = [sent EXCEPT ![t] = @ + 1] /\ underway' = [underway EXCEPT ![t] = @ + 1]
          /\ agent' = [agent EXCEPT ![a] = Idle] /\ UNCHANGED <<taskRow, landed>>
      BY <1>7 DEF SendStep
    <2> HIDE DEF t
    <2>3. StepsTypeOK'
      BY <2>1, <2>2 DEF AgentState
    <2>4. \A b \in Agents, u \in Steps : Claimed(b, u)' => Claimed(b, u) /\ b # a
      BY <2>2 DEF Claimed, Idle
    <2>5. ASSUME NEW u \in Steps PROVE StepHeld(u)'
      <3>1. SentOnce(u)'
        BY <2>1, <2>2, <2>4 DEF StepHeld, SentOnce
      <3>2. LandsOnce(u)'
        BY <2>1, <2>2 DEF StepHeld, LandsOnce
      <3>3. InOrder(u)'
        BY <2>1, <2>2, <2>4 DEF StepHeld, InOrder, Verified
      <3> QED  BY <3>1, <3>2, <3>3, <2>2 DEF StepHeld
    <2>6. \A b \in Agents : ReceiptsTrue(b)'
      BY <2>2 DEF ReceiptsTrue, Idle
    <2> QED  BY <2>3, <2>5, <2>6
  <1>8. ASSUME NEW a \in Agents, AgentDies(a) PROVE StepsInv'
    <2>1. Idle \in AgentState /\ Idle.at = "idle"
      BY DEF AgentState, Idle
    <2> QED  BY <2>1, <1>8, AgentTurns DEF AgentDies
  <1>9. ASSUME NEW t \in Steps, ProviderSettles(t) PROVE StepsInv'
    <2>1. /\ underway' = [underway EXCEPT ![t] = @ - 1] /\ UNCHANGED <<taskRow, agent, sent>>
          /\ landed' \in {landed, [landed EXCEPT ![t] = IF t \in ReplaySafe THEN 1 ELSE @ + 1]}
          /\ underway[t] > 0
      BY <1>9 DEF ProviderSettles
    <2>2. StepsTypeOK'
      BY <2>1
    <2>3. \A u \in Steps : landed[u] > 0 => landed'[u] > 0
      BY <2>1
    <2>4. ASSUME NEW u \in Steps PROVE StepHeld(u)'
      <3>1. SentOnce(u)'
        BY <2>1 DEF StepHeld, SentOnce, Claimed
      <3>2. LandsOnce(u)'
        BY <2>1 DEF StepHeld, LandsOnce
      <3>3. InOrder(u)'
        BY <2>1 DEF StepHeld, InOrder, Verified, Claimed
      <3> QED  BY <3>1, <3>2, <3>3, <2>1, <2>3 DEF StepHeld
    <2>5. ASSUME NEW b \in Agents PROVE ReceiptsTrue(b)'
      <3>1. agent[b].at = "apply" => agent[b].read.task \in Steps
        BY DEF AgentState, Idle, Seen
      <3>2. agent[b].at = "rearm" => agent[b].task \in Steps
        BY DEF AgentState, Idle
      <3> QED  BY <2>1, <2>3, <3>1, <3>2 DEF ReceiptsTrue
    <2> QED  BY <2>2, <2>4, <2>5
  <1>10. ASSUME NEW a \in Agents, NEW t \in Steps, BeginRearm(a, t) PROVE StepsInv'
    <2>1. PICK answer \in Answers(t) \ {"error"} :
            agent' = [agent EXCEPT ![a] =
              [at |-> "rearm", task |-> t, revision |-> taskRow[t].revision, answer |-> answer]]
      BY <1>10 DEF BeginRearm
    <2> DEFINE s == [at |-> "rearm", task |-> t, revision |-> taskRow[t].revision, answer |-> answer]
    <2>2. s \in AgentState /\ s.at = "rearm" /\ s.task = t /\ s.answer = answer
      BY DEF AgentState, Told, Answers, Rows
    <2>3. answer = "receipt" => landed[t] > 0
      BY DEF Answers
    <2>4. /\ agent' = [agent EXCEPT ![a] = s] /\ UNCHANGED <<taskRow, sent, underway, landed>>
          /\ t \in ReplaySafe
      BY <1>10, <2>1 DEF BeginRearm
    <2> HIDE DEF s
    <2> QED  BY <2>2, <2>3, <2>4, AgentTurns
  <1>11. ASSUME NEW a \in Agents, Rearm(a) PROVE StepsInv'
    <2>1. agent[a] \in [at : {"rearm"}, task : Steps, revision : Nat, answer : Told]
      BY <1>11 DEF Rearm, AgentState, Idle
    <2> DEFINE t == agent[a].task
               r == Rearmed(taskRow[t], agent[a].revision, agent[a].answer)
    <2>2. t \in Steps /\ taskRow[t] \in Rows /\ t \in ReplaySafe
      BY <2>1 DEF ReceiptsTrue
    <2>3. /\ r \in Rows
          /\ taskRow[t].state = "VERIFIED_STEP" => r.state = "VERIFIED_STEP"
          /\ r.state = "VERIFIED_STEP" => taskRow[t].state = "VERIFIED_STEP" \/ agent[a].answer = "receipt"
      BY <2>2, MovedIsRow DEF Rearmed
    <2>4. r.state = "VERIFIED_STEP" => landed[t] > 0
      BY <2>1, <2>2, <2>3 DEF ReceiptsTrue, StepHeld
    <2>5. Idle \in AgentState /\ Idle.at = "idle"
      BY DEF AgentState, Idle
    <2>6. /\ taskRow' = [taskRow EXCEPT ![t] = r] /\ agent' = [agent EXCEPT ![a] = Idle]
          /\ UNCHANGED <<sent, underway, landed>>
      BY <1>11 DEF Rearm
    <2> HIDE DEF r, t
    <2> QED  BY <2>2, <2>3, <2>4, <2>5, <2>6, RowMoves
  <1> QED
    BY <1>1, <1>2, <1>3, <1>4, <1>5, <1>6, <1>7, <1>8, <1>9, <1>10, <1>11
       DEF StepsNext, missionVars

\* Whatever agents die, overlap or read late: a step is sent once unless its
\* provider refuses repeats, after its dependencies, and verified on its effect.
THEOREM StepsAreSentOnce == MissionSpec => []StepsHappenOnce
  <1>1. StepsInv => StepsHappenOnce
    BY DEF StepsInv, StepsTypeOK, StepHeld, SentOnce, LandsOnce, InOrder, Verified, StepsHappenOnce
  <1>2. StepsInv /\ [StepsNext \/ EffectsNext]_missionVars => StepsInv'
    BY StepsStep
  <1> QED  BY <1>1, <1>2, StepsBegin, PTL DEF MissionSpec

-----------------------------------------------------------------------------
(* The operation journal.                                                   *)
OperationStates ==
    {"none", "queued", "running", "verified", "uncertain", "retryable", "needs_reconciliation"}

CoreTypeOK ==
    /\ runner = [p \in Runners |-> runner[p]]
    /\ operation \in [state : OperationStates, tried : BOOLEAN, lease : {"none", "live", "over"}]
    /\ executions \in Nat /\ idempotent \in BOOLEAN
    /\ \A p \in Runners : runner[p].at = "finish" => runner[p].state \in OperationStates

\* An effect that cannot be repeated is executed by the one call that found
\* the row untried, and never after a readback.
TriedOnce ==
    ~idempotent =>
      /\ executions <= 1
      /\ executions > 0 => operation.tried
      /\ \A p \in Runners : runner[p].at # "redispatch"
      /\ \A p \in Runners : runner[p].at = "execute" =>
           /\ operation.tried /\ executions = 0
           /\ \A q \in Runners : runner[q].at = "execute" => q = p

CoreInv == CoreTypeOK /\ TriedOnce

LEMMA CoreBegins == CoreInit => CoreInv
  BY DEF CoreInit, CoreInv, CoreTypeOK, TriedOnce, Unsubmitted, AtRest, OperationStates

LEMMA FirstTransactions ==
    ASSUME CoreInv, NEW p \in Runners, NEW r, FirstTransaction(p, r), UNCHANGED executions
    PROVE  CoreInv'
  <1> USE DEF CoreInv, CoreTypeOK
  <1> DEFINE next == IF operation.state = "verified" THEN "recheck"
                     ELSE IF Leased THEN "status"
                     ELSE IF NeedsReadback(operation) THEN "reverify"
                     ELSE "execute"
  <1>1. /\ runner' = [runner EXCEPT ![p] = To(r, next)] /\ UNCHANGED <<idempotent, executions>>
        /\ operation' = IF runner'[p].at = "execute" THEN Dispatched ELSE operation
    BY DEF FirstTransaction
  <1>2. next \in {"recheck", "status", "reverify", "execute"} /\ (next = "execute" => ~operation.tried)
    BY DEF NeedsReadback
  <1> HIDE DEF next
  <1>3. /\ runner'[p].at = next /\ \A q \in Runners \ {p} : runner'[q] = runner[q]
        /\ runner' = [q \in Runners |-> runner'[q]]
    BY <1>1 DEF To
  <1>4. CoreTypeOK'
    BY <1>1, <1>2, <1>3 DEF Dispatched, OperationStates
  <1>5. TriedOnce'
    BY <1>1, <1>2, <1>3 DEF TriedOnce, Dispatched
  <1> QED  BY <1>4, <1>5

\* A call that goes on without the row, and not to execute.
LEMMA RunnerMoves ==
    ASSUME CoreInv, NEW p \in Runners, NEW to, runner' = [runner EXCEPT ![p] = to],
           to.at \notin {"execute", "redispatch"}, to.at = "finish" => to.state \in OperationStates,
           UNCHANGED <<idempotent, executions, operation>>
    PROVE  CoreInv'
  <1>1. /\ runner'[p] = to /\ \A q \in Runners \ {p} : runner'[q] = runner[q]
        /\ runner' = [q \in Runners |-> runner'[q]]
    BY DEF CoreInv, CoreTypeOK
  <1>2. CoreTypeOK'
    BY <1>1 DEF CoreInv, CoreTypeOK
  <1>3. TriedOnce'
    BY <1>1 DEF CoreInv, TriedOnce
  <1> QED  BY <1>2, <1>3 DEF CoreInv

LEMMA CoreSteps == CoreInv /\ [CoreNext]_coreVars => CoreInv'
  <1> SUFFICES ASSUME CoreInv, [CoreNext]_coreVars PROVE CoreInv'
    OBVIOUS
  <1> USE DEF CoreInv, CoreTypeOK
  <1>1. CASE UNCHANGED coreVars
    BY <1>1 DEF coreVars, TriedOnce
  <1>2. CASE Submit
    BY <1>2 DEF Submit, Unsubmitted, TriedOnce, OperationStates
  <1>3. CASE EffectLands \/ TargetDrifts
    BY <1>3 DEF EffectLands, TargetDrifts, TriedOnce
  <1>4. CASE LeaseEnds
    BY <1>4 DEF LeaseEnds, TriedOnce
  <1>5. ASSUME NEW p \in Runners, BeginRun(p) \/ RunAgainAfterDrift(p) \/ RepairAndRun(p) \/ Retest(p)
        PROVE  CoreInv'
    <2>1. \E r : FirstTransaction(p, r)
      BY <1>5 DEF BeginRun, RunAgainAfterDrift, RepairAndRun, Retest
    <2> QED  BY <2>1, FirstTransactions DEF FirstTransaction
  <1>6. ASSUME NEW p \in Runners, Readback(p) PROVE CoreInv'
    <2>1. PICK verdict, error : runner' = [runner EXCEPT ![p] = Judged(@, verdict, error)]
      BY <1>6 DEF Readback
    <2> DEFINE to == Judged(runner[p], verdict, error)
    <2>2. UNCHANGED <<idempotent, executions, operation>>
      BY <1>6 DEF Readback
    <2>3. /\ to.at \in {"finish", "status", "redispatch"}
          /\ to.at = "redispatch" => idempotent
          /\ to.at = "finish" => to.state \in OperationStates
      <3>1. \/ to = To(runner[p], "status")
            \/ (idempotent /\ to = To(runner[p], "redispatch"))
            \/ \E s \in OperationStates : \E e : to = Ends(runner[p], s, e)
        BY DEF Judged, OperationStates
      <3> HIDE DEF to
      <3> QED  BY <3>1 DEF Ends, To
    <2>4. CASE to.at # "redispatch"
      <3> HIDE DEF to, CoreInv
      <3> QED  BY <2>1, <2>2, <2>3, <2>4, RunnerMoves DEF to
    <2>5. CASE to.at = "redispatch"
      <3> HIDE DEF to
      <3> QED  BY <2>1, <2>2, <2>3, <2>5 DEF TriedOnce, to
    <2> QED  BY <2>4, <2>5
  <1>7. ASSUME NEW p \in Runners, Redispatch(p) PROVE CoreInv'
    <2>1. idempotent /\ UNCHANGED idempotent
      BY <1>7 DEF Redispatch, TriedOnce
    <2>2. PICK to : runner' = [runner EXCEPT ![p] = to] /\ to.at \in {"status", "execute"}
      BY <1>7 DEF Redispatch, To
    <2>3. operation' \in {operation, Dispatched} /\ UNCHANGED executions
      BY <1>7 DEF Redispatch
    <2>4. /\ runner'[p] = to /\ \A q \in Runners \ {p} : runner'[q] = runner[q]
          /\ runner' = [q \in Runners |-> runner'[q]]
      BY <2>2
    <2>5. CoreTypeOK'
      <3>1. Dispatched \in [state : OperationStates, tried : BOOLEAN, lease : {"none", "live", "over"}]
        BY DEF Dispatched, OperationStates
      <3>2. to.at # "finish"
        BY <2>2
      <3> QED  BY <2>1, <2>3, <2>4, <3>1, <3>2
    <2> QED  BY <2>1, <2>5 DEF TriedOnce
  <1>8. ASSUME NEW p \in Runners, ExecuteEffect(p) PROVE CoreInv'
    BY <1>8 DEF ExecuteEffect, TriedOnce, To
  <1>9. ASSUME NEW p \in Runners, FinishRun(p) PROVE CoreInv'
    <2> DEFINE f == runner[p]
    <2> DEFINE to == IF f.recheck /\ f.state = "retryable" THEN To(f, "again")
                     ELSE Returned(f, operation'.state)
    <2>0. runner' = [runner EXCEPT ![p] = to]
      BY <1>9, Zenon DEF FinishRun
    <2>1. to.at \in {"again", "returned"}
      BY DEF To, Returned
    <2>2. /\ UNCHANGED <<idempotent, executions>> /\ operation'.tried = operation.tried
          /\ operation' \in [state : OperationStates, tried : BOOLEAN, lease : {"none", "live", "over"}]
      BY <1>9 DEF FinishRun
    <2> HIDE DEF to
    <2>3. /\ runner'[p] = to /\ \A q \in Runners \ {p} : runner'[q] = runner[q]
          /\ runner' = [q \in Runners |-> runner'[q]]
      BY <2>0
    <2> QED  BY <2>1, <2>2, <2>3 DEF TriedOnce
  <1>10. ASSUME NEW p \in Runners, ReturnRun(p) \/ RunnerDies(p) PROVE CoreInv'
    BY <1>10, RunnerMoves DEF ReturnRun, RunnerDies, AtRest
  <1> QED
    BY <1>1, <1>2, <1>3, <1>4, <1>5, <1>6, <1>7, <1>8, <1>9, <1>10 DEF CoreNext

-----------------------------------------------------------------------------
(* The direct executor.                                                     *)
DirectTypeOK ==
    /\ caller = [p \in Runners |-> caller[p]]
    /\ \A p \in Runners : caller[p] # AtRest => caller[p].at # "idle" /\ caller[p].mission \in Missions
    /\ action \in [Missions -> {"none", "RESERVED", "VERIFIED", "EXECUTED", "RECONCILE"}]
    /\ effects \in [Missions -> Nat]
    /\ artifact \in Missions \cup {NoArtifact}

Writes(p, m) == caller[p].at = "write" /\ caller[p].mission = m

\* An action is begun by the one call that reserved it; an artifact stays.
BegunOnce ==
    \A m \in Missions :
      /\ effects[m] <= 1
      /\ action[m] = "none" => effects[m] = 0
      /\ \A p \in Runners : Writes(p, m) =>
           /\ action[m] # "none" /\ effects[m] = 0
           /\ \A q \in Runners : Writes(q, m) => q = p

DirectInv == DirectTypeOK /\ BegunOnce /\ ReceiptsMatchArtifacts

LEMMA DirectBegins == DirectInit => DirectInv
  BY DEF DirectInit, DirectInv, DirectTypeOK, BegunOnce, Writes, ReceiptsMatchArtifacts, AtRest

\* A call that goes on with its mission, and not to write.
LEMMA CallerMoves ==
    ASSUME DirectInv, NEW p \in Runners, NEW to, caller' = [caller EXCEPT ![p] = to],
           to = AtRest \/ (to.at \notin {"idle", "write"} /\ to.mission \in Missions),
           effects' = effects,
           action' \in [Missions -> {"none", "RESERVED", "VERIFIED", "EXECUTED", "RECONCILE"}],
           \A m \in Missions : action'[m] = "none" <=> action[m] = "none",
           artifact' \in Missions \cup {NoArtifact}, ReceiptsMatchArtifacts'
    PROVE  DirectInv'
  <1>1. /\ caller'[p] = to /\ \A q \in Runners \ {p} : caller'[q] = caller[q]
        /\ caller' = [q \in Runners |-> caller'[q]]
    BY DEF DirectInv, DirectTypeOK
  <1>2. to.at # "write"
    BY DEF AtRest
  <1>3. DirectTypeOK'
    BY <1>1 DEF DirectInv, DirectTypeOK
  <1>4. BegunOnce'
    BY <1>1, <1>2 DEF DirectInv, BegunOnce, Writes
  <1> QED  BY <1>3, <1>4 DEF DirectInv

LEMMA DirectSteps == DirectInv /\ [DirectNext]_directVars => DirectInv'
  <1> SUFFICES ASSUME DirectInv, [DirectNext]_directVars PROVE DirectInv'
    OBVIOUS
  <1>1. CASE UNCHANGED directVars
    BY <1>1 DEF directVars, DirectInv, DirectTypeOK, BegunOnce, Writes, ReceiptsMatchArtifacts
  <1>2. ASSUME NEW p \in Runners, NEW m \in Missions, Reserve(p, m) PROVE DirectInv'
    <2> DEFINE to == [at |-> "write", mission |-> m]
    <2>1. /\ action[m] = "none" /\ action' = [action EXCEPT ![m] = "RESERVED"]
          /\ caller' = [caller EXCEPT ![p] = to] /\ UNCHANGED <<artifact, effects>>
      BY <1>2 DEF Reserve
    <2>2. /\ caller'[p] = to /\ \A q \in Runners \ {p} : caller'[q] = caller[q]
          /\ caller' = [q \in Runners |-> caller'[q]]
      BY <2>1 DEF DirectInv, DirectTypeOK
    <2>3. DirectTypeOK'
      BY <2>1, <2>2 DEF DirectInv, DirectTypeOK
    <2>4. BegunOnce'
      BY <2>1, <2>2 DEF DirectInv, DirectTypeOK, BegunOnce, Writes
    <2>5. ReceiptsMatchArtifacts'
      BY <2>1 DEF DirectInv, DirectTypeOK, ReceiptsMatchArtifacts
    <2> QED  BY <2>3, <2>4, <2>5 DEF DirectInv
  <1>3. ASSUME NEW p \in Runners, LookForArtifact(p) PROVE DirectInv'
    <2> DEFINE m == caller[p].mission
               to == [at |-> IF artifact = NoArtifact THEN "link" ELSE "compare", mission |-> m]
    <2>1. /\ Writes(p, m) /\ effects' = [effects EXCEPT ![m] = @ + 1]
          /\ caller' = [caller EXCEPT ![p] = to] /\ UNCHANGED <<action, artifact>>
      BY <1>3 DEF LookForArtifact, Onto, Writes
    <2>2. m \in Missions
      BY <2>1 DEF DirectInv, DirectTypeOK, AtRest, Writes
    <2>3. /\ to.at \in {"link", "compare"} /\ to.mission = m
      OBVIOUS
    <2> HIDE DEF to
    <2>4. /\ caller'[p] = to /\ \A q \in Runners \ {p} : caller'[q] = caller[q]
          /\ caller' = [q \in Runners |-> caller'[q]]
      BY <2>1 DEF DirectInv, DirectTypeOK
    <2>5. DirectTypeOK'
      BY <2>1, <2>2, <2>3, <2>4 DEF DirectInv, DirectTypeOK
    <2>6. BegunOnce'
      BY <2>1, <2>2, <2>3, <2>4 DEF DirectInv, DirectTypeOK, BegunOnce, Writes
    <2>7. ReceiptsMatchArtifacts'
      BY <2>1 DEF DirectInv, ReceiptsMatchArtifacts
    <2> QED  BY <2>5, <2>6, <2>7 DEF DirectInv
  <1>4. ASSUME NEW p \in Runners, LinkArtifact(p) \/ CompareArtifact(p) \/ EffectRaises(p)
        PROVE  DirectInv'
    <2>1. PICK next \in {"compare", "record", "raised"} :
            caller' = [caller EXCEPT ![p] = [at |-> next, mission |-> @.mission]]
      BY <1>4 DEF LinkArtifact, CompareArtifact, EffectRaises, Onto
    <2>2. caller[p].mission \in Missions
      BY <1>4 DEF LinkArtifact, CompareArtifact, EffectRaises, DirectInv, DirectTypeOK, AtRest
    <2>3. /\ artifact' \in Missions \cup {NoArtifact} /\ UNCHANGED <<action, effects>>
          /\ artifact # NoArtifact => artifact' = artifact
      BY <1>4, <2>2 DEF LinkArtifact, CompareArtifact, EffectRaises, Linked, DirectInv, DirectTypeOK
    <2>4. ReceiptsMatchArtifacts'
      BY <2>3, MissionAssumption DEF DirectInv, ReceiptsMatchArtifacts
    <2> QED  BY <2>1, <2>2, <2>3, <2>4, CallerMoves DEF DirectInv, DirectTypeOK
  <1>5. ASSUME NEW p \in Runners, RecordAction(p) PROVE DirectInv'
    <2> DEFINE m == caller[p].mission
               ends == IF caller[p].at = "raised" THEN "RECONCILE"
                       ELSE IF artifact = m THEN "VERIFIED" ELSE "EXECUTED"
    <2>1. /\ action' = [action EXCEPT ![m] = IF @ = "RESERVED" THEN ends ELSE @]
          /\ caller' = [caller EXCEPT ![p] = AtRest] /\ UNCHANGED <<artifact, effects>>
      BY <1>5 DEF RecordAction
    <2>2. m \in Missions
      BY <1>5 DEF RecordAction, DirectInv, DirectTypeOK, AtRest
    <2>3. /\ ends \in {"VERIFIED", "EXECUTED", "RECONCILE"} /\ (ends = "VERIFIED" => artifact = m)
      OBVIOUS
    <2> HIDE DEF ends, m
    <2>4. /\ action' \in [Missions -> {"none", "RESERVED", "VERIFIED", "EXECUTED", "RECONCILE"}]
          /\ \A n \in Missions : action'[n] = "none" <=> action[n] = "none"
      BY <2>1, <2>2, <2>3 DEF DirectInv, DirectTypeOK
    <2>5. ReceiptsMatchArtifacts'
      BY <2>1, <2>2, <2>3 DEF DirectInv, DirectTypeOK, ReceiptsMatchArtifacts
    <2> QED  BY <2>1, <2>4, <2>5, CallerMoves DEF DirectInv, DirectTypeOK
  <1>6. ASSUME NEW p \in Runners, CallerDies(p) PROVE DirectInv'
    <2>1. caller' = [caller EXCEPT ![p] = AtRest] /\ UNCHANGED <<action, artifact, effects>>
      BY <1>6 DEF CallerDies
    <2>2. ReceiptsMatchArtifacts'
      BY <2>1 DEF DirectInv, ReceiptsMatchArtifacts
    <2> QED  BY <2>1, <2>2, CallerMoves DEF DirectInv, DirectTypeOK
  <1> QED  BY <1>1, <1>2, <1>3, <1>4, <1>5, <1>6 DEF DirectNext

-----------------------------------------------------------------------------
(* The local command.                                                       *)
CommandShapes ==
    {NoCommand}
    \cup [at : {"running", "done"}, before : Nat, receipt : {{}}]
    \cup [at : {"changed", "done"}, before : Nat, after : Nat, receipt : {{}}]
    \cup [at : {"reading", "done"}, before : Nat, after : Nat, read : SUBSET Nat, receipt : SUBSET Nat]

\* The file only grows newer, what was read lies between the version opened
\* and the present one, and a receipt is of a single version.
ReadingHeld ==
    /\ command.at # "idle" => command.before <= file
    /\ command.at \in {"changed", "reading"} =>
         command.before < command.after /\ command.after <= file
    /\ command.at = "reading" => command.read \subseteq command.after..file
    /\ command.receipt # {} => \E v \in Nat : command.receipt = {v} /\ command.before < v

CommandInv == command \in CommandShapes /\ file \in Nat /\ ReadingHeld

LEMMA CommandBegins == CommandInit => CommandInv
  BY DEF CommandInit, CommandInv, CommandShapes, ReadingHeld, NoCommand

LEMMA CommandSteps == CommandInv /\ [CommandNext]_commandVars => CommandInv'
  <1> SUFFICES ASSUME CommandInv, [CommandNext]_commandVars PROVE CommandInv'
    OBVIOUS
  <1> USE DEF CommandInv, ReadingHeld, CommandShapes
  <1>1. CASE UNCHANGED commandVars
    BY <1>1 DEF commandVars
  <1>2. CASE StartCommand
    BY <1>2 DEF StartCommand
  <1>3. CASE WriteFile
    <2>1. file' = file + 1 /\ command' = command /\ file \in Nat /\ command \in CommandShapes
      BY <1>3 DEF WriteFile
    <2>2. CASE command.at = "reading"
      <3>1. /\ command.before \in Nat /\ command.after \in Nat
            /\ command.read \subseteq command.after..file
            /\ command.before < command.after /\ command.after <= file /\ command.before <= file
        BY <2>1, <2>2 DEF NoCommand
      <3>2. command.read \subseteq command.after..(file + 1)
        BY <2>1, <3>1
      <3>3. /\ command.before <= file + 1 /\ command.after <= file + 1
        BY <2>1, <3>1
      <3> QED  BY <2>1, <2>2, <3>1, <3>2, <3>3
    <2>3. CASE command.at # "reading"
      <3>1. command.at # "idle" => command.before \in Nat
        BY <2>1 DEF NoCommand
      <3>2. command.at = "changed" => command.after \in Nat
        BY <2>1 DEF NoCommand
      <3> QED  BY <2>1, <2>3, <3>1, <3>2
    <2> QED  BY <2>2, <2>3
  <1>4. CASE CommandExits
    <2>1. /\ file' = file /\ command.receipt = {} /\ command.before \in Nat
          /\ command \in [at : {"running", "done"}, before : Nat, receipt : {{}}]
      BY <1>4 DEF CommandExits, NoCommand
    <2>2. CASE command' = [command EXCEPT !.at = "done"]
      BY <2>1, <2>2
    <2>3. CASE /\ file # 0 /\ file # command.before
               /\ command' = [at |-> "changed", before |-> command.before, after |-> file, receipt |-> {}]
      BY <1>4, <2>1, <2>3 DEF CommandExits
    <2> QED  BY <1>4, <2>2, <2>3 DEF CommandExits
  <1>5. CASE OpenFile
    BY <1>5 DEF OpenFile, NoCommand
  <1>6. CASE ReadSome
    BY <1>6 DEF ReadSome, NoCommand
  <1>7. CASE FinishReading
    <2> DEFINE found == IF file = command.after THEN command.read ELSE {}
    <2>1. /\ command \in [at : {"reading", "done"}, before : Nat, after : Nat,
                           read : SUBSET Nat, receipt : SUBSET Nat]
          /\ command.at = "reading" /\ command.read # {} /\ file' = file
          /\ command' = [command EXCEPT !.at = "done", !.receipt = found]
      BY <1>7 DEF FinishReading, StillSame, NoCommand
    <2>2. found \subseteq {command.after} /\ found \in SUBSET Nat
      BY <2>1
    <2> HIDE DEF found
    <2>3. /\ command' \in [at : {"reading", "done"}, before : Nat, after : Nat,
                            read : SUBSET Nat, receipt : SUBSET Nat]
          /\ command'.at = "done" /\ command'.receipt = found /\ command'.before = command.before
      BY <2>1, <2>2
    <2>4. command.before < command.after /\ command.after \in Nat /\ command.before <= file
      BY <2>1
    <2> QED  BY <2>1, <2>2, <2>3, <2>4
  <1> QED  BY <1>1, <1>2, <1>3, <1>4, <1>5, <1>6, <1>7 DEF CommandNext

-----------------------------------------------------------------------------
LEMMA LocalHolds == LocalSpec => [](CoreInv /\ DirectInv /\ CommandInv)
  <1> DEFINE Inv == CoreInv /\ DirectInv /\ CommandInv
  <1>1. CoreInit /\ DirectInit /\ CommandInit => Inv
    BY CoreBegins, DirectBegins, CommandBegins
  <1>2. Inv /\ [CoreNext \/ DirectNext \/ CommandNext]_localVars => Inv'
    BY CoreSteps, DirectSteps, CommandSteps DEF localVars, CoreNext, DirectNext, CommandNext
  <1> QED  BY <1>1, <1>2, PTL DEF LocalSpec

\* For any processes and missions: an effect that cannot be repeated is
\* carried out once, and no action is begun twice.
THEOREM NothingRepeats == LocalSpec => []NothingBlindlyReplayed
  <1>1. CoreInv /\ DirectInv => NothingBlindlyReplayed
    BY DEF CoreInv, TriedOnce, DirectInv, BegunOnce, NothingBlindlyReplayed
  <1> QED  BY <1>1, LocalHolds, PTL

\* Missions that meet at one path do not vouch for each other's artifacts.
THEOREM VerifiedIsThere == LocalSpec => []ReceiptsMatchArtifacts
  BY LocalHolds, PTL DEF DirectInv

\* However a file is rewritten meanwhile, a proof is of one new version.
THEOREM ProofIsWhole == LocalSpec => []ProofIsFreshAndWhole
  <1>1. CommandInv => ProofIsFreshAndWhole
    BY FS_Singleton DEF CommandInv, ReadingHeld, ProofIsFreshAndWhole
  <1> QED  BY <1>1, LocalHolds, PTL

-----------------------------------------------------------------------------
(* The receipt ledger.                                                      *)
Lines == [id : ReceiptIds \cup {Torn.id}, previous : ReceiptIds \cup {Torn.previous, Genesis}]

LedgerTypeOK ==
    /\ ledger \in Seq(Lines)
    /\ appender \in [Appenders -> {Quiet} \cup [at : {"made", "checked", "written"}, line : Lines]]

\* What was written is in the file; what was accepted is in a part of it that
\* was chained when it was audited, and nothing rewrites that part.
LedgerInv ==
    /\ LedgerTypeOK
    /\ \A a \in Appenders : appender[a].at = "written" =>
         \E k \in 1..Len(ledger) : ledger[k] = appender[a].line
    /\ AcceptedStaysChained

\* A file that is appended to keeps its beginnings.
LEMMA BeginningsStay ==
    ASSUME NEW S, NEW s \in Seq(S), NEW x \in S, NEW n \in 0..Len(s)
    PROVE  /\ Append(s, x) \in Seq(S) /\ Len(Append(s, x)) = Len(s) + 1
           /\ SubSeq(Append(s, x), 1, n) = SubSeq(s, 1, n)
           /\ \A k \in 1..Len(s) : Append(s, x)[k] = s[k]
           /\ Append(s, x)[Len(s) + 1] = x
  OBVIOUS

\* What is chained depends on the lines of the file only.
LEMMA ChainedAfterwards ==
    AcceptedStaysChained' <=> \E n \in 0..Len(ledger') :
                                 /\ Chained(SubSeq(ledger', 1, n))
                                 /\ accepted' \subseteq {ledger'[k].id : k \in 1..n}
  BY ZenonT(60) DEF AcceptedStaysChained, Chained, HeadHash

LEMMA ChainStays ==
    ASSUME AcceptedStaysChained, UNCHANGED <<ledger, accepted>>
    PROVE  AcceptedStaysChained'
  BY ChainedAfterwards DEF AcceptedStaysChained

LEMMA LedgerBegins == LedgerInit => LedgerInv
  <1> SUFFICES ASSUME LedgerInit PROVE LedgerInv
    OBVIOUS
  <1>1. ledger = <<>> /\ accepted = {} /\ \A a \in Appenders : appender[a] = Quiet
    BY DEF LedgerInit
  <1>2. LedgerTypeOK
    BY <1>1 DEF LedgerInit, LedgerTypeOK
  <1>3. AcceptedStaysChained
    <2>1. Chained(SubSeq(ledger, 1, 0))
      BY <1>1 DEF Chained
    <2> QED  BY <1>1, <2>1 DEF AcceptedStaysChained
  <1> QED  BY <1>1, <1>2, <1>3 DEF LedgerInv, Quiet

LEMMA LedgerStep ==
    ASSUME LedgerInv, [ChangesetNext \/ LedgerNext \/ LifecycleNext]_durableVars
    PROVE  LedgerInv'
  <1> USE DEF LedgerInv
  <1>1. CASE UNCHANGED ledgerVars
    BY <1>1, ChainStays DEF ledgerVars, LedgerTypeOK
  <1>2. CASE ChangesetNext
    BY <1>1, <1>2 DEF ChangesetNext, Preflight, Compensate, ApplyOperation, ApplyRaises, Applied
  <1>3. CASE LifecycleNext
    BY <1>1, <1>3 DEF LifecycleNext, Transition
  <1>4. ASSUME NEW a \in Appenders, NEW r \in ReceiptIds, MakeReceipt(a, r) PROVE LedgerInv'
    <2>1. HeadHash(ledger) \in ReceiptIds \cup {Torn.id, Genesis}
      <3>1. CASE ledger = <<>>
        BY <3>1 DEF HeadHash
      <3>2. CASE ledger # <<>>
        <4>1. Len(ledger) \in DOMAIN ledger /\ ledger[Len(ledger)] \in Lines
          BY <3>2 DEF LedgerTypeOK
        <4> QED  BY <4>1, <3>2 DEF HeadHash, Last, Lines
      <3> QED  BY <3>1, <3>2
    <2> DEFINE new == [at |-> "made", line |-> [id |-> r, previous |-> HeadHash(ledger)]]
    <2>2. new \in [at : {"made"}, line : Lines]
      BY <2>1 DEF Lines, Torn
    <2>3. appender' = [appender EXCEPT ![a] = new] /\ UNCHANGED <<ledger, accepted>>
      BY <1>4 DEF MakeReceipt
    <2> HIDE DEF new
    <2>4. LedgerTypeOK' /\ \A b \in Appenders : appender'[b].at = "written" => appender'[b] = appender[b]
      BY <2>2, <2>3 DEF LedgerTypeOK
    <2> QED  BY <2>3, <2>4, ChainStays
  <1>5. ASSUME NEW a \in Appenders, CheckReceipt(a) PROVE LedgerInv'
    <2>1. UNCHANGED <<ledger, accepted>>
      BY <1>5 DEF CheckReceipt
    <2>2. LedgerTypeOK'
      BY <1>5 DEF CheckReceipt, LedgerTypeOK, Quiet
    <2>3. \A b \in Appenders : appender'[b].at = "written" => appender'[b] = appender[b]
      BY <1>5 DEF CheckReceipt, LedgerTypeOK, Quiet
    <2> QED  BY <2>1, <2>2, <2>3, ChainStays
  <1>6. ASSUME NEW a \in Appenders, NEW whole \in BOOLEAN, WriteReceipt(a, whole) PROVE LedgerInv'
    <2> DEFINE new == IF whole THEN appender[a].line ELSE Torn
    <2>1. new \in Lines /\ appender[a].line \in Lines
      BY <1>6 DEF WriteReceipt, LedgerTypeOK, Quiet, Lines, Torn
    <2>2. /\ ledger' = Append(ledger, new) /\ UNCHANGED accepted
          /\ appender' = [appender EXCEPT ![a] =
               IF whole THEN [at |-> "written", line |-> appender[a].line] ELSE Quiet]
      BY <1>6 DEF WriteReceipt, LedgerTypeOK
    <2>3. whole => new = appender[a].line
      OBVIOUS
    <2> HIDE DEF new
    <2>4. \A n \in 0..Len(ledger) : /\ ledger' \in Seq(Lines) /\ Len(ledger') = Len(ledger) + 1
                                    /\ SubSeq(ledger', 1, n) = SubSeq(ledger, 1, n)
                                    /\ \A k \in 1..Len(ledger) : ledger'[k] = ledger[k]
                                    /\ ledger'[Len(ledger) + 1] = new
      BY <2>1, <2>2, BeginningsStay DEF LedgerTypeOK
    <2>5. Len(ledger) \in Nat /\ ledger' \in Seq(Lines) /\ Len(ledger') = Len(ledger) + 1
      BY <2>4 DEF LedgerTypeOK
    <2>6. LedgerTypeOK'
      BY <2>1, <2>2, <2>5 DEF LedgerTypeOK
    <2>7. ASSUME NEW b \in Appenders, appender'[b].at = "written"
          PROVE  \E k \in 1..Len(ledger') : ledger'[k] = appender'[b].line
      <3>1. CASE b = a
        BY <3>1, <2>2, <2>3, <2>4, <2>5, <2>7 DEF LedgerTypeOK, Quiet
      <3>2. CASE b # a
        <4>1. appender'[b] = appender[b]
          BY <3>2, <2>2 DEF LedgerTypeOK
        <4>2. PICK k \in 1..Len(ledger) : ledger[k] = appender[b].line
          BY <4>1, <2>7
        <4> QED  BY <4>1, <4>2, <2>4, <2>5
      <3> QED  BY <3>1, <3>2
    <2>8. AcceptedStaysChained'
      <3>1. PICK n \in 0..Len(ledger) : /\ Chained(SubSeq(ledger, 1, n))
                                        /\ accepted \subseteq {ledger[k].id : k \in 1..n}
        BY DEF AcceptedStaysChained
      <3>2. SubSeq(ledger', 1, n) = SubSeq(ledger, 1, n) /\ \A k \in 1..n : ledger'[k] = ledger[k]
        BY <2>4, <2>5
      <3>3. n \in 0..Len(ledger')
        BY <2>5
      <3>4. Chained(SubSeq(ledger', 1, n)) /\ accepted' \subseteq {ledger'[k].id : k \in 1..n}
        <4>1. {ledger'[k].id : k \in 1..n} = {ledger[k].id : k \in 1..n}
          BY <3>2
        <4> QED  BY <4>1, <3>1, <3>2, <2>2
      <3> QED  BY <3>3, <3>4, ChainedAfterwards
    <2> QED  BY <2>6, <2>7, <2>8
  <1>7. ASSUME NEW a \in Appenders, AuditReceipt(a) PROVE LedgerInv'
    <2>1. /\ appender[a].at = "written" /\ UNCHANGED ledger
          /\ appender' = [appender EXCEPT ![a] = Quiet]
          /\ accepted' = IF AuditPasses THEN accepted \cup {appender[a].line.id} ELSE accepted
      BY <1>7 DEF AuditReceipt
    <2>2. LedgerTypeOK' /\ \A b \in Appenders : appender'[b].at = "written" => appender'[b] = appender[b]
      BY <2>1 DEF LedgerTypeOK, Quiet
    <2>3. AcceptedStaysChained'
      <3>1. CASE AuditPasses
        <4>1. SubSeq(ledger, 1, Len(ledger)) = ledger /\ Len(ledger) \in 0..Len(ledger)
          BY DEF LedgerTypeOK
        <4>2. accepted' \subseteq {ledger[k].id : k \in 1..Len(ledger)}
          <5>1. PICK m \in 1..Len(ledger) : ledger[m] = appender[a].line
            BY <2>1
          <5>2. PICK n \in 0..Len(ledger) : accepted \subseteq {ledger[k].id : k \in 1..n}
            BY DEF AcceptedStaysChained
          <5>3. 1..n \subseteq 1..Len(ledger)
            BY DEF LedgerTypeOK
          <5> QED  BY <5>1, <5>2, <5>3, <2>1, <3>1
        <4>3. Chained(ledger)
          BY <3>1 DEF AuditPasses
        <4> QED  BY <4>1, <4>2, <4>3, <2>1, ChainedAfterwards
      <3>2. CASE ~AuditPasses
        BY <3>2, <2>1, ChainStays
      <3> QED  BY <3>1, <3>2
    <2> QED  BY <2>1, <2>2, <2>3
  <1> QED
    BY <1>1, <1>2, <1>3, <1>4, <1>5, <1>6, <1>7
    DEF LedgerNext, durableVars, ledgerVars, changesetVars, lifecycleVars

\* A receipt whose append returned stays in the chain for good, however the
\* appenders race, fork the chain, tear a line or die.
THEOREM AcceptedForGood == DurableSpec => []AcceptedStaysChained
  <1>1. LedgerInv => AcceptedStaysChained
    BY DEF LedgerInv
  <1>2. LedgerInv /\ [ChangesetNext \/ LedgerNext \/ LifecycleNext]_durableVars => LedgerInv'
    BY LedgerStep
  <1> QED  BY <1>1, <1>2, LedgerBegins, PTL DEF DurableSpec

-----------------------------------------------------------------------------
(* Handoffs of captured notes.                                              *)
Entries == {"mission", "correction", "checkpoint"}
Searched == {"absent", "created", "recorded", "reread", "persisted", "complete"}
WithTask == Searched \ {"absent"}
Ingested == {"ingested", "noted", "partial"} \cup Searched
NativeTasks == [id : TaskIds, correlated : BOOLEAN, due : 0..7, allDay : BOOLEAN, active : BOOLEAN]

CaptureTypeOK ==
    /\ journal \in Seq(Entries) /\ anchored \in Seq(Entries)
    /\ native \subseteq NativeTasks
    /\ chat \in [Chats -> [at : {"idle", "begun", "blocked"} \cup Ingested, head : Seq(Entries),
                           task : TaskIds \cup {"none"}, seen : SUBSET TaskIds]]

IsBeginning(s, t) == Len(s) <= Len(t) /\ \A k \in 1..Len(s) : s[k] = t[k]

\* What a chat is past: its note was ingested, its task was at the provider
\* (which nobody deletes), its result stored.
ChatInv(h) ==
    LET c == chat[h]
    IN  /\ c.at # "idle" => c.head # <<>> /\ IsBeginning(c.head, anchored)
        /\ c.at \in Ingested => ingested
        /\ c.at \in {"begun", "ingested", "noted", "partial"} => c.task = "none"
        /\ c.at = "absent" => c.seen = {}
        /\ c.at \in WithTask => \E t \in native : t.id = c.task
        /\ c.at \in {"noted", "partial"} => PartialResult(h) \in stored
        /\ c.at \in {"persisted", "complete"} => BoundedResult(h) \in stored

CaptureInv ==
    /\ CaptureTypeOK
    /\ IsBeginning(anchored, journal)
    /\ overlapped \in BOOLEAN
    /\ ~overlapped => \A t, u \in native : t = u
    /\ \A r \in stored : TellsTheTruth(r)
    /\ \A h \in Chats : ChatInv(h)

LEMMA BeginningIsSubSeq ==
    ASSUME NEW s \in Seq(Entries), NEW t \in Seq(Entries), IsBeginning(s, t)
    PROVE  s = SubSeq(t, 1, Len(s))
  BY DEF IsBeginning

\* The journal goes on from an anchored head, whose cursors it has had.
LEMMA CursorsKept ==
    ASSUME anchored \in Seq(Entries), anchored' \in Seq(Entries), IsBeginning(anchored, anchored'),
           ingested' = ingested, native' = native, NEW r, TellsTheTruth(r)
    PROVE  TellsTheTruth(r)'
  <1>1. PICK n \in 1..Len(anchored) : r.cursor = CursorOf(SubSeq(anchored, 1, n))
    BY DEF TellsTheTruth
  <1>2. n \in 1..Len(anchored') /\ SubSeq(anchored', 1, n) = SubSeq(anchored, 1, n)
    BY <1>1 DEF IsBeginning
  <1> QED  BY <1>1, <1>2 DEF TellsTheTruth

LEMMA ResultsKept ==
    ASSUME NEW g \in Chats, capture' = capture,
           chat'[g].head = chat[g].head, chat'[g].task = chat[g].task
    PROVE  PartialResult(g)' = PartialResult(g) /\ BoundedResult(g)' = BoundedResult(g)
  BY DEF PartialResult, BoundedResult

\* What a chat past its ingestion has to say, of the task it names, is true.
LEMMA ResultsTrue ==
    ASSUME CaptureInv, NEW h \in Chats, chat[h].at \in Ingested
    PROVE  /\ TellsTheTruth(PartialResult(h))
           /\ chat[h].at \in WithTask => TellsTheTruth(BoundedResult(h))
  <1>1. /\ chat[h].head \in Seq(Entries) /\ anchored \in Seq(Entries)
        /\ chat[h].head # <<>> /\ IsBeginning(chat[h].head, anchored) /\ ingested
        /\ chat[h].at \in WithTask => \E t \in native : t.id = chat[h].task
    BY DEF CaptureInv, CaptureTypeOK, ChatInv, Ingested, Searched
  <1>2. Len(chat[h].head) \in 1..Len(anchored) /\ chat[h].head = SubSeq(anchored, 1, Len(chat[h].head))
    BY <1>1, BeginningIsSubSeq DEF IsBeginning
  <1>3. \E n \in 1..Len(anchored) : CursorOf(chat[h].head) = CursorOf(SubSeq(anchored, 1, n))
    BY <1>2
  <1> QED  BY <1>1, <1>3 DEF TellsTheTruth, PartialResult, BoundedResult

LEMMA CaptureBegins == CaptureInit => CaptureInv
  <1> SUFFICES ASSUME CaptureInit PROVE CaptureInv
    OBVIOUS
  <1>1. <<"mission">> \in Seq(Entries) /\ <<>> \in Seq(Entries)
    BY DEF Entries
  <1>2. CaptureTypeOK
    BY <1>1 DEF CaptureInit, CaptureTypeOK, Fresh
  <1>3. IsBeginning(anchored, journal)
    BY DEF CaptureInit, IsBeginning
  <1> QED  BY <1>2, <1>3 DEF CaptureInit, CaptureInv, ChatInv, Fresh, Ingested, WithTask, Searched

\* A chat that moves on, and leaves everything but what is stored as it is.
LEMMA ChatMoves ==
    ASSUME CaptureInv, NEW h \in Chats, NEW c,
           chat' = [chat EXCEPT ![h] = c], CaptureTypeOK', ChatInv(h)',
           UNCHANGED <<journal, anchored, capture, native, overlapped>>,
           ingested => ingested', stored \subseteq stored',
           \A r \in stored' \ stored : TellsTheTruth(r)'
    PROVE  CaptureInv'
  <1>1. ASSUME NEW g \in Chats, g # h PROVE ChatInv(g)'
    <2>1. chat'[g] = chat[g]
      BY <1>1 DEF CaptureInv, CaptureTypeOK
    <2> QED  BY <2>1, ResultsKept DEF CaptureInv, ChatInv, IsBeginning
  <1>2. ASSUME NEW r \in stored' PROVE TellsTheTruth(r)'
    BY DEF CaptureInv, TellsTheTruth
  <1> QED  BY <1>1, <1>2 DEF CaptureInv, IsBeginning

LEMMA CaptureStep ==
    ASSUME CaptureInv, [CaptureNext]_captureVars
    PROVE  CaptureInv'
  <1> USE DEF CaptureInv
  <1>0. \A h \in Chats : /\ chat[h].at \in {"idle", "begun", "blocked"} \cup Ingested
                         /\ chat[h].head \in Seq(Entries)
                         /\ chat[h].task \in TaskIds \cup {"none"} /\ chat[h].seen \in SUBSET TaskIds
    BY DEF CaptureTypeOK
  <1>1. CASE UNCHANGED captureVars
    <2>1. \A h \in Chats : ChatInv(h)'
      BY <1>1, ResultsKept DEF captureVars, IsBeginning, ChatInv
    <2> QED  BY <1>1, <2>1 DEF captureVars, CaptureTypeOK, IsBeginning, TellsTheTruth
  <1>2. CASE JournalGrows
    <2>1. PICK entry \in {"correction", "checkpoint"} : journal' = Append(journal, entry)
      BY <1>2 DEF JournalGrows
    <2>2. UNCHANGED <<anchored, capture, chat, ingested, native, stored, overlapped>>
      BY <1>2 DEF JournalGrows
    <2>3. journal' \in Seq(Entries) /\ IsBeginning(anchored, journal)'
      <3>1. entry \in Entries /\ journal \in Seq(Entries) /\ anchored \in Seq(Entries)
        BY DEF Entries, CaptureTypeOK
      <3> QED  BY <2>1, <2>2, <3>1 DEF IsBeginning
    <2>4. \A h \in Chats : ChatInv(h)'
      BY <2>2, ResultsKept DEF ChatInv, IsBeginning
    <2> QED  BY <2>2, <2>3, <2>4 DEF CaptureTypeOK, TellsTheTruth
  <1>3. CASE HeadPreserved
    <2>1. anchored' = journal /\ UNCHANGED <<journal, capture, chat, ingested, native, stored, overlapped>>
      BY <1>3 DEF HeadPreserved
    <2>2. ASSUME NEW h \in Chats PROVE ChatInv(h)'
      <3>1. IsBeginning(chat[h].head, anchored) => IsBeginning(chat[h].head, journal)
        BY <1>0 DEF CaptureTypeOK, IsBeginning
      <3> QED  BY <3>1, <2>1, ResultsKept DEF ChatInv, IsBeginning
    <2>3. IsBeginning(anchored, journal)'
      BY <2>1 DEF CaptureTypeOK, IsBeginning
    <2>4. \A r \in stored' : TellsTheTruth(r)'
      BY <2>1, CursorsKept DEF CaptureTypeOK
    <2> QED  BY <2>1, <2>2, <2>3, <2>4 DEF CaptureTypeOK
  <1>4. ASSUME NEW h \in Chats, OpenChat(h) PROVE CaptureInv'
    <2>1. /\ chat' = [chat EXCEPT ![h] = Resumed(journal)] /\ journal = anchored
          /\ UNCHANGED <<journal, anchored, capture, ingested, native, stored, overlapped>>
          /\ journal # <<>>
      BY <1>4 DEF OpenChat, Recoverable
    <2>2. CaptureTypeOK'
      BY <2>1 DEF CaptureTypeOK, Resumed
    <2>3. chat'[h] = Resumed(journal)
      BY <2>1 DEF CaptureTypeOK
    <2>4. ChatInv(h)'
      BY <2>1, <2>3 DEF ChatInv, IsBeginning, Resumed, CaptureTypeOK, Ingested, WithTask, Searched
    <2> QED  BY <2>1, <2>2, <2>4, ChatMoves
  <1>5. ASSUME NEW h \in Chats, Ingest(h) PROVE CaptureInv'
    <2>1. /\ chat' = [chat EXCEPT ![h] = [chat[h] EXCEPT !.at = "ingested"]]
          /\ ingested' = TRUE /\ chat[h].at = "begun"
          /\ UNCHANGED <<journal, anchored, capture, native, stored, overlapped>>
      BY <1>5 DEF Ingest, Goes
    <2>2. CaptureTypeOK'
      BY <2>1 DEF CaptureTypeOK, Ingested
    <2>3. /\ chat'[h].at = "ingested" /\ chat'[h].head = chat[h].head
          /\ chat'[h].task = chat[h].task /\ chat'[h].seen = chat[h].seen
      BY <2>1 DEF CaptureTypeOK
    <2>4. ChatInv(h)'
      BY <2>1, <2>3 DEF ChatInv, IsBeginning, CaptureTypeOK, Ingested, WithTask, Searched
    <2> QED  BY <2>1, <2>2, <2>4, ChatMoves
  <1>6. ASSUME NEW h \in Chats, NEW to \in Ingested, chat[h].at \in Ingested,
               \/ PersistPartial(h) /\ to = "noted"
               \/ PersistContinuation(h) /\ to = "persisted"
        PROVE  CaptureInv'
    <2>1. /\ chat' = [chat EXCEPT ![h] = [chat[h] EXCEPT !.at = to]]
          /\ UNCHANGED <<journal, anchored, capture, ingested, native, overlapped>>
      BY <1>6 DEF PersistPartial, PersistContinuation, Goes
    <2>2. CaptureTypeOK'
      BY <2>1 DEF CaptureTypeOK
    <2>3. /\ chat'[h].at = to /\ chat'[h].head = chat[h].head
          /\ chat'[h].task = chat[h].task /\ chat'[h].seen = chat[h].seen
      BY <2>1 DEF CaptureTypeOK
    <2>4. PartialResult(h)' = PartialResult(h) /\ BoundedResult(h)' = BoundedResult(h)
      BY <2>1, <2>3, ResultsKept
    <2>5. /\ chat[h].head # <<>> /\ IsBeginning(chat[h].head, anchored) /\ ingested
      BY <1>6 DEF ChatInv, Ingested, Searched
    <2>6. CASE PersistPartial(h) /\ to = "noted"
      <3>1. stored' = stored \cup {PartialResult(h)} /\ chat[h].task = "none"
        BY <2>6 DEF PersistPartial, ChatInv
      <3>2. ChatInv(h)'
        BY <2>6, <2>1, <2>3, <2>4, <2>5, <3>1 DEF ChatInv, IsBeginning, WithTask, Searched
      <3>3. \A r \in stored' \ stored : TellsTheTruth(r)'
        BY <1>6, <2>1, <3>1, ResultsTrue DEF TellsTheTruth
      <3> QED  BY <2>1, <2>2, <3>1, <3>2, <3>3, ChatMoves
    <2>7. CASE PersistContinuation(h) /\ to = "persisted"
      <3>1. stored' = stored \cup {BoundedResult(h)} /\ chat[h].at \in WithTask
        BY <2>7 DEF PersistContinuation, WithTask, Searched
      <3>2. ChatInv(h)'
        BY <2>7, <2>1, <2>3, <2>4, <2>5, <3>1 DEF ChatInv, IsBeginning, WithTask, Searched
      <3>3. \A r \in stored' \ stored : TellsTheTruth(r)'
        BY <1>6, <2>1, <3>1, ResultsTrue DEF TellsTheTruth
      <3> QED  BY <2>1, <2>2, <3>1, <3>2, <3>3, ChatMoves
    <2> QED  BY <1>6, <2>6, <2>7
  <1>7. ASSUME NEW h \in Chats, Search(h) PROVE CaptureInv'
    <2>1. /\ chat[h].at = "ingested"
          /\ UNCHANGED <<journal, anchored, capture, ingested, native, stored, overlapped>>
      BY <1>7 DEF Search
    <2>2. CASE native = {}
      <3>1. chat' = [chat EXCEPT ![h] = [chat[h] EXCEPT !.at = "absent", !.seen = {}]]
        <4>1. {s.id : s \in native} = {}
          BY <2>2
        <4> QED  BY <1>7, <2>2, <4>1 DEF Search, Found
      <3>2. CaptureTypeOK'
        BY <3>1, <2>1 DEF CaptureTypeOK, Ingested, Searched
      <3>3. /\ chat'[h].at = "absent" /\ chat'[h].head = chat[h].head
            /\ chat'[h].task = chat[h].task /\ chat'[h].seen = {}
        BY <3>1 DEF CaptureTypeOK
      <3>4. ChatInv(h)'
        <4>1. IsBeginning(chat[h].head, anchored) /\ ingested
          BY <2>1 DEF ChatInv, Ingested
        <4>2. "absent" \in Searched /\ "absent" \notin WithTask
          BY DEF Searched, WithTask
        <4> QED  BY <2>1, <3>3, <4>1, <4>2 DEF ChatInv, IsBeginning
      <3> QED  BY <2>1, <3>1, <3>2, <3>4, ChatMoves
    <2>3. CASE native # {}
      <3>1. PICK t \in native : chat' = [chat EXCEPT ![h] = [chat[h] EXCEPT !.at = "created", !.task = t.id]]
        BY <1>7, <2>3 DEF Search, Found
      <3>2. t.id \in TaskIds
        BY DEF CaptureTypeOK, NativeTasks
      <3>3. CaptureTypeOK'
        BY <3>1, <3>2, <2>1 DEF CaptureTypeOK, Ingested, Searched
      <3>4. /\ chat'[h].at = "created" /\ chat'[h].head = chat[h].head
            /\ chat'[h].task = t.id /\ chat'[h].seen = chat[h].seen
        BY <3>1 DEF CaptureTypeOK
      <3>5. ChatInv(h)'
        <4>1. IsBeginning(chat[h].head, anchored) /\ ingested
          BY <2>1 DEF ChatInv, Ingested
        <4> QED  BY <2>1, <3>4, <4>1 DEF ChatInv, IsBeginning
      <3> QED  BY <2>1, <3>1, <3>3, <3>5, ChatMoves
    <2> QED  BY <2>2, <2>3
  <1>8. ASSUME NEW h \in Chats, NEW id \in TaskIds, CreateTask(h, id) PROVE CaptureInv'
    <2> DEFINE new == NewTask(capture, id)
    <2>1. /\ chat[h].at = "absent" /\ native' = native \cup {new}
          /\ overlapped' = (overlapped \/ {t.id : t \in native} # chat[h].seen)
          /\ chat' = [chat EXCEPT ![h] = [chat[h] EXCEPT !.at = "created", !.task = id]]
          /\ UNCHANGED <<journal, anchored, capture, ingested, stored>>
      BY <1>8 DEF CreateTask
    <2>2. new \in NativeTasks /\ new.id = id
      <3>1. DueDay(capture) \in 0..7
        BY DEF DueDay
      <3>2. (DueDay(capture) > 0) \in BOOLEAN
        OBVIOUS
      <3> QED  BY <3>1, <3>2 DEF NewTask, NativeTasks
    <2> HIDE DEF new
    <2>3. /\ chat'[h].at = "created" /\ chat'[h].head = chat[h].head
          /\ chat'[h].task = id /\ chat'[h].seen = chat[h].seen
      BY <2>1 DEF CaptureTypeOK
    <2>4. CaptureTypeOK'
      BY <2>1, <2>2 DEF CaptureTypeOK, Ingested, Searched
    <2>5. ~overlapped' => native' = {new}
      <3>1. chat[h].seen = {}
        BY <2>1 DEF ChatInv
      <3>2. {t.id : t \in native} = {} => native = {}
        OBVIOUS
      <3> QED  BY <2>1, <3>1, <3>2
    <2>6. ASSUME NEW g \in Chats PROVE ChatInv(g)'
      <3>1. CASE g = h
        BY <3>1, <2>1, <2>2, <2>3 DEF ChatInv, IsBeginning, CaptureTypeOK, Ingested, WithTask, Searched
      <3>2. CASE g # h
        <4>1. chat'[g] = chat[g]
          BY <3>2, <2>1 DEF CaptureTypeOK
        <4> QED  BY <4>1, <2>1, ResultsKept DEF ChatInv, IsBeginning
      <3> QED  BY <3>1, <3>2
    <2>7. overlapped' \in BOOLEAN
      BY <2>1
    <2>8. \A r \in stored' : TellsTheTruth(r)'
      BY <2>1 DEF TellsTheTruth
    <2> QED  BY <2>1, <2>4, <2>5, <2>6, <2>7, <2>8 DEF IsBeginning
  <1>9. ASSUME NEW t \in native, PersonEdits(t) PROVE CaptureInv'
    <2>0. t \in NativeTasks
      BY DEF CaptureTypeOK
    <2>1. PICK u \in {[t EXCEPT !.active = FALSE], [t EXCEPT !.due = 7, !.allDay = TRUE]} :
            native' = (native \ {t}) \cup {u}
      BY <1>9 DEF PersonEdits
    <2>2. UNCHANGED <<journal, anchored, capture, chat, ingested, stored, overlapped>>
      BY <1>9 DEF PersonEdits
    <2>3. u \in NativeTasks /\ u.id = t.id
      <3>1. CASE u = [t EXCEPT !.active = FALSE]
        BY <3>1, <2>0 DEF NativeTasks
      <3>2. CASE u = [t EXCEPT !.due = 7, !.allDay = TRUE]
        <4>1. /\ u = [id |-> t.id, correlated |-> t.correlated, due |-> 7, allDay |-> TRUE, active |-> t.active]
          BY <3>2, <2>0 DEF NativeTasks
        <4> QED  BY <4>1, <2>0 DEF NativeTasks
      <3> QED  BY <2>1, <3>1, <3>2
    <2>4. CaptureTypeOK'
      BY <2>1, <2>2, <2>3 DEF CaptureTypeOK
    <2>5. ASSUME NEW x \in native PROVE \E y \in native' : y.id = x.id
      BY <2>1, <2>3
    <2>6. ASSUME NEW h \in Chats PROVE ChatInv(h)'
      BY <2>2, <2>5, ResultsKept DEF ChatInv, IsBeginning
    <2>7. ~overlapped' => \A x, y \in native' : x = y
      BY <2>1, <2>2
    <2>8. ASSUME NEW r \in stored PROVE TellsTheTruth(r)'
      BY <2>2, <2>5 DEF TellsTheTruth
    <2> QED  BY <2>2, <2>4, <2>6, <2>7, <2>8 DEF IsBeginning
  <1>10. ASSUME NEW h \in Chats, NEW to, chat[h].at \in Ingested,
                \/ \E from \in WithTask : Reread(h, from, to) /\ to \in {"recorded", "reread"}
                \/ PartialHandoff(h) /\ to = "partial"
                \/ CompleteHandoff(h) /\ to = "complete"
         PROVE  CaptureInv'
    <2>1. /\ chat' = [chat EXCEPT ![h] = [chat[h] EXCEPT !.at = to]]
          /\ UNCHANGED <<journal, anchored, capture, ingested, native, stored, overlapped>>
      BY <1>10 DEF Reread, PartialHandoff, CompleteHandoff, Goes
    <2>2. to \in Ingested
      BY <1>10 DEF Ingested, Searched
    <2>3. CaptureTypeOK'
      BY <2>1, <2>2 DEF CaptureTypeOK
    <2>4. /\ chat'[h].at = to /\ chat'[h].head = chat[h].head
          /\ chat'[h].task = chat[h].task /\ chat'[h].seen = chat[h].seen
      BY <2>1 DEF CaptureTypeOK
    <2>5. ChatInv(h)'
      <3>1. /\ to = "complete" => chat[h].at = "persisted"
            /\ to = "partial" => chat[h].at = "noted"
            /\ to \notin {"complete", "partial"} => to \in {"recorded", "reread"} /\ chat[h].at \in WithTask
        BY <1>10 DEF PartialHandoff, CompleteHandoff, Reread
      <3>2. PartialResult(h)' = PartialResult(h) /\ BoundedResult(h)' = BoundedResult(h)
        BY <2>1, <2>4, ResultsKept
      <3> QED
        BY <1>10, <2>1, <2>2, <2>4, <3>1, <3>2 DEF ChatInv, IsBeginning, CaptureTypeOK, Ingested, WithTask, Searched
    <2> QED  BY <2>1, <2>3, <2>5, ChatMoves
  <1>11. ASSUME NEW h \in Chats, HandoffRaises(h) PROVE CaptureInv'
    <2>1. /\ chat' = [chat EXCEPT ![h] = [chat[h] EXCEPT !.at = "blocked"]] /\ chat[h].at # "idle"
          /\ UNCHANGED <<journal, anchored, capture, ingested, native, stored, overlapped>>
      BY <1>11 DEF HandoffRaises
    <2>2. CaptureTypeOK'
      BY <2>1 DEF CaptureTypeOK
    <2>3. /\ chat'[h].at = "blocked" /\ chat'[h].head = chat[h].head
          /\ chat'[h].task = chat[h].task /\ chat'[h].seen = chat[h].seen
      BY <2>1 DEF CaptureTypeOK
    <2>4. ChatInv(h)'
      BY <2>1, <2>3 DEF ChatInv, IsBeginning, CaptureTypeOK, Ingested, WithTask, Searched
    <2> QED  BY <2>1, <2>2, <2>4, ChatMoves
  <1>12. ASSUME NEW h \in Chats, RunAgain(h) PROVE CaptureInv'
    <2>1. /\ chat' = [chat EXCEPT ![h] = Fresh]
          /\ UNCHANGED <<journal, anchored, capture, ingested, native, stored, overlapped>>
      BY <1>12 DEF RunAgain
    <2>2. CaptureTypeOK'
      BY <2>1 DEF CaptureTypeOK, Fresh
    <2>3. ChatInv(h)'
      BY <2>1 DEF ChatInv, Fresh, CaptureTypeOK, Ingested, WithTask, Searched
    <2> QED  BY <2>1, <2>2, <2>3, ChatMoves
  <1> QED
    <2>1. \A h \in Chats : PersistPartial(h) \/ PersistContinuation(h) => CaptureInv'
      BY <1>6 DEF PersistPartial, PersistContinuation, Ingested, Searched
    <2>2. \A h \in Chats : \/ Reread(h, "created", "recorded") \/ Reread(h, "recorded", "reread")
                           \/ PartialHandoff(h) \/ CompleteHandoff(h)
                           => CaptureInv'
      BY <1>10 DEF Reread, PartialHandoff, CompleteHandoff, Ingested, WithTask, Searched
    <2> QED
      BY <1>1, <1>2, <1>3, <1>4, <1>5, <1>7, <1>8, <1>9, <1>11, <1>12, <2>1, <2>2 DEF CaptureNext

\* A second task appears only when two chats overlapped, whatever is stored is
\* true of the providers and of the anchored journal, and a handoff that
\* reported its end has stored its result.
THEOREM HandoffsHappened == CaptureSpec => []HandoffsAreReal
  <1>1. CaptureInv => HandoffsAreReal
    <2> SUFFICES ASSUME CaptureInv PROVE HandoffsAreReal
      OBVIOUS
    <2>1. Cardinality(native) > 1 => overlapped
      <3> SUFFICES ASSUME ~overlapped PROVE ~(Cardinality(native) > 1)
        BY DEF CaptureInv
      <3>1. CASE native = {}
        BY <3>1, FS_EmptySet
      <3>2. CASE native # {}
        <4>1. PICK t \in native : native = {t}
          BY <3>2 DEF CaptureInv
        <4>2. Cardinality({t}) = 1
          BY FS_Singleton
        <4> QED  BY <4>1, <4>2
      <3> QED  BY <3>1, <3>2
    <2>2. ASSUME NEW h \in Chats
          PROVE  chat[h].at # "idle" => chat[h].head = SubSeq(anchored, 1, Len(chat[h].head))
      BY BeginningIsSubSeq DEF CaptureInv, CaptureTypeOK, ChatInv
    <2> QED
      BY <2>1, <2>2 DEF HandoffsAreReal, CaptureInv, ChatInv
  <1>2. CaptureInv /\ [CaptureNext]_captureVars => CaptureInv'
    BY CaptureStep
  <1> QED  BY <1>1, <1>2, CaptureBegins, PTL DEF CaptureSpec

-----------------------------------------------------------------------------
(* Reconciliation of the pipelines.                                         *)
Commits == 1..(1 + MaxPushes)
BuildStates == {"scheduled", "running", "passed"} \cup Failing
Builds == [repository : Repositories, commit : Commits, shown : Commits \cup {Symbolic}, state : BuildStates]

ProviderTypeOK ==
    /\ head \in [Repositories -> Commits]
    /\ builds \in Seq(Builds)
    /\ \A r \in Repositories : DOMAIN statuses[r] = Commits

\* A status that can be reused or waited for is of a build of its own commit,
\* and a success of one that passed.
StatusTrue(r, c) ==
    LET projection == statuses[r][c]
    IN  projection.state \in Reusable =>
          /\ projection.number \in 1..Len(builds)
          /\ builds[projection.number].repository = r /\ builds[projection.number].commit = c
          /\ projection.state = "success" => builds[projection.number].state = "passed"

Statuses == \A r \in Repositories : \A c \in Commits : StatusTrue(r, c)

RunTypeOK ==
    reconciler \in
      [stage : {"idle", "failed", "head", "pipeline", "webhook", "readback", "project",
                "builds", "statuses", "written"},
       at : 1..(Registered + 1), listed : {reconciler.listed}, left : SUBSET Repositories,
       source : [Repositories -> Commits \cup {0}], number : [Repositories -> Nat]]

\* Repositories whose head the run has read.
HeadRead ==
    IF reconciler.stage \in {"builds", "statuses", "written"} THEN Repositories
    ELSE IF reconciler.stage \in {"pipeline", "webhook", "readback", "project"}
    THEN {r \in Repositories : r <= reconciler.at}
    ELSE {r \in Repositories : r < reconciler.at}

Earned(r) ==
    LET n == reconciler.number[r]
    IN  /\ n \in 1..Len(builds)
        /\ builds[n].repository = r /\ builds[n].commit = Source(r) /\ builds[n].state = "passed"

RunInv ==
    /\ RunTypeOK
    /\ reconciler.stage \notin {"idle", "failed"} => \A r \in HeadRead : Source(r) \in Commits
    /\ reconciler.stage = "statuses" => \A r \in Repositories \ reconciler.left : Earned(r)
    /\ reconciler.stage = "written" => \A r \in Repositories : Earned(r)

ReconcileInv == ProviderTypeOK /\ Statuses /\ RunInv

LEMMA NewRunIsTyped ==
    /\ NewRun = [stage |-> "idle", at |-> 1, listed |-> pipelines, left |-> {},
                 source |-> [r \in Repositories |-> 0], number |-> [r \in Repositories |-> 0]]
    /\ 1 \in 1..(Registered + 1)
  BY RegisteredAssumption DEF NewRun

LEMMA ReconcileBegins == ReconcileInit => ReconcileInv
  <1> SUFFICES ASSUME ReconcileInit PROVE ReconcileInv
    OBVIOUS
  <1>1. ProviderTypeOK
    BY PushesAssumption DEF ReconcileInit, ProviderTypeOK, Commits
  <1>2. Statuses
    BY DEF ReconcileInit, Statuses, StatusTrue, Commits, NoStatus, Reusable
  <1>3. RunTypeOK /\ reconciler.stage = "idle"
    BY NewRunIsTyped DEF ReconcileInit, RunTypeOK
  <1> QED  BY <1>1, <1>2, <1>3 DEF ReconcileInv, RunInv

\* A build that passed stays as it is, and so does what names it.
BuildsKept ==
    /\ Len(builds) <= Len(builds')
    /\ \A n \in 1..Len(builds) :
         /\ builds'[n].repository = builds[n].repository /\ builds'[n].commit = builds[n].commit
         /\ builds[n].state = "passed" => builds'[n].state = "passed"

LEMMA RunGoesOn ==
    ASSUME ReconcileInv, ProviderTypeOK', BuildsKept, UNCHANGED reconciler
    PROVE  RunInv'
  <1>1. RunTypeOK' /\ HeadRead' = HeadRead /\ \A r : Source(r)' = Source(r)
    BY DEF ReconcileInv, RunInv, RunTypeOK, HeadRead, Source
  <1>2. \A r \in Repositories : Earned(r) => Earned(r)'
    BY <1>1 DEF ReconcileInv, ProviderTypeOK, Earned, BuildsKept
  <1> QED  BY <1>1, <1>2 DEF ReconcileInv, RunInv

LEMMA StatusesGoOn ==
    ASSUME ReconcileInv, ProviderTypeOK', BuildsKept, UNCHANGED statuses
    PROVE  Statuses'
  <1> SUFFICES ASSUME NEW r \in Repositories, NEW c \in Commits PROVE StatusTrue(r, c)'
    BY DEF Statuses
  <1>1. StatusTrue(r, c) /\ statuses'[r][c] = statuses[r][c]
    BY DEF ReconcileInv, Statuses
  <1>2. Len(builds) \in Nat /\ Len(builds') \in Nat /\ Len(builds) <= Len(builds')
    BY DEF ReconcileInv, ProviderTypeOK, BuildsKept
  <1> QED  BY <1>1, <1>2 DEF StatusTrue, BuildsKept

LEMMA BuildAppended ==
    ASSUME ReconcileInv, NEW b \in Builds, builds' = Append(builds, b)
    PROVE  builds' \in Seq(Builds) /\ Len(builds') = Len(builds) + 1 /\ BuildsKept
  BY DEF ReconcileInv, ProviderTypeOK, BuildsKept

\* Builds that move have not passed; a status that follows is of its build.
LEMMA BuildsMoved ==
    ASSUME ReconcileInv, NEW moved, NEW state \in BuildStates, BuildsMove(moved, state),
           moved \subseteq InState({"scheduled", "running"}),
           state \in Failing \/ \E n \in DOMAIN builds : moved = {n},
           UNCHANGED <<head, reconciler>>
    PROVE  ReconcileInv'
  <1> USE DEF ReconcileInv
  <1>0. /\ Len(builds) \in Nat /\ DOMAIN builds = 1..Len(builds)
        /\ \A n \in 1..Len(builds) : builds[n] \in Builds
    BY DEF ProviderTypeOK
  <1>1. builds' = [n \in 1..Len(builds) |->
                     IF n \in moved THEN [builds[n] EXCEPT !.state = state] ELSE builds[n]]
    BY <1>0 DEF BuildsMove
  <1>2. \A n \in 1..Len(builds) : builds'[n] \in Builds
    BY <1>0, <1>1 DEF Builds
  <1>3. builds' \in Seq(Builds) /\ Len(builds') = Len(builds)
    BY <1>0, <1>1, <1>2
  <1>4. \A n \in 1..Len(builds) :
          /\ builds'[n].repository = builds[n].repository /\ builds'[n].commit = builds[n].commit
          /\ builds'[n].state = IF n \in moved THEN state ELSE builds[n].state
    BY <1>0, <1>1 DEF Builds
  <1>5. BuildsKept
    BY <1>0, <1>3, <1>4 DEF BuildsKept, InState
  <1>6. \A r \in Repositories : DOMAIN statuses'[r] = Commits
    BY DEF BuildsMove, ProviderTypeOK
  <1>7. ProviderTypeOK'
    BY <1>3, <1>6 DEF ProviderTypeOK
  <1>8. ASSUME NEW r \in Repositories, NEW c \in Commits PROVE StatusTrue(r, c)'
    <2> DEFINE here == {n \in moved : builds[n].repository = r /\ builds[n].commit = c}
    <2>1. statuses'[r][c] = IF here = {} THEN statuses[r][c]
                            ELSE [state |-> StatusOf(state),
                                  number |-> CHOOSE n \in here : \A m \in here : m <= n]
      BY DEF BuildsMove, ProviderTypeOK
    <2>2. CASE here = {}
      BY <2>1, <2>2, <1>0, <1>3, <1>5 DEF StatusTrue, Statuses, BuildsKept
    <2>3. CASE here # {} /\ state \in Failing
      <3>1. StatusOf(state) \notin Reusable
        BY <2>3 DEF StatusOf, Failing, Reusable
      <3> QED  BY <2>1, <2>3, <3>1 DEF StatusTrue
    <2>4. CASE here # {} /\ state \notin Failing
      <3>1. PICK n \in DOMAIN builds : moved = {n}
        BY <2>4
      <3>2. here = {n} /\ n \in Nat /\ n <= n
        BY <2>4, <3>1, <1>0
      <3>3. (CHOOSE k \in here : \A m \in here : m <= k) = n
        BY <3>2
      <3>4. statuses'[r][c] = [state |-> StatusOf(state), number |-> n]
        BY <2>1, <2>4, <3>3
      <3>5. builds[n].repository = r /\ builds[n].commit = c /\ n \in 1..Len(builds)
        BY <3>2, <3>1, <1>0
      <3>6. builds'[n].state = state /\ (StatusOf(state) = "success" => state = "passed")
        BY <3>5, <3>1, <1>4 DEF StatusOf
      <3> HIDE DEF here
      <3> QED  BY <3>4, <3>5, <3>6, <1>3, <1>4 DEF StatusTrue
    <2> QED  BY <2>2, <2>3, <2>4
  <1>9. RunInv'
    BY <1>7, <1>5, RunGoesOn
  <1> QED  BY <1>7, <1>8, <1>9 DEF Statuses

LEMMA ProviderStep ==
    ASSUME ReconcileInv, NEW r \in Repositories,
           Push(r) \/ BuildByHand(r) \/ PipelineEdited(r) \/ Supersede(r)
    PROVE  ReconcileInv'
  <1> USE DEF ReconcileInv
  <1>0. head[r] \in Commits /\ Commits \subseteq Nat /\ Len(builds) \in Nat
    BY DEF ProviderTypeOK, Commits
  <1>1. \A c \in Commits : BuildOf(r, c, c) \in Builds
    BY DEF BuildOf, Builds, BuildStates
  <1>2. CASE Push(r)
    <2>1. /\ head[r] + 1 \in Commits /\ head' = [head EXCEPT ![r] = @ + 1]
          /\ UNCHANGED <<statuses, reconciler>>
      BY <1>0, <1>2, PushesAssumption DEF Push, Commits
    <2>2. head' \in [Repositories -> Commits] /\ head'[r] = head[r] + 1
      BY <2>1 DEF ProviderTypeOK
    <2>3. builds' \in Seq(Builds) /\ BuildsKept
      <3>1. CASE builds' = builds
        BY <3>1, <1>0 DEF ProviderTypeOK, BuildsKept
      <3>2. CASE builds' = Append(builds, BuildOf(r, head'[r], head'[r]))
        BY <3>2, <1>1, <2>1, <2>2, BuildAppended
      <3> QED  BY <3>1, <3>2, <1>2 DEF Push
    <2>4. ProviderTypeOK'
      BY <2>1, <2>2, <2>3 DEF ProviderTypeOK
    <2> QED  BY <2>1, <2>3, <2>4, RunGoesOn, StatusesGoOn
  <1>3. CASE BuildByHand(r)
    <2>1. PICK c \in 1..head[r] : builds' = Append(builds, BuildOf(r, c, c))
      BY <1>3 DEF BuildByHand
    <2>a. c \in Commits
      BY <1>0, PushesAssumption DEF Commits
    <2>2. c \in Commits /\ UNCHANGED <<head, statuses, reconciler>>
      BY <2>a, <1>3 DEF BuildByHand
    <2>3. builds' \in Seq(Builds) /\ BuildsKept
      BY <2>1, <2>2, <1>1, BuildAppended
    <2>4. ProviderTypeOK'
      BY <2>2, <2>3 DEF ProviderTypeOK
    <2> QED  BY <2>2, <2>3, <2>4, RunGoesOn, StatusesGoOn
  <1>4. CASE PipelineEdited(r)
    <2>1. UNCHANGED <<head, builds, statuses, reconciler>>
      BY <1>4 DEF PipelineEdited
    <2>2. ProviderTypeOK' /\ BuildsKept
      BY <2>1, <1>0 DEF ProviderTypeOK, BuildsKept
    <2> QED  BY <2>1, <2>2, RunGoesOn, StatusesGoOn
  <1>5. CASE Supersede(r)
    <2> DEFINE old == {n \in InState({"scheduled", "running"}) :
                         builds[n].repository = r /\ builds[n].commit < head[r]}
    <2>1. BuildsMove(old, "canceled") /\ UNCHANGED <<head, reconciler>>
      BY <1>5 DEF Supersede
    <2>2. old \subseteq InState({"scheduled", "running"}) /\ "canceled" \in BuildStates \cap Failing
      BY DEF BuildStates, Failing
    <2> HIDE DEF old
    <2> QED  BY <2>1, <2>2, BuildsMoved
  <1> QED  BY <1>2, <1>3, <1>4, <1>5

\* The run in a stage that says nothing of earned receipts.
LEMMA RunMoves ==
    ASSUME ReconcileInv, UNCHANGED <<head, builds, statuses>>, RunTypeOK',
           reconciler'.stage \notin {"statuses", "written"},
           reconciler'.stage \notin {"idle", "failed"} => \A r \in HeadRead' : Source(r)' \in Commits
    PROVE  ReconcileInv'
  BY DEF ReconcileInv, ProviderTypeOK, Statuses, StatusTrue, RunInv

LEMMA RunStep ==
    ASSUME ReconcileInv, NEW r \in Repositories,
           \/ ReadMain(r) \/ ReconcilePipeline(r) \/ EnsureWebhook(r) \/ VerifyPipeline(r)
           \/ ReuseProjection(r) \/ TriggerBuild(r) \/ PollBuild(r) \/ PollStatus(r)
    PROVE  ReconcileInv'
  <1> USE DEF ReconcileInv
  <1>0. /\ head[r] \in Commits /\ Len(builds) \in Nat /\ Registered \in Nat /\ r \in 1..Registered
        /\ RunTypeOK
    BY RegisteredAssumption DEF ProviderTypeOK, RunInv, Repositories
  <1>1. CASE ReadMain(r)
    <2>1. /\ reconciler.stage = "head" /\ r = reconciler.at
          /\ reconciler' = [reconciler EXCEPT !.source = [reconciler.source EXCEPT ![r] = head[r]],
                                              !.stage = "pipeline"]
          /\ UNCHANGED <<head, builds, statuses>>
      BY <1>1 DEF ReadMain, At
    <2>2. RunTypeOK' /\ reconciler'.stage = "pipeline" /\ reconciler'.at = r
      BY <2>1, <1>0 DEF RunTypeOK
    <2>3. \A q \in Repositories : reconciler'.source[q] = IF q = r THEN head[r] ELSE reconciler.source[q]
      BY <2>1, <1>0 DEF RunTypeOK
    <2>4. \A q \in HeadRead' : Source(q)' \in Commits
      BY <2>1, <2>2, <2>3, <1>0 DEF HeadRead, Source, RunInv, Repositories
    <2> QED  BY <2>1, <2>2, <2>4, RunMoves
  <1>2. CASE ReconcilePipeline(r) \/ EnsureWebhook(r) \/ VerifyPipeline(r)
    <2>1. PICK to \in {"failed", "webhook", "readback", "project"} :
            reconciler' = [reconciler EXCEPT !.stage = to]
      BY <1>2 DEF ReconcilePipeline, EnsureWebhook, VerifyPipeline, Stage
    <2>2. /\ reconciler.stage \in {"pipeline", "webhook", "readback"}
          /\ UNCHANGED <<head, builds, statuses>>
      BY <1>2 DEF ReconcilePipeline, EnsureWebhook, VerifyPipeline, At
    <2>3. /\ RunTypeOK' /\ reconciler'.stage = to /\ reconciler'.at = reconciler.at
          /\ reconciler'.source = reconciler.source
      BY <2>1, <1>0 DEF RunTypeOK
    <2>4. to # "failed" => HeadRead' = HeadRead
      BY <2>1, <2>2, <2>3 DEF HeadRead
    <2> QED  BY <2>1, <2>2, <2>3, <2>4, RunMoves DEF RunInv, Source
  <1>3. ASSUME NEW n \in Nat, At("project", r), Numbered(r, n)
        PROVE  /\ RunTypeOK' /\ reconciler'.stage \in {"head", "builds"}
               /\ \A q \in HeadRead' : Source(q)' \in Commits
    <2>1. reconciler.stage = "project" /\ r = reconciler.at
      BY <1>3 DEF At
    <2>2. reconciler' = [reconciler EXCEPT
            !.number = [reconciler.number EXCEPT ![r] = n], !.at = r + 1,
            !.stage = IF r + 1 \in Repositories THEN "head" ELSE "builds",
            !.left = Repositories]
      BY <1>3 DEF Numbered
    <2>3. /\ RunTypeOK' /\ reconciler'.at = r + 1 /\ reconciler'.source = reconciler.source
            /\ reconciler'.stage = IF r + 1 \in Repositories THEN "head" ELSE "builds"
      <3>1. r + 1 \in 1..(Registered + 1)
        BY <1>0
      <3>2. [reconciler.number EXCEPT ![r] = n] \in [Repositories -> Nat]
        BY <1>0, <1>3 DEF RunTypeOK
      <3> QED  BY <2>2, <3>1, <3>2, <1>0 DEF RunTypeOK
    <2>4. \A q \in HeadRead' : q \in Repositories /\ q <= r
      BY <2>3, <1>0 DEF HeadRead, Repositories
    <2>5. \A q \in HeadRead' : q \in HeadRead
      BY <2>1, <2>4 DEF HeadRead
    <2> QED  BY <2>1, <2>3, <2>5 DEF RunInv, Source
  <1>4. CASE ReuseProjection(r)
    <2>1. /\ At("project", r) /\ statuses[r][Source(r)].state \in Reusable
          /\ Numbered(r, statuses[r][Source(r)].number)
          /\ UNCHANGED <<head, builds, statuses>>
      BY <1>4 DEF ReuseProjection
    <2>2. Source(r) \in Commits
      BY <2>1, <1>0 DEF At, RunInv, HeadRead
    <2>3. statuses[r][Source(r)].number \in Nat
      BY <2>1, <2>2, <1>0 DEF Statuses, StatusTrue
    <2> QED  BY <2>1, <2>3, <1>3, RunMoves
  <1>5. CASE TriggerBuild(r)
    <2>1. At("project", r) /\ UNCHANGED <<head, statuses>>
      BY <1>5 DEF TriggerBuild
    <2>2. Source(r) \in Commits
      BY <2>1, <1>0 DEF At, RunInv, HeadRead
    <2>3. PICK commit \in {Source(r), head[r]} : \E shown \in {commit, Symbolic} :
            /\ builds' = Append(builds, BuildOf(r, commit, shown))
            /\ \/ reconciler' = [reconciler EXCEPT !.stage = "failed"]
               \/ Numbered(r, Len(builds) + 1)
      BY <1>5 DEF TriggerBuild, Stage
    <2>4. PICK shown \in {commit, Symbolic} :
            /\ builds' = Append(builds, BuildOf(r, commit, shown))
            /\ \/ reconciler' = [reconciler EXCEPT !.stage = "failed"]
               \/ Numbered(r, Len(builds) + 1)
      BY <2>3
    <2>5. BuildOf(r, commit, shown) \in Builds
      BY <2>2, <1>0 DEF BuildOf, Builds, BuildStates
    <2>6. builds' \in Seq(Builds) /\ BuildsKept
      BY <2>4, <2>5, BuildAppended
    <2>7. ProviderTypeOK' /\ Statuses'
      <3>1. ProviderTypeOK'
        BY <2>1, <2>6 DEF ProviderTypeOK
      <3> QED  BY <3>1, <2>1, <2>6, StatusesGoOn
    <2>8. CASE reconciler' = [reconciler EXCEPT !.stage = "failed"]
      <3>1. RunTypeOK' /\ reconciler'.stage = "failed"
        BY <2>8, <1>0 DEF RunTypeOK
      <3> QED  BY <2>7, <3>1 DEF RunInv
    <2>9. CASE Numbered(r, Len(builds) + 1)
      <3>1. Len(builds) + 1 \in Nat
        BY <1>0
      <3>2. /\ RunTypeOK' /\ reconciler'.stage \in {"head", "builds"}
            /\ \A q \in HeadRead' : Source(q)' \in Commits
        BY <2>1, <2>9, <3>1, <1>3
      <3> QED  BY <2>7, <3>2 DEF RunInv
    <2> QED  BY <2>4, <2>8, <2>9
  <1>6. ASSUME NEW from \in {"builds", "statuses"}, NEW next \in {"statuses", "written"},
               from = "builds" => next = "statuses", from = "statuses" => next = "written",
               Waits(from, r), UNCHANGED <<head, builds, statuses>>,
               \/ reconciler' = [reconciler EXCEPT !.stage = "failed"]
               \/ Settles(r, next) /\ (from = "statuses" => Earned(r))
        PROVE  ReconcileInv'
    <2>1. CASE reconciler' = [reconciler EXCEPT !.stage = "failed"]
      <3>1. RunTypeOK' /\ reconciler'.stage = "failed"
        BY <2>1, <1>0 DEF RunTypeOK
      <3> QED  BY <1>6, <3>1, RunMoves
    <2>2. CASE Settles(r, next) /\ (from = "statuses" => Earned(r))
      <3> DEFINE left == reconciler.left \ {r}
      <3>1. reconciler' = [reconciler EXCEPT
              !.stage = IF left = {} THEN next ELSE reconciler.stage,
              !.left = IF left = {} THEN Repositories ELSE left]
        BY <2>2 DEF Settles
      <3>2. reconciler.stage = from /\ left \subseteq Repositories
        BY <1>0, <1>6 DEF Waits, RunTypeOK
      <3>3. /\ RunTypeOK' /\ reconciler'.stage = (IF left = {} THEN next ELSE from)
            /\ reconciler'.left = (IF left = {} THEN Repositories ELSE left)
            /\ reconciler'.source = reconciler.source /\ reconciler'.number = reconciler.number
        BY <3>1, <3>2, <1>0, <1>6 DEF RunTypeOK
      <3>4. HeadRead' = HeadRead
        BY <3>2, <3>3, <1>6 DEF HeadRead
      <3>5. \A q \in Repositories : Earned(q)' <=> Earned(q)
        BY <3>3, <1>6 DEF Earned, Source
      <3>6. \A q \in Repositories \ left : from = "statuses" => Earned(q)
        BY <2>2, <3>2 DEF RunInv
      <3>7. RunInv'
        BY <3>2, <3>3, <3>4, <3>5, <3>6, <1>6 DEF RunInv, Source
      <3> QED  BY <3>7, <1>6 DEF ProviderTypeOK, Statuses, StatusTrue
    <2> QED  BY <1>6, <2>1, <2>2
  <1>7. CASE PollBuild(r)
    <2>1. /\ Waits("builds", r) /\ UNCHANGED <<head, builds, statuses>>
          /\ \/ reconciler' = [reconciler EXCEPT !.stage = "failed"]
             \/ Settles(r, "statuses")
      BY <1>7 DEF PollBuild, Stage
    <2> QED  BY <2>1, <1>6
  <1>8. CASE PollStatus(r)
    <2>1. /\ Waits("statuses", r) /\ UNCHANGED <<head, builds, statuses>>
          /\ \/ reconciler' = [reconciler EXCEPT !.stage = "failed"]
             \/ /\ statuses[r][Source(r)].state = "success"
                /\ statuses[r][Source(r)].number = reconciler.number[r]
                /\ Settles(r, "written")
      BY <1>8 DEF PollStatus, Stage, OfThisBuild
    <2>2. Source(r) \in Commits
      BY <2>1 DEF Waits, RunInv, HeadRead
    <2>3. statuses[r][Source(r)].state = "success"
            /\ statuses[r][Source(r)].number = reconciler.number[r] => Earned(r)
      BY <2>2 DEF Statuses, StatusTrue, Reusable, Earned
    <2> QED  BY <2>1, <2>3, <1>6
  <1> QED  BY <1>1, <1>2, <1>4, <1>5, <1>7, <1>8

LEMMA ReconcileStep ==
    ASSUME ReconcileInv, [ReconcileNext]_reconcileVars
    PROVE  ReconcileInv'
  <1> USE DEF ReconcileInv
  <1>1. CASE UNCHANGED reconcileVars
    <2>1. UNCHANGED <<head, builds, statuses, reconciler>>
      BY <1>1 DEF reconcileVars
    <2>2. ProviderTypeOK' /\ BuildsKept
      BY <2>1 DEF ProviderTypeOK, BuildsKept
    <2> QED  BY <2>1, <2>2, RunGoesOn, StatusesGoOn
  <1>2. CASE BeginReconcile
    <2>1. reconciler' = [NewRun EXCEPT !.stage = "head"] /\ UNCHANGED <<head, builds, statuses>>
      BY <1>2 DEF BeginReconcile
    <2>2. RunTypeOK' /\ reconciler'.stage = "head" /\ reconciler'.at = 1
      BY <2>1, NewRunIsTyped DEF RunTypeOK
    <2>3. HeadRead' = {}
      BY <2>2, RegisteredAssumption DEF HeadRead, Repositories
    <2> QED  BY <2>1, <2>2, <2>3, RunMoves
  <1>3. CASE RequestFails
    <2>1. reconciler' = [reconciler EXCEPT !.stage = "failed"] /\ UNCHANGED <<head, builds, statuses>>
      BY <1>3 DEF RequestFails, Stage
    <2>2. RunTypeOK' /\ reconciler'.stage = "failed"
      BY <2>1 DEF RunInv, RunTypeOK
    <2> QED  BY <2>1, <2>2, RunMoves
  <1>4. ASSUME NEW n \in DOMAIN builds, BuildStarts(n) \/ BuildEnds(n) PROVE ReconcileInv'
    <2>1. PICK state \in {"running", "passed", "failed"} :
            BuildsMove({n}, state) /\ n \in InState({"scheduled", "running"})
      BY <1>4 DEF BuildStarts, BuildEnds, InState
    <2>2. state \in BuildStates /\ UNCHANGED <<head, reconciler>>
      BY <1>4 DEF BuildStarts, BuildEnds, BuildStates, Failing
    <2> QED  BY <2>1, <2>2, BuildsMoved
  <1> QED  BY <1>1, <1>2, <1>3, <1>4, ProviderStep, RunStep DEF ReconcileNext

\* What "heads verified" says of every repository is so, whatever is pushed,
\* built or answered meanwhile.
THEOREM HeadsAreVerified == ReconcileSpec => []ReceiptIsEarned
  <1>1. ReconcileInv => ReceiptIsEarned
    BY DEF ReconcileInv, RunInv, Earned, ReceiptIsEarned
  <1>2. ReconcileInv /\ [ReconcileNext]_reconcileVars => ReconcileInv'
    BY ReconcileStep
  <1> QED  BY <1>1, <1>2, ReconcileBegins, PTL DEF ReconcileSpec
=============================================================================
