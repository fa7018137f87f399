-------------------------- MODULE AuthorityProofs --------------------------
(* Proofs about the parts that decide what may be done or relied on:        *)
(* ProviderAdmission, CaseIntake, Frontier, ExecutionFabric, CasePursuit,   *)
(* StartupGates and OperatorSource, for any requests, events, documents,    *)
(* substrates, lanes, interpreters and texts.                               *)
EXTENDS ProviderAdmission, CaseIntake, Frontier, ExecutionFabric, CasePursuit,
        StartupGates, OperatorSource, FiniteSetTheorems, TLAPS

-----------------------------------------------------------------------------
(* Admission of receipts.                                                   *)
ActionScopes == {Scope(a) : a \in Actions}
HostReceipts == {BuiltReceipt(Adapted(a), i, o) : a \in Actions, i \in Rids, o \in Outcomes}

AdmissionTypeOK ==
    /\ receipts \subseteq HostReceipts
    /\ runtime \in [keys : [Keys -> ActionScopes \cup {NoEntry}],
                    index : [Rids -> HostReceipts \cup {NoEntry}]]
    /\ audits \in [Rids -> Nat]

\* A receipt that a host holds is of a plan, which stays handed out.
OfAPlan(rc) == \E a \in Actions : /\ Plan(a) \in plans
                                  /\ rc.action = a.id /\ rc.key = a.key /\ rc.scope = Scope(a)

\* The key of an admitted receipt is held by the scope the receipt names.
HeldByItsKey(i) ==
    LET rc == runtime.index[i]
    IN  IF rc = NoEntry THEN audits[i] = 0
        ELSE /\ audits[i] = 1
             /\ rc \in receipts
             /\ rc.key \in Keys /\ rc.scope = runtime.keys[rc.key]

AdmissionInv ==
    /\ AdmissionTypeOK
    /\ \A rc \in receipts : OfAPlan(rc)
    /\ \A i \in Rids : HeldByItsKey(i)

\* What a host builds for a plan says what the plan says.
LEMMA ReceiptNamesThePlan ==
    ASSUME NEW a \in Actions, NEW i, NEW o
    PROVE  LET rc == BuiltReceipt(Adapted(a), i, o)
           IN  /\ rc.id = i /\ rc.action = a.id /\ rc.key = a.key /\ rc.scope = Scope(a)
               /\ rc # NoEntry /\ Scope(a) # NoEntry
  <1>1. /\ Adapted(a).id = a.id /\ Adapted(a).key = a.key /\ Adapted(a).approved = Scope(a)
    BY ActionsAssumption DEF Adapted
  <1>2. \A x : BuiltReceipt(Adapted(a), i, o) # <<>> /\ Scope(a) # <<>>
    BY DEF BuiltReceipt, Scope
  <1> QED  BY <1>1, <1>2 DEF BuiltReceipt, NoEntry

LEMMA AdmissionBegins == AdmissionInit => AdmissionInv
  BY DEF AdmissionInit, AdmissionInv, AdmissionTypeOK, HeldByItsKey, NoRuntime

LEMMA AdmissionStep ==
    ASSUME AdmissionInv, [AdmissionNext]_admissionVars
    PROVE  AdmissionInv'
  <1> USE DEF AdmissionInv
  <1>1. CASE UNCHANGED <<plans, receipts, runtime, audits>>
    BY <1>1 DEF AdmissionTypeOK, OfAPlan, HeldByItsKey
  <1>2. ASSUME NEW a \in Actions, PlanByCommand(a) \/ PlanBySession(a) PROVE AdmissionInv'
    <2>1. plans \subseteq plans' /\ UNCHANGED <<receipts, runtime, audits>>
      BY <1>2 DEF PlanByCommand, PlanBySession
    <2> QED  BY <2>1 DEF AdmissionTypeOK, OfAPlan, HeldByItsKey
  <1>3. ASSUME NEW a \in Actions, NEW rid \in Rids, NEW o \in Outcomes, HostExecutes(a, rid, o)
        PROVE  AdmissionInv'
    <2> DEFINE new == BuiltReceipt(Adapted(a), rid, o)
    <2>1. /\ Plan(a) \in plans /\ receipts' = receipts \cup {new}
          /\ UNCHANGED <<plans, runtime, audits>>
      BY <1>3 DEF HostExecutes
    <2>2. new \in HostReceipts
      BY DEF HostReceipts
    <2>3. OfAPlan(new)
      BY <2>1, ReceiptNamesThePlan DEF OfAPlan
    <2> HIDE DEF new
    <2> QED  BY <2>1, <2>2, <2>3 DEF AdmissionTypeOK, OfAPlan, HeldByItsKey
  <1>4. ASSUME NEW a \in Actions, NEW rc \in receipts, Admit(a, rc) PROVE AdmissionInv'
    <2>1. /\ a.approved = Scope(a) /\ runtime.keys[a.key] \in {NoEntry, Scope(a)}
          /\ rc.key = a.key /\ rc.scope = Scope(a) /\ runtime.index[rc.id] = NoEntry
      BY <1>4 DEF Admit, ExactlyApproved, KeyAgrees, ReceiptMatches, Known
    <2>2. /\ runtime' = [keys |-> [runtime.keys EXCEPT ![a.key] = Scope(a)],
                         index |-> [runtime.index EXCEPT ![rc.id] = rc]]
          /\ audits' = [audits EXCEPT ![rc.id] = @ + 1]
          /\ UNCHANGED <<plans, receipts>>
      BY <1>4, <2>1 DEF Admit
    <2>3. rc.id \in Rids /\ rc \in HostReceipts /\ rc # NoEntry
      BY ReceiptNamesThePlan DEF AdmissionTypeOK, HostReceipts
    <2>4. a.key \in Keys /\ Scope(a) \in ActionScopes /\ Scope(a) # NoEntry
      BY ReceiptNamesThePlan DEF Keys, ActionScopes
    <2>5. AdmissionTypeOK'
      BY <2>2, <2>3, <2>4 DEF AdmissionTypeOK
    <2>6. ASSUME NEW i \in Rids PROVE HeldByItsKey(i)'
      <3>1. CASE i = rc.id
        BY <3>1, <2>1, <2>2, <2>3, <2>4 DEF AdmissionTypeOK, HeldByItsKey
      <3>2. CASE i # rc.id
        <4>1. runtime'.index[i] = runtime.index[i] /\ audits'[i] = audits[i]
          BY <3>2, <2>2 DEF AdmissionTypeOK
        <4>2. \A k \in Keys : runtime'.keys[k] = IF k = a.key THEN Scope(a) ELSE runtime.keys[k]
          BY <2>2 DEF AdmissionTypeOK
        <4>3. runtime.index[i] # NoEntry => runtime.index[i].scope # NoEntry
          BY ReceiptNamesThePlan DEF AdmissionTypeOK, HostReceipts
        <4> QED  BY <4>1, <4>2, <4>3, <2>1, <2>2 DEF HeldByItsKey
      <3> QED  BY <3>1, <3>2
    <2> QED  BY <2>2, <2>5, <2>6 DEF OfAPlan
  <1>5. CASE NewProcess
    BY <1>5 DEF NewProcess, NoRuntime, AdmissionTypeOK, OfAPlan, HeldByItsKey
  <1>6. ASSUME NEW x, GoesStale(x) PROVE AdmissionInv'
    BY <1>1, <1>6 DEF GoesStale
  <1>7. ASSUME NEW m, AdmitReads(m) PROVE AdmissionInv'
    BY <1>1, <1>7 DEF AdmitReads
  <1> QED
    BY <1>1, <1>2, <1>3, <1>4, <1>5, <1>6, <1>7 DEF AdmissionNext, admissionVars

\* Within a process a key stands for one scope, and every admitted receipt is
\* of a plan and audited once, whatever order the receipts arrive in.
THEOREM KeysStandForOneScope == AdmissionSpec => []KeysNameOneScope
  <1>1. AdmissionInv => KeysNameOneScope
    <2> SUFFICES ASSUME AdmissionInv PROVE KeysNameOneScope
      OBVIOUS
    <2>1. ASSUME NEW rc \in Admitted
          PROVE  /\ rc \in receipts /\ rc.scope = runtime.keys[rc.key] /\ rc.scope.key = rc.key
                 /\ \E p \in plans : p.action = rc.action /\ p.scope = rc.scope
      <3>1. rc \in receipts /\ rc.scope = runtime.keys[rc.key]
        BY DEF Admitted, AdmissionInv, HeldByItsKey
      <3>2. PICK a \in Actions : /\ Plan(a) \in plans
                                 /\ rc.action = a.id /\ rc.key = a.key /\ rc.scope = Scope(a)
        BY <3>1 DEF AdmissionInv, OfAPlan
      <3>3. Plan(a).action = a.id /\ Plan(a).scope = Scope(a) /\ Scope(a).key = a.key
        BY DEF Plan, Scope
      <3> QED  BY <3>1, <3>2, <3>3
    <2>2. \A i \in Rids : audits[i] = IF runtime.index[i] = NoEntry THEN 0 ELSE 1
      BY DEF AdmissionInv, HeldByItsKey
    <2> QED  BY <2>1, <2>2 DEF KeysNameOneScope
  <1>2. AdmissionInv /\ [AdmissionNext]_admissionVars => AdmissionInv'
    BY AdmissionStep
  <1> QED  BY <1>1, <1>2, AdmissionBegins, PTL DEF AdmissionSpec

-----------------------------------------------------------------------------
(* Intake of case events.                                                   *)
IntakeTypeOK ==
    /\ timeline \in [CaseEvents -> Contents \cup {NoContent}]
    /\ arrived = timeline
    /\ processed \subseteq CaseEvents \X Contents

\* What the audit receipt of one content must say.
AdviceFits(c, advice) ==
    /\ ~advice.authorizes
    /\ c.class = "allegation" => "corroborate" \in advice.does
    /\ advice.levels \cap {"high", "critical"} # {} <=> "freeze_automation" \in advice.does

\* What was processed is on the timeline, and its audit receipt is the only one
\* of its event.
Receipted ==
    /\ \A p \in processed : /\ p[2] = timeline[p[1]]
                            /\ \E r \in auditLog : r.event = p[1]
    /\ \A r \in auditLog : /\ <<r.event, r.content>> \in processed
                           /\ AdviceFits(r.content, r.advice)
    /\ \A r, s \in auditLog : r.event = s.event => r = s

IntakeInv == IntakeTypeOK /\ Receipted

\* A severity is a number and its level tells whether it is alarming.
LEMMA LevelTellsAlarm ==
    ASSUME NEW t, t.weight \in Int, t.corroboration \in Int, t.urgency \in Int
    PROVE  Level(Severity(t)) \in {"high", "critical"} <=> Severity(t) >= 65
  <1>1. Within(0, t.corroboration, 5) \in 0..5
    BY DEF Within
  <1>2. t.weight + 7 * Within(0, t.corroboration, 5) + t.urgency \in Int
    BY <1>1
  <1>3. Severity(t) \in 0..100
    BY <1>2 DEF Severity, Within
  <1>4. \A n \in 0..100 : Level(n) \in {"high", "critical"} <=> n >= 65
    BY DEF Level
  <1> QED  BY <1>3, <1>4

\* The advice that process_event gives never authorizes, and freezes automation
\* exactly when a signal is high or critical.
LEMMA AdviceIsFit ==
    ASSUME NEW c \in Contents, NEW threats \in ThreatInputs, \A t \in threats : t.parses
    PROVE  AdviceFits(c, Advice(c, threats))
  <1> DEFINE levels == {Level(Severity(t)) : t \in threats}
             does == Recommended(c, threats)
  <1>1. levels \cap {"high", "critical"} # {} <=> Alarming(threats)
    <2>1. \A t \in threats : Level(Severity(t)) \in {"high", "critical"} <=> Severity(t) >= 65
      BY ThreatsAssumption, LevelTellsAlarm
    <2> QED  BY <2>1 DEF Alarming
  <1>2. Alarming(threats) <=> "freeze_automation" \in does
    BY DEF Recommended
  <1>3. c.class = "allegation" => "corroborate" \in does
    BY DEF Recommended
  <1>4. LET a == Advice(c, threats) IN a.does = does /\ a.levels = levels /\ a.authorizes = FALSE
    BY DEF Advice
  <1> HIDE DEF levels, does
  <1> QED  BY <1>1, <1>2, <1>3, <1>4 DEF AdviceFits

LEMMA IntakeBegins == IntakeInit => IntakeInv
  BY DEF IntakeInit, IntakeInv, IntakeTypeOK, Receipted

LEMMA IntakeStep ==
    ASSUME IntakeInv, [IntakeNext]_intakeVars
    PROVE  IntakeInv'
  <1> USE DEF IntakeInv
  <1>1. CASE UNCHANGED intakeVars
    BY <1>1 DEF intakeVars, IntakeTypeOK, Receipted
  <1>2. ASSUME NEW e \in CaseEvents, NEW c \in Contents, Enters(e, c)
        PROVE  /\ timeline[e] \in {NoContent, c} /\ <<e, c>> \notin processed
               /\ timeline' = [timeline EXCEPT ![e] = c] /\ arrived' = timeline'
               /\ \A p \in processed : p[1] # e /\ p[2] = timeline'[p[1]]
               /\ \A r \in auditLog : r.event # e
    <2>1. /\ timeline[e] \in {NoContent, c} /\ <<e, c>> \notin processed
          /\ timeline' = [timeline EXCEPT ![e] = c]
          /\ arrived' = [arrived EXCEPT ![e] = IF @ = NoContent THEN c ELSE @]
      BY <1>2 DEF Enters, Duplicate, Collides
    <2>2. arrived' = timeline'
      BY <2>1, NoContentAssumption DEF IntakeTypeOK
    <2>3. \A p \in processed : p[1] # e /\ p[2] = timeline'[p[1]]
      <3> SUFFICES ASSUME NEW p \in processed PROVE p[1] # e /\ p[2] = timeline'[p[1]]
        OBVIOUS
      <3>1. p = <<p[1], p[2]>> /\ p[1] \in CaseEvents /\ p[2] \in Contents /\ p[2] = timeline[p[1]]
        BY DEF IntakeTypeOK, Receipted
      <3>2. p[1] # e
        BY <3>1, <2>1, NoContentAssumption
      <3> QED  BY <3>1, <3>2, <2>1 DEF IntakeTypeOK
    <2>4. \A r \in auditLog : r.event # e
      BY <2>3 DEF Receipted
    <2> QED  BY <2>1, <2>2, <2>3, <2>4
  <1>3. ASSUME NEW e \in CaseEvents, NEW c \in Contents, NEW threats \in ThreatInputs,
               ProcessEvent(e, c, threats)
        PROVE  IntakeInv'
    <2> DEFINE new == [event |-> e, content |-> c, nth |-> Cardinality(auditLog),
                       advice |-> Advice(c, threats)]
    <2>1. /\ Enters(e, c) /\ \A t \in threats : t.parses
          /\ processed' = processed \cup {<<e, c>>} /\ auditLog' = auditLog \cup {new}
      BY <1>3 DEF ProcessEvent
    <2>2. new.event = e /\ new.content = c /\ AdviceFits(new.content, new.advice)
      BY <2>1, AdviceIsFit
    <2> HIDE DEF new
    <2>3. /\ timeline' = [timeline EXCEPT ![e] = c] /\ arrived' = timeline'
          /\ timeline[e] \in {NoContent, c} /\ <<e, c>> \notin processed
          /\ \A p \in processed : p[1] # e /\ p[2] = timeline'[p[1]]
          /\ \A r \in auditLog : r.event # e
      BY <2>1, <1>2
    <2>4. IntakeTypeOK'
      BY <2>1, <2>3 DEF IntakeTypeOK
    <2>5. \A p \in processed' : /\ p[2] = timeline'[p[1]]
                                /\ \E r \in auditLog' : r.event = p[1]
      BY <2>1, <2>2, <2>3 DEF IntakeTypeOK, Receipted
    <2>6. \A r \in auditLog' : /\ <<r.event, r.content>> \in processed'
                               /\ AdviceFits(r.content, r.advice)
      BY <2>1, <2>2, <2>3 DEF Receipted
    <2>7. \A r, s \in auditLog' : r.event = s.event => r = s
      BY <2>1, <2>2, <2>3 DEF Receipted
    <2> QED  BY <2>4, <2>5, <2>6, <2>7 DEF Receipted
  <1>4. ASSUME NEW e \in CaseEvents, NEW c \in Contents, NEW threats \in ThreatInputs,
               ProcessRaises(e, c, threats)
        PROVE  IntakeInv'
    <2>1. Enters(e, c) /\ UNCHANGED <<processed, auditLog>>
      BY <1>4 DEF ProcessRaises
    <2>2. /\ timeline' = [timeline EXCEPT ![e] = c] /\ arrived' = timeline'
          /\ timeline[e] \in {NoContent, c} /\ <<e, c>> \notin processed
          /\ \A p \in processed : p[1] # e /\ p[2] = timeline'[p[1]]
          /\ \A r \in auditLog : r.event # e
      BY <2>1, <1>2
    <2> QED  BY <2>1, <2>2 DEF IntakeTypeOK, Receipted
  <1> QED  BY <1>1, <1>3, <1>4 DEF IntakeNext

\* However often an event is sent again, changed or after a failure, it stays
\* as it first arrived and leaves one audit receipt once it was processed.
THEOREM ArrivedOnceAuditedOnce == IntakeSpec => []EventsAreAudited
  <1>1. IntakeInv => EventsAreAudited
    <2> SUFFICES ASSUME IntakeInv, NEW e \in CaseEvents
                 PROVE  LET mine == {r \in auditLog : r.event = e}
                        IN  /\ timeline[e] = arrived[e]
                            /\ Cardinality(mine) = Cardinality({p \in processed : p[1] = e})
                            /\ Cardinality(mine) <= 1
                            /\ \A r \in mine :
                                 /\ r.content = timeline[e] /\ ~r.advice.authorizes
                                 /\ timeline[e].class = "allegation" => "corroborate" \in r.advice.does
                                 /\ r.advice.levels \cap {"high", "critical"} # {}
                                       <=> "freeze_automation" \in r.advice.does
      BY DEF EventsAreAudited
    <2> DEFINE mine == {r \in auditLog : r.event = e}
               seen == {p \in processed : p[1] = e}
    <2>1. timeline[e] = arrived[e]
      BY DEF IntakeInv, IntakeTypeOK
    <2>2. \A r \in mine : /\ <<e, r.content>> \in processed /\ r.content = timeline[e]
                          /\ AdviceFits(r.content, r.advice)
      <3> SUFFICES ASSUME NEW r \in mine
                   PROVE  /\ <<e, r.content>> \in processed /\ r.content = timeline[e]
                          /\ AdviceFits(r.content, r.advice)
        OBVIOUS
      <3>1. <<e, r.content>> \in processed /\ AdviceFits(r.content, r.advice)
        BY DEF IntakeInv, Receipted
      <3>2. <<e, r.content>>[1] = e /\ <<e, r.content>>[2] = r.content
        OBVIOUS
      <3> QED  BY <3>1, <3>2 DEF IntakeInv, Receipted
    <2>3. \/ mine = {} /\ seen = {}
          \/ \E r, p : mine = {r} /\ seen = {p}
      <3>1. CASE seen = {}
        <4>1. ASSUME NEW r \in mine PROVE FALSE
          <5>1. <<e, r.content>> \in seen
            BY <2>2
          <5> QED  BY <5>1, <3>1
        <4> QED  BY <4>1, <3>1
      <3>2. CASE seen # {}
        <4>1. PICK p \in seen : TRUE
          BY <3>2
        <4>2. PICK r \in mine : TRUE
          BY <4>1 DEF IntakeInv, Receipted
        <4>3. \A q \in seen : q = <<e, timeline[e]>>
          <5> SUFFICES ASSUME NEW q \in seen PROVE q = <<e, timeline[e]>>
            OBVIOUS
          <5>1. q = <<q[1], q[2]>> /\ q[1] = e /\ q[2] = timeline[q[1]]
            BY DEF IntakeInv, IntakeTypeOK, Receipted
          <5> QED  BY <5>1
        <4>4. mine = {r}
          BY <4>2 DEF IntakeInv, Receipted
        <4>5. seen = {p}
          BY <4>1, <4>3
        <4> QED  BY <4>4, <4>5
      <3> QED  BY <3>1, <3>2
    <2>4. Cardinality(mine) = Cardinality(seen) /\ Cardinality(mine) <= 1
      <3> HIDE DEF mine, seen
      <3>1. CASE mine = {} /\ seen = {}
        BY <3>1, FS_EmptySet
      <3>2. ASSUME NEW r, NEW p, mine = {r}, seen = {p}
            PROVE  Cardinality(mine) = Cardinality(seen) /\ Cardinality(mine) <= 1
        <4>1. Cardinality({r}) = 1 /\ Cardinality({p}) = 1
          BY FS_Singleton
        <4> QED  BY <4>1, <3>2
      <3> QED  BY <2>3, <3>1, <3>2
    <2> QED  BY <2>1, <2>2, <2>4 DEF AdviceFits
  <1>2. IntakeInv /\ [IntakeNext]_intakeVars => IntakeInv'
    BY IntakeStep
  <1> QED  BY <1>1, <1>2, IntakeBegins, PTL DEF IntakeSpec

-----------------------------------------------------------------------------
(* Authorization of a frontier.                                             *)
\* The claims that the inputs name, as the receipt's enumeration hashed them.
NamedByReceipt ==
    LET e == receipt.pins["enumeration"] IN UNION {e.hashes[i] : i \in e.inputs}

\* What holds of the receipt once the base authority has passed.
BaseHeld ==
    /\ receipt.frontier = FrontierOf(discovered)
    /\ discovered = {record.claim : record \in receipt.lineage}
    /\ discovered = receipt.pins["completeness"].required
    /\ discovered # {} => receipt.overtaken = "no"
    /\ \A record \in receipt.lineage :
         /\ providerSaid # Gone /\ providerSaid = record.evidence
         /\ record.claim \in providerSaid.claims /\ providerSaid.verified

\* Each validation stands on those before it.
FrontierInv ==
    /\ validation \in {"discover", "base", "collector", "identity", "execution", "authorized", "refused"}
    /\ validation \notin {"discover", "refused"} /\ receipt.enumerated => discovered = NamedByReceipt
    /\ validation \in {"collector", "identity", "execution", "authorized"} => BaseHeld
    /\ validation \in {"identity", "execution", "authorized"} => receipt.enumerated

LEMMA FrontierBegins == FrontierInit => FrontierInv
  BY DEF FrontierInit, FrontierInv

LEMMA FrontierStep ==
    ASSUME FrontierInv, [FrontierNext]_frontierVars
    PROVE  FrontierInv'
  <1>1. CASE UNCHANGED frontierVars \/ EditSource
    <2>1. UNCHANGED <<receipt, validation, discovered, providerSaid>>
      BY <1>1 DEF frontierVars, EditSource
    <2> QED  BY <2>1 DEF FrontierInv, NamedByReceipt, BaseHeld
  <1>2. CASE Discover
    <2>1. /\ receipt' = receipt /\ validation' \in {"base", "refused"}
          /\ validation' = "base" /\ receipt.enumerated =>
               EnumerationValid /\ discovered' = NamedIn(sources["enumeration"].inputs)
      BY <1>2 DEF Discover, Onward
    <2>2. ASSUME EnumerationValid PROVE NamedIn(sources["enumeration"].inputs) = NamedByReceipt
      <3> DEFINE e == sources["enumeration"]
      <3>1. e = receipt.pins["enumeration"] /\ \A i \in e.inputs : sources[i] # Gone /\ e.hashes[i] = sources[i]
        BY <2>2 DEF EnumerationValid, Pinned, InputsAsHashed
      <3>2. {j \in e.inputs : sources[j] # Gone} = e.inputs
        BY <3>1
      <3>3. {sources[i] : i \in e.inputs} = {e.hashes[i] : i \in e.inputs}
        BY <3>1
      <3> QED  BY <3>1, <3>2, <3>3 DEF NamedIn, NamedByReceipt
    <2>3. NamedByReceipt' = NamedByReceipt
      BY <2>1 DEF NamedByReceipt
    <2> QED  BY <2>1, <2>2, <2>3 DEF FrontierInv
  <1>3. CASE AuthorizeBase
    <2>1. /\ UNCHANGED <<receipt, discovered>> /\ providerSaid' = sources["provider"] /\ validation = "base" /\ validation' \in {"collector", "refused"}
          /\ validation' = "collector" =>
               receipt.frontier = FrontierOf(discovered) /\ LineageCurrent /\ CompletenessProven
      BY <1>3 DEF AuthorizeBase, Onward
    <2>2. ASSUME receipt.frontier = FrontierOf(discovered), LineageCurrent, CompletenessProven PROVE BaseHeld'
      <3>1. /\ {record.claim : record \in receipt.lineage} = discovered
            /\ \A record \in receipt.lineage : receipt.overtaken = "no" /\ EvidenceVerified(record)
        BY <2>2 DEF LineageCurrent
      <3>2. receipt.pins["completeness"].required = discovered
        BY <2>2 DEF CompletenessProven, Pinned
      <3> QED  BY <2>1, <2>2, <3>1, <3>2 DEF BaseHeld, EvidenceVerified
    <2>3. NamedByReceipt' = NamedByReceipt
      BY <2>1 DEF NamedByReceipt
    <2> QED  BY <2>1, <2>2, <2>3 DEF FrontierInv
  <1>4. CASE AuthorizeCollector \/ AuthorizeVerifier \/ AuthorizeExecution
    <2>1. /\ UNCHANGED <<receipt, discovered, providerSaid>>
          /\ \/ validation' = "refused"
             \/ validation = "collector" /\ validation' = "identity" /\ receipt.enumerated
             \/ validation = "identity" /\ validation' = "execution"
             \/ validation = "execution" /\ validation' = "authorized"
      BY <1>4 DEF AuthorizeCollector, AuthorizeVerifier, AuthorizeExecution, Onward, CollectorAttested
    <2>2. NamedByReceipt' = NamedByReceipt /\ BaseHeld' = BaseHeld
      BY <2>1 DEF NamedByReceipt, BaseHeld
    <2> QED  BY <2>1, <2>2 DEF FrontierInv
  <1> QED  BY <1>1, <1>2, <1>3, <1>4 DEF FrontierNext

\* Whatever is edited while the validations run, only the claims that the
\* hashed inputs name are authorized, each verified by its provider's record.
THEOREM AuthorizedByTheInputs == FrontierSpec => []AuthorizedIsComplete
  <1>1. FrontierInv => AuthorizedIsComplete
    BY DEF FrontierInv, BaseHeld, NamedByReceipt, AuthorizedIsComplete
  <1>2. FrontierInv /\ [FrontierNext]_frontierVars => FrontierInv'
    BY FrontierStep
  <1> QED  BY <1>1, <1>2, FrontierBegins, PTL DEF FrontierSpec

-----------------------------------------------------------------------------
(* The execution fabric.                                                    *)
\* An answer after which another substrate may be tried.
Refuses(answer) ==
    \/ answer.form = "raised" \/ answer.state \in {"failed", "timed_out"}
    \/ ~Bare(answer) /\ (answer.error \/ answer.ok = "false")

\* An answer that counts as delivered.
Delivers(answer) ==
    /\ answer.form # "raised" /\ answer.state \notin {"failed", "timed_out", "pending"}
    /\ workload.receipts => ~Bare(answer) /\ answer.receipt
    /\ workload.readback => ~Bare(answer) /\ answer.readback

\* What the outcome of the walk says of the attempts.
OutcomeStands ==
    /\ delivered = "route_exhausted" =>
         /\ \A n \in 1..Len(attempts) : Refuses(attempts[n].answer)
         /\ \A s \in Routes : \E n \in 1..Len(attempts) : attempts[n].substrate = s
    /\ delivered = "success" =>
         /\ attempts # <<>> /\ attempts[Len(attempts)].substrate \in Routes
         /\ Delivers(attempts[Len(attempts)].answer)

\* When the n-th attempt was made on a warned route, only such were left.
Preferred(n) ==
    Warned(sighted[attempts[n].substrate]) =>
        \A s \in Routes : Warned(sighted[s]) \/ \E m \in 1..n : attempts[m].substrate = s

AttemptRows == [substrate : Substrates, answer : Replies, landed : BOOLEAN]

FabricInv ==
    /\ attempts \in Seq(AttemptRows)
    /\ delivered = "planning" => attempts = <<>>
    /\ \A n \in 1..Len(attempts) :
         n < Len(attempts) \/ delivered = "trying" => Refuses(attempts[n].answer)
    /\ \A n \in 1..Len(attempts) : Preferred(n)
    /\ OutcomeStands

LEMMA FabricBegins == FabricInit => FabricInv
  BY DEF FabricInit, FabricInv, OutcomeStands

\* Only a refusal sends the fabric on to the next route, and what it counts as
\* delivered is proven.
LEMMA OnlyRefusalsGoOn ==
    ASSUME NEW answer \in Replies
    PROVE  /\ Denied(answer) => Refuses(answer)
           /\ ~Denied(answer) => Delivered(answer) \in {"pending", "success", "unconfirmed"}
           /\ ~Denied(answer) /\ Delivered(answer) = "success" => Delivers(answer)
  <1>1. ProviderOutcome(answer) \in {"failed", "pending", "success", "unconfirmed"}
    BY RepliesAssumption DEF ProviderOutcome, Bare
  <1>2. ProviderOutcome(answer) = "failed" => Refuses(answer)
    BY DEF ProviderOutcome, Refuses
  <1>3. /\ Delivered(answer) = "failed" => ProviderOutcome(answer) = "failed"
        /\ Delivered(answer) \in {"failed", "pending", "success", "unconfirmed"}
        /\ Delivered(answer) = "success" => ProviderOutcome(answer) = "success" /\ Proven(answer)
    BY <1>1 DEF Delivered
  <1>4. ProviderOutcome(answer) = "success" => answer.state \notin {"failed", "timed_out", "pending"}
    BY DEF ProviderOutcome
  <1> QED  BY <1>2, <1>3, <1>4 DEF Denied, Refuses, Delivers, Proven

LEMMA FabricStep ==
    ASSUME FabricInv, [FabricNext]_fabricVars
    PROVE  FabricInv'
  <1> USE DEF FabricInv
  <1>1. CASE UNCHANGED fabricVars \/ Exhaust
    <2>1. UNCHANGED <<workload, sighted, attempts>> /\ (delivered' = delivered \/ delivered' \notin {"planning", "trying"})
      BY <1>1 DEF fabricVars, Exhaust
    <2>2. \A n \in 1..Len(attempts) : Preferred(n)' <=> Preferred(n)
      BY <2>1 DEF Preferred, Routes, Eligible, Warned
    <2>3. OutcomeStands'
      <3>1. Routes' = Routes /\ \A answer \in Replies : Delivers(answer)' = Delivers(answer)
        BY <2>1 DEF Routes, Eligible, Delivers
      <3>2. CASE UNCHANGED fabricVars
        <4>1. delivered' = delivered
          BY <3>2 DEF fabricVars
        <4> QED  BY <2>1, <4>1 DEF OutcomeStands, Delivers, Routes, Eligible
      <3>3. CASE Exhaust
        <4>1. delivered = "trying" /\ Routes \subseteq Tried /\ delivered' # "success"
          BY <3>3 DEF Exhaust
        <4>2. \A n \in 1..Len(attempts) : Refuses(attempts[n].answer)
          BY <4>1
        <4>3. \A s \in Routes : \E n \in 1..Len(attempts) : attempts[n].substrate = s
          BY <4>1 DEF Tried
        <4> QED  BY <2>1, <3>1, <4>1, <4>2, <4>3 DEF OutcomeStands
      <3> QED  BY <1>1, <3>2, <3>3
    <2> QED  BY <2>1, <2>2, <2>3
  <1>2. CASE Observe
    <2>1. attempts = <<>> /\ attempts' = attempts /\ delivered' = "trying"
      BY <1>2 DEF Observe
    <2> QED  BY <2>1 DEF OutcomeStands
  <1>3. ASSUME NEW s \in Substrates, Attempt(s) PROVE FabricInv'
    <2>1. PICK answer \in Replies, landed \in BOOLEAN :
            /\ attempts' = Append(attempts, [substrate |-> s, answer |-> answer, landed |-> landed])
            /\ delivered' = IF Denied(answer) THEN delivered ELSE Delivered(answer)
      BY <1>3 DEF Attempt
    <2>2. /\ delivered = "trying" /\ s \in Routes /\ s \notin Tried /\ UNCHANGED <<workload, sighted>>
          /\ \A t \in Routes \ (Tried \cup {s}) : Precedes(s, t)
      BY <1>3 DEF Attempt
    <2> DEFINE row == [substrate |-> s, answer |-> answer, landed |-> landed]
    <2>3. row \in AttemptRows
      BY DEF AttemptRows
    <2>4. /\ attempts' \in Seq(AttemptRows) /\ Len(attempts) \in Nat /\ Len(attempts') = Len(attempts) + 1
          /\ \A n \in 1..Len(attempts) : attempts'[n] = attempts[n]
          /\ attempts'[Len(attempts) + 1] = row
      <3> HIDE DEF row
      <3>1. attempts' = Append(attempts, row)
        BY <2>1 DEF row
      <3> QED  BY <2>3, <3>1
    <2>5. ASSUME NEW n \in 1..Len(attempts'), n < Len(attempts') \/ delivered' = "trying"
          PROVE  Refuses(attempts'[n].answer)
      <3>1. CASE n \in 1..Len(attempts)
        BY <2>2, <2>4, <3>1
      <3>2. CASE n = Len(attempts) + 1
        <4>1. delivered' = "trying" /\ attempts'[n].answer = answer
          BY <2>4, <2>5, <3>2
        <4>2. Denied(answer)
          BY <2>1, <4>1, OnlyRefusalsGoOn
        <4> QED  BY <4>1, <4>2, OnlyRefusalsGoOn
      <3> QED  BY <2>4, <3>1, <3>2
    <2>6. ASSUME NEW n \in 1..Len(attempts') PROVE Preferred(n)'
      <3>1. Routes' = Routes /\ \A t \in Substrates : Warned(sighted[t])' = Warned(sighted[t])
        BY <2>2 DEF Routes, Eligible, Warned
      <3>2. CASE n \in 1..Len(attempts)
        <4>1. Preferred(n) /\ \A m \in 1..n : attempts'[m] = attempts[m]
          BY <2>4, <3>2
        <4> QED  BY <2>2, <2>4, <3>1, <3>2, <4>1 DEF Preferred, Warned
      <3>3. CASE n = Len(attempts) + 1
        <4>1. attempts'[n].substrate = s
          BY <2>4, <3>3
        <4>2. ASSUME NEW t \in Routes, Warned(sighted[s]), ~Warned(sighted[t])
              PROVE  \E m \in 1..n : attempts'[m].substrate = t
          <5>1. ~Precedes(s, t) /\ t # s
            BY <4>2 DEF Precedes
          <5>2. t \in Tried
            BY <2>2, <5>1
          <5>3. PICK m \in 1..Len(attempts) : attempts[m].substrate = t
            BY <5>2, <2>4 DEF Tried
          <5> QED  BY <2>4, <3>3, <5>3
        <4> QED  BY <2>2, <3>1, <4>1, <4>2 DEF Preferred, Warned
      <3> QED  BY <2>4, <3>2, <3>3
    <2>7. delivered' \in {"trying", "pending", "success", "unconfirmed"}
      BY <2>1, <2>2, OnlyRefusalsGoOn
    <2>8. OutcomeStands'
      <3>1. delivered' = "success" => Delivers(answer)
        BY <2>1, <2>2, OnlyRefusalsGoOn
      <3>2. Routes' = Routes /\ (Delivers(answer)' <=> Delivers(answer))
        BY <2>2 DEF Routes, Eligible, Delivers
      <3>3. attempts' # <<>> /\ attempts'[Len(attempts')].substrate = s /\ attempts'[Len(attempts')].answer = answer
        BY <2>4
      <3> QED  BY <2>2, <2>7, <3>1, <3>2, <3>3 DEF OutcomeStands
    <2> QED  BY <2>4, <2>5, <2>6, <2>7, <2>8
  <1> QED  BY <1>1, <1>2, <1>3 DEF FabricNext

\* Whatever the substrates answer, only a failure has the work tried elsewhere,
\* the outcome reported is that of the attempts, and a warned route comes after
\* all that are not.
THEOREM FallbacksAreSeen == FabricSpec => []AnswersAreFinal
  <1>1. FabricInv => AnswersAreFinal
    BY DEF FabricInv, OutcomeStands, Preferred, Refuses, Delivers, AnswersAreFinal
  <1>2. FabricInv /\ [FabricNext]_fabricVars => FabricInv'
    BY FabricStep
  <1> QED  BY <1>1, <1>2, FabricBegins, PTL DEF FabricSpec

-----------------------------------------------------------------------------
(* The lanes of a case.                                                     *)
LaneStates == Early \cup {"TRANSMITTED", "ACK_PENDING", "QUARANTINED"} \cup Reviewing

LanesTypeOK ==
    lanes \in [Lanes -> [state : LaneStates, recipient : Recipients \cup {""}, phone : BOOLEAN,
                         packet : Nat, tracked : BOOLEAN, due : BOOLEAN, delivery : BOOLEAN]]

\* A decision to transmit is taken from one state only, with no row in sight.
Decided(d) ==
    /\ d = [lane |-> d.lane, kind |-> d.kind, state |-> d.state,
            target |-> d.target, packet |-> d.packet, known |-> d.known]
    /\ d.kind = "transmit" => d.state = "REFERRAL_READY" /\ ~d.known

\* An action is of a decision, and its key is of the decision and the target.
OfADecision(a) ==
    /\ Decided(a.decision)
    /\ a = [key |-> <<a.decision.lane, a.decision.kind, a.decision.state, a.decision.target,
                      a.decision.packet, a.target>>,
            decision |-> a.decision, target |-> a.target]

LanesInv ==
    /\ LanesTypeOK
    /\ DOMAIN decisions = Lanes
    /\ \A lane \in Lanes : decisions[lane] = NoDecision \/ Decided(decisions[lane])
    /\ \A a \in prepared : OfADecision(a)
    /\ \A a, b \in prepared : a.key = b.key => a = b

LEMMA LanesBegin == LanesInit => LanesInv
  <1> SUFFICES ASSUME LanesInit PROVE LanesInv
    OBVIOUS
  <1>1. "EVIDENCE_TRIGGERED" \in LaneStates
    BY DEF LaneStates, Early, Building
  <1>2. LanesTypeOK
    BY <1>1 DEF LanesInit, LanesTypeOK
  <1> QED  BY <1>2 DEF LanesInit, LanesInv

LEMMA LanesGoForward ==
    ASSUME NEW from \in LaneStates
    PROVE  AllowedForward[from] \subseteq LaneStates
  BY DEF AllowedForward, LaneStates, Early, Building, Reviewing

LEMMA TransmitIsReferred ==
    ASSUME NEW l, l.state \in LaneStates, NEW rows, ActionKind(l, rows) = "transmit"
    PROVE  EffectiveState(l, rows) = "REFERRAL_READY" /\ rows = {}
  <1>1. EffectiveState(l, rows) \in LaneStates
    BY DEF EffectiveState, Assigned, LaneStates, Early, Building, Reviewing
  <1> DEFINE s == EffectiveState(l, rows)
  <1> HIDE DEF s
  <1>2. /\ s \in Building => FALSE
        /\ s \in Reviewing \cup {"TRANSMITTED", "ACK_PENDING", "QUARANTINED"} => FALSE
    BY DEF ActionKind, s, Building, Reviewing
  <1>3. s = "REFERRAL_READY"
    BY <1>1, <1>2 DEF s, LaneStates, Early
  <1>4. rows = {}
    BY <1>3 DEF ActionKind, s, Building
  <1> QED  BY <1>3, <1>4 DEF s

LEMMA LanesStep ==
    ASSUME LanesInv, LanesNext
    PROVE  LanesInv'
  <1> USE DEF LanesInv
  <1>1. ASSUME NEW lane \in Lanes, Decide(lane) PROVE LanesInv'
    <2> DEFINE l == lanes[lane]
               rows == OutboundRows(lane)
               kind == ActionKind(l, rows)
               decision == [lane |-> lane, kind |-> kind, state |-> EffectiveState(l, rows),
                            target |-> Target(l), packet |-> l.packet, known |-> outbounds # {}]
    <2>1. /\ UNCHANGED <<lanes, prepared>> /\ LanesTypeOK'
          /\ decisions' = [decisions EXCEPT ![lane] =
               IF kind \notin ExternalKinds \cap ActionKinds THEN NoDecision ELSE decision]
      BY <1>1 DEF Decide, LanesTypeOK
    <2>2. l.state \in LaneStates /\ rows = outbounds
      BY DEF LanesTypeOK, OutboundRows
    <2>3. kind = "transmit" => EffectiveState(l, rows) = "REFERRAL_READY" /\ (outbounds # {}) = FALSE
      <3> HIDE DEF l, rows
      <3> QED  BY <2>2, TransmitIsReferred DEF kind
    <2>4. Decided(decision)
      <3> HIDE DEF l, rows, kind
      <3> QED  BY <2>3 DEF Decided
    <2>5. decisions'[lane] = NoDecision \/ Decided(decisions'[lane])
      <3> HIDE DEF decision, kind
      <3> QED  BY <2>1, <2>4
    <2>6. DOMAIN decisions' = Lanes /\ \A m \in Lanes \ {lane} : decisions'[m] = decisions[m]
      BY <2>1
    <2> HIDE DEF l, rows, kind, decision
    <2> QED  BY <2>1, <2>5, <2>6
  <1>2. ASSUME NEW lane \in Lanes, Prepare(lane) PROVE LanesInv'
    <2> DEFINE action == Envelope(decisions[lane], lanes[lane])
    <2>1. /\ decisions[lane] # NoDecision /\ \A a \in prepared : a.key # action.key
          /\ prepared' = prepared \cup {action} /\ UNCHANGED <<lanes, decisions>>
      BY <1>2 DEF Prepare
    <2>2. OfADecision(action)
      BY <2>1 DEF Envelope, OfADecision
    <2> HIDE DEF action
    <2> QED  BY <2>1, <2>2 DEF LanesTypeOK
  <1>3. ASSUME NEW lane \in Lanes, MoveLane(lane) \/ LaneEdited(lane) PROVE LanesInv'
    <2>1. UNCHANGED <<decisions, prepared>>
      BY <1>3 DEF MoveLane, LaneEdited
    <2>2. LanesTypeOK'
      <3>1. CASE MoveLane(lane)
        <4>1. PICK state \in AllowedForward[lanes[lane].state] : lanes' = [lanes EXCEPT ![lane].state = state]
          BY <3>1 DEF MoveLane
        <4>2. state \in LaneStates
          BY LanesGoForward DEF LanesTypeOK
        <4> QED  BY <4>1, <4>2 DEF LanesTypeOK
      <3>2. CASE LaneEdited(lane)
        <4>1. CASE lanes' = [lanes EXCEPT ![lane].packet = lanes[lane].packet + 1]
          <5>1. lanes[lane].packet + 1 \in Nat
            <6>1. LanesTypeOK
              OBVIOUS
            <6>2. lanes[lane].packet \in Nat
              BY ONLY <6>1, lane \in Lanes DEF LanesTypeOK
            <6> QED  BY <6>2
          <5> DEFINE packet == lanes[lane].packet + 1
          <5>2. packet \in Nat /\ lanes' = [lanes EXCEPT ![lane].packet = packet]
            BY <4>1, <5>1
          <5> HIDE DEF packet
          <5> QED  BY <5>2 DEF LanesTypeOK
        <4>3. ASSUME NEW recipient \in Recipients \cup {""}, lanes' = [lanes EXCEPT ![lane].recipient = recipient]
              PROVE  LanesTypeOK'
          BY <4>3 DEF LanesTypeOK
        <4>2. ASSUME NEW field \in {"phone", "tracked", "due", "delivery"}, lanes' = [lanes EXCEPT ![lane][field] = TRUE]
              PROVE  LanesTypeOK'
          <5>1. CASE field = "tracked"
            BY <4>2, <5>1 DEF LanesTypeOK
          <5>2. CASE field = "due"
            BY <4>2, <5>2 DEF LanesTypeOK
          <5>3. CASE field = "delivery"
            BY <4>2, <5>3 DEF LanesTypeOK
          <5>4. CASE field = "phone"
            BY <4>2, <5>4 DEF LanesTypeOK
          <5> QED  BY <5>1, <5>2, <5>3, <5>4
        <4> QED  BY <3>2, <4>1, <4>2, <4>3 DEF LaneEdited
      <3> QED  BY <1>3, <3>1, <3>2
    <2> QED  BY <2>1, <2>2
  <1>4. ASSUME NEW lane, NEW status, LedgerRow(lane, status) PROVE LanesInv'
    BY <1>4 DEF LedgerRow, LanesTypeOK
  <1> QED  BY <1>1, <1>2, <1>3, <1>4 DEF LanesNext

\* Of two transmissions of a packet the keys differ in a target at most.
LEMMA OnePacketOneKey ==
    ASSUME LanesInv
    PROVE  OneOutbound
  <1>1. ASSUME NEW a \in prepared, a.decision.kind = "transmit"
        PROVE  ~a.decision.known
    BY <1>1 DEF LanesInv, OfADecision, Decided
  <1>2. ASSUME NEW a \in prepared, NEW b \in prepared,
               a.decision.kind = "transmit", b.decision.kind = "transmit",
               a.decision.lane = b.decision.lane, a.decision.packet = b.decision.packet,
               a.target = b.target, a.decision.target = b.decision.target
        PROVE  a = b
    <2>1. a.decision.state = b.decision.state
      BY <1>2 DEF LanesInv, OfADecision, Decided
    <2>2. a.key = b.key
      BY <1>2, <2>1 DEF LanesInv, OfADecision
    <2> QED  BY <2>2 DEF LanesInv
  <1> QED  BY <1>1, <1>2 DEF OneOutbound

\* However late decisions are acted on and whatever is edited meanwhile, none is
\* to transmit once the ledger had a row of the case, and a packet is prepared
\* once for each target the lane named at the decision and at the act.
THEOREM TransmittedOnce == CaseSpec => []OneOutbound
  <1>1. LanesInv /\ [LanesNext \/ PursuitNext]_caseVars => LanesInv'
    <2> SUFFICES ASSUME LanesInv, [LanesNext \/ PursuitNext]_caseVars PROVE LanesInv'
      OBVIOUS
    <2>1. CASE UNCHANGED laneVars
      BY <2>1 DEF LanesInv, LanesTypeOK, laneVars
    <2>2. PursuitNext \/ UNCHANGED caseVars => UNCHANGED laneVars
      BY DEF PursuitNext, NextPursuitStep, DispatchPursuit, FindingChanges, HistoryGrows, caseVars
    <2> QED  BY <2>1, <2>2, LanesStep
  <1> QED  BY <1>1, OnePacketOneKey, LanesBegin, PTL DEF CaseSpec

-----------------------------------------------------------------------------
(* The gates of a starting interpreter.                                     *)
Recorders == {"record", "opened", "flushed"}

AttractorProof(proof) ==
    proof # NoSeal =>
      LET row == proof.receipt.attractor IN
      /\ \A key \in RoleKeys :
           /\ row.roles[key] = proof.policy.roles[key]
           /\ row.roles[key] = proof.read[key].roles[key]
           /\ row.evidence[key].cited = proof.read[key]
      /\ row.continuity = "yes" => row.identity = proof.receipt.frontier.identity

NotionProof(proof) == proof # NoSeal => proof.policy.pages \subseteq proof.receipt.notion.pages

\* The evidence of a role stood against what was read for it.
Stood(policy, row, read, key) ==
    row.evidence[key].cited = read[key] /\ read[key].roles[key] = policy.roles[key]

\* A receipt whose roles are being verified: the roles seen without an error stood.
Verifying(h) ==
    /\ h = [at |-> "receipt", policy |-> h.policy, receipt |-> h.receipt,
            left |-> h.left, errors |-> h.errors, read |-> h.read]
    /\ DOMAIN h.read = RoleKeys \ h.left
    /\ \A key \in RoleKeys \ h.left :
         <<"evidence", key>> \in h.errors \/ Stood(h.policy, h.receipt.attractor, h.read, key)

\* What an interpreter has in hand can only seal, or change the status of, a
\* gate that is not sealed.
HandsOK(p) ==
    LET h == hands[p] IN
    /\ h.at \in {"idle", "policy", "receipt", "exited"} \cup Recorders
    /\ h.at = "policy" => h.gate \in Gates /\ seals[p][h.gate] = NoSeal
    /\ h.at = "receipt" => seals[p]["attractor"] = NoSeal /\ Verifying(h)
    /\ h.at \in Recorders /\ h.id.kind = "uplift_required" =>
         h.id.gate = "attractor" /\ seals[p]["attractor"] = NoSeal
    /\ h.at = "opened" => h = [at |-> "opened", id |-> h.id, name |-> h.name]

SealsOK(p) ==
    /\ DOMAIN seals[p] = Gates /\ DOMAIN gateStatus[p] = Gates
    /\ \A gate \in Gates : seals[p][gate] # NoSeal => gateStatus[p][gate] = "complete"
    /\ AttractorProof(seals[p]["attractor"]) /\ NotionProof(seals[p]["notion"])

GatesInv ==
    /\ DOMAIN hands = Boots /\ DOMAIN seals = Boots /\ DOMAIN gateStatus = Boots
    /\ \A p \in Boots : HandsOK(p) /\ SealsOK(p)

LEMMA GatesBegin == StartupInit => GatesInv
  BY DEF StartupInit, GatesInv, HandsOK, SealsOK, Resting, Recorders, AttractorProof, NotionProof, NoSeal, Gates

\* A receipt without errors stands for what its proof says of it.
LEMMA NoErrorsNoDoubt ==
    /\ \A policy, read, r : \A authorized \in BOOLEAN :
         StatedErrors(policy, r, authorized) = {}
           /\ (\A key \in RoleKeys : Stood(policy, r.attractor, read, key)) =>
             AttractorProof([receipt |-> r, policy |-> policy, read |-> read])
    /\ \A policy, r : NotionErrors(policy, r) = {} => NotionProof([receipt |-> r, policy |-> policy])
  <1>1. ASSUME NEW policy, NEW read, NEW r, NEW authorized \in BOOLEAN,
               StatedErrors(policy, r, authorized) = {},
               \A key \in RoleKeys : Stood(policy, r.attractor, read, key)
        PROVE  AttractorProof([receipt |-> r, policy |-> policy, read |-> read])
    <2> DEFINE row == r.attractor
    <2>1. /\ {k \in RoleKeys : row.roles[k] # policy.roles[k]} = {}
          /\ row.continuity = "yes" => ContinuityErrors(policy, r, authorized) = {}
      BY <1>1 DEF StatedErrors
    <2>2. \A key \in RoleKeys : row.roles[key] = policy.roles[key]
      BY <2>1
    <2>3. row.continuity = "yes" => Aligned(row, r.frontier, authorized)
      BY <2>1 DEF ContinuityErrors
    <2> QED  BY <1>1, <2>2, <2>3 DEF AttractorProof, Aligned, Stood
  <1>2. ASSUME NEW policy, NEW r, NotionErrors(policy, r) = {}
        PROVE  NotionProof([receipt |-> r, policy |-> policy])
    <2>1. {<<"page", page>> : page \in policy.pages \ r.notion.pages} = {}
      BY <1>2 DEF NotionErrors, PageErrors
    <2>2. policy.pages \subseteq r.notion.pages
      BY <2>1
    <2> QED  BY <2>2 DEF NotionProof
  <1> QED  BY <1>1, <1>2

\* What another interpreter does leaves one's hands, seals and statuses alone;
\* at most the file it has open gets another name.
LEMMA OthersStay ==
    ASSUME GatesInv, NEW q \in Boots, seals'[q] = seals[q], gateStatus'[q] = gateStatus[q],
           \/ hands'[q] = hands[q]
           \/ hands[q].at = "opened" /\ \E name : hands'[q] = [hands[q] EXCEPT !.name = name]
    PROVE  HandsOK(q)' /\ SealsOK(q)'
  <1>1. SealsOK(q)'
    BY DEF GatesInv, SealsOK
  <1>2. CASE hands'[q] = hands[q]
    BY <1>1, <1>2 DEF GatesInv, HandsOK
  <1>3. ASSUME NEW name, hands[q].at = "opened", hands'[q] = [hands[q] EXCEPT !.name = name]
        PROVE  HandsOK(q)'
    <2>1. hands[q] = [at |-> "opened", id |-> hands[q].id, name |-> hands[q].name]
      BY <1>3 DEF GatesInv, HandsOK
    <2>2. hands'[q] = [at |-> "opened", id |-> hands[q].id, name |-> name]
      BY <1>3, <2>1
    <2>3. hands'[q].at = "opened" /\ hands'[q].id = hands[q].id /\ hands'[q].name = name
      BY <2>2
    <2> QED  BY <1>3, <2>2, <2>3 DEF GatesInv, HandsOK, Recorders
  <1> QED  BY <1>1, <1>2, <1>3

\* One interpreter's step, where the others' hands, seals and statuses stay.
LEMMA OneMoves ==
    ASSUME GatesInv, NEW p \in Boots, NEW to, hands' = [hands EXCEPT ![p] = to],
           DOMAIN seals' = Boots, DOMAIN gateStatus' = Boots,
           \A q \in Boots \ {p} : seals'[q] = seals[q] /\ gateStatus'[q] = gateStatus[q],
           HandsOK(p)', SealsOK(p)'
    PROVE  GatesInv'
  <1>1. DOMAIN hands' = Boots /\ \A q \in Boots \ {p} : hands'[q] = hands[q]
    BY DEF GatesInv
  <1>2. \A q \in Boots \ {p} : HandsOK(q)' /\ SealsOK(q)'
    BY <1>1, OthersStay
  <1> QED  BY <1>1, <1>2 DEF GatesInv

\* A status changes for a gate that is not sealed.
LEMMA StatusMoves ==
    ASSUME GatesInv, NEW p \in Boots, NEW gate \in Gates, NEW value, Status(p, gate, value),
           seals[p][gate] = NoSeal, UNCHANGED seals
    PROVE  /\ DOMAIN seals' = Boots /\ DOMAIN gateStatus' = Boots
           /\ \A q \in Boots \ {p} : seals'[q] = seals[q] /\ gateStatus'[q] = gateStatus[q]
           /\ SealsOK(p)'
  BY DEF GatesInv, SealsOK, Status

\* A seal comes with its status.
LEMMA SealMoves ==
    ASSUME GatesInv, NEW p \in Boots, NEW gate \in Gates, NEW proof, Seal(p, gate, proof),
           IF gate = "attractor" THEN AttractorProof(proof) ELSE NotionProof(proof)
    PROVE  GatesInv'
  <1>1. /\ seals' = [seals EXCEPT ![p][gate] = proof]
        /\ gateStatus' = [gateStatus EXCEPT ![p][gate] = "complete"]
        /\ hands' = [hands EXCEPT ![p] = Resting]
    BY DEF Seal, Status, Moves
  <1>2. /\ DOMAIN seals' = Boots /\ DOMAIN gateStatus' = Boots
        /\ \A q \in Boots \ {p} : seals'[q] = seals[q] /\ gateStatus'[q] = gateStatus[q]
    BY <1>1 DEF GatesInv
  <1>3. SealsOK(p)'
    BY <1>1 DEF GatesInv, SealsOK, Gates
  <1>4. HandsOK(p)'
    <2>1. hands'[p] = Resting
      BY <1>1 DEF GatesInv
    <2> QED  BY <2>1 DEF HandsOK, Resting, Recorders
  <1> QED  BY <1>1, <1>2, <1>3, <1>4, OneMoves

LEMMA GatesStep ==
    ASSUME GatesInv, NEW p \in Boots, BootNext(p)
    PROVE  GatesInv'
  <1>0. /\ DOMAIN hands = Boots /\ DOMAIN seals = Boots /\ DOMAIN gateStatus = Boots
        /\ HandsOK(p) /\ SealsOK(p)
    BY DEF GatesInv
  <1>a. ASSUME NEW to, hands' = [hands EXCEPT ![p] = to], UNCHANGED <<seals, gateStatus>>, HandsOK(p)'
        PROVE  GatesInv'
    <2>1. SealsOK(p)'
      BY <1>0, <1>a DEF SealsOK
    <2> QED  BY <1>0, <1>a, <2>1, OneMoves
  <1>1. ASSUME NEW gate \in Gates, CallGate(p, gate) PROVE GatesInv'
    <2>1. seals[p][gate] = NoSeal /\ UNCHANGED seals
      BY <1>1 DEF CallGate
    <2>2. CASE bootMode = "off"
      <3>1. Status(p, gate, "off") /\ hands' = hands
        BY <1>1, <2>2 DEF CallGate
      <3>2. HandsOK(p)'
        BY <1>0, <2>1, <3>1 DEF HandsOK
      <3>3. /\ DOMAIN gateStatus' = Boots /\ SealsOK(p)'
            /\ \A q \in Boots \ {p} : gateStatus'[q] = gateStatus[q]
        BY <2>1, <3>1, StatusMoves
      <3>4. \A q \in Boots \ {p} : HandsOK(q)' /\ SealsOK(q)'
        BY <2>1, <3>1, <3>3, OthersStay
      <3> QED  BY <1>0, <2>1, <3>1, <3>2, <3>3, <3>4 DEF GatesInv
    <2>3. CASE bootMode # "off"
      <3>1. UNCHANGED gateStatus /\ hands' = [hands EXCEPT ![p] = [at |-> "policy", gate |-> gate, policy |-> Policy(gate)]]
        BY <1>1, <2>3 DEF CallGate, Moves
      <3>2. HandsOK(p)'
        BY <1>0, <2>1, <3>1 DEF HandsOK, Recorders
      <3> QED  BY <1>a, <2>1, <3>1, <3>2
    <2> QED  BY <2>2, <2>3
  <1>2. CASE ReadReceipt(p)
    <2> DEFINE h == hands[p]
    <2>1. h.at = "policy" /\ h.gate \in Gates /\ seals[p][h.gate] = NoSeal
      BY <1>0, <1>2 DEF ReadReceipt, IsAt, HandsOK
    <2>2. CASE filing = Unusable
      <3>1. hands' = [hands EXCEPT ![p] = Resting] /\ UNCHANGED <<seals, gateStatus>>
        BY <1>2, <2>2 DEF ReadReceipt, Moves
      <3>2. HandsOK(p)'
        BY <1>0, <3>1 DEF HandsOK, Resting, Recorders
      <3> QED  BY <1>a, <3>1, <3>2
    <2>3. CASE filing # Unusable /\ h.gate = "notion"
      <3>1. NotionConcludes(p, h.policy)
        BY <1>2, <2>3 DEF ReadReceipt
      <3>2. CASE filing # Unfiled /\ NotionErrors(h.policy, filing) = {}
        <4>1. Seal(p, "notion", [receipt |-> filing, policy |-> h.policy])
          BY <3>1, <3>2 DEF NotionConcludes
        <4>2. NotionProof([receipt |-> filing, policy |-> h.policy])
          BY <3>2, NoErrorsNoDoubt
        <4> QED  BY <4>1, <4>2, SealMoves DEF Gates
      <3>3. CASE ~(filing # Unfiled /\ NotionErrors(h.policy, filing) = {})
        <4>1. PICK value \in {"blocked", "degraded"}, to \in {[at |-> "exited"], Resting} :
                /\ Status(p, "notion", value) /\ hands' = [hands EXCEPT ![p] = to]
                /\ UNCHANGED seals
          BY <3>1, <3>3 DEF NotionConcludes, Moves
        <4>2. HandsOK(p)'
          BY <1>0, <4>1 DEF HandsOK, Resting, Recorders
        <4>3. "notion" \in Gates /\ seals[p]["notion"] = NoSeal
          BY <2>1, <2>3 DEF Gates
        <4>4. /\ DOMAIN seals' = Boots /\ DOMAIN gateStatus' = Boots /\ SealsOK(p)'
              /\ \A q \in Boots \ {p} : seals'[q] = seals[q] /\ gateStatus'[q] = gateStatus[q]
          BY <4>1, <4>3, StatusMoves
        <4> QED  BY <4>1, <4>2, <4>4, OneMoves
      <3> QED  BY <3>2, <3>3
    <2>4. CASE filing # Unusable /\ h.gate = "attractor"
      <3>1. PICK to \in {Recording(Continuation(Request(h.policy, {<<"unfiled">>}))),
                         [at |-> "receipt", policy |-> h.policy, receipt |-> filing,
                          left |-> RoleKeys, errors |-> {}, read |-> [k \in {} |-> h.policy]]} :
              hands' = [hands EXCEPT ![p] = to]
        BY <1>2, <2>4 DEF ReadReceipt, Moves
      <3>2. UNCHANGED <<seals, gateStatus>>
        BY <1>2, <2>4 DEF ReadReceipt
      <3>3. HandsOK(p)'
        <4>1. hands'[p].at = "receipt" => Verifying(hands'[p])
          BY <1>0, <3>1 DEF Recording, Verifying
        <4> QED  BY <1>0, <2>1, <2>4, <3>1, <3>2, <4>1 DEF HandsOK, Recording, Continuation, Recorders
      <3> QED  BY <1>a, <3>1, <3>2, <3>3
    <2> QED  BY <2>1, <2>2, <2>3, <2>4 DEF Gates
  <1>10. ASSUME NEW key \in RoleKeys, VerifyRole(p, key) PROVE GatesInv'
    <2> DEFINE h == hands[p]
               row == h.receipt.attractor
               bytes == Resolved(row.evidence[key])
               read == Placed(h.read, key, bytes)
               errors == IF EvidenceStands(h.policy, bytes, row.evidence[key], key) THEN h.errors
                         ELSE h.errors \cup {<<"evidence", key>>}
    <2>1. /\ h.at = "receipt" /\ key \in h.left /\ seals[p]["attractor"] = NoSeal /\ Verifying(h)
          /\ UNCHANGED <<seals, gateStatus>>
          /\ hands' = [hands EXCEPT ![p] = [at |-> "receipt", policy |-> h.policy, receipt |-> h.receipt,
                                           left |-> h.left \ {key}, read |-> read, errors |-> errors]]
      BY <1>0, <1>10 DEF VerifyRole, IsAt, Moves, HandsOK
    <2>2. hands'[p] = [at |-> "receipt", policy |-> h.policy, receipt |-> h.receipt,
                       left |-> h.left \ {key}, read |-> read, errors |-> errors]
      <3> HIDE DEF errors, read
      <3> QED  BY <1>0, <2>1 DEF Verifying
    <2>3. /\ DOMAIN read = (RoleKeys \ h.left) \cup {key} /\ read[key] = bytes
          /\ \A k \in (RoleKeys \ h.left) \ {key} : read[k] = h.read[k]
      BY <2>1 DEF Verifying, Placed
    <2>4. <<"evidence", key>> \in errors \/ Stood(h.policy, row, read, key)
      BY <2>3 DEF EvidenceStands, Stood
    <2>5. ASSUME NEW k \in RoleKeys \ (h.left \ {key})
          PROVE  <<"evidence", k>> \in errors \/ Stood(h.policy, row, read, k)
      <3>1. CASE k = key
        BY <2>4, <3>1
      <3>2. CASE k # key
        <4>1. <<"evidence", k>> \in h.errors \/ Stood(h.policy, row, h.read, k)
          BY <2>1, <2>5, <3>2 DEF Verifying
        <4>2. read[k] = h.read[k] /\ h.errors \subseteq errors
          BY <2>3, <2>5, <3>2
        <4> QED  BY <4>1, <4>2 DEF Stood
      <3> QED  BY <3>1, <3>2
    <2>6. Verifying(hands'[p])
      <3>1. RoleKeys \ (h.left \ {key}) = (RoleKeys \ h.left) \cup {key}
        BY <1>10
      <3> HIDE DEF read, errors, row, bytes
      <3>2. /\ hands'[p].left = h.left \ {key} /\ hands'[p].errors = errors /\ hands'[p].read = read
            /\ hands'[p].policy = h.policy /\ hands'[p].receipt = h.receipt
        BY <2>2
      <3> QED  BY <2>2, <2>3, <2>5, <3>1, <3>2 DEF Verifying, row
    <2>7. HandsOK(p)'
      <3>1. hands'[p].at = "receipt"
        BY <2>2
      <3> QED  BY <2>1, <2>6, <3>1 DEF HandsOK, Recorders
    <2> QED  BY <1>a, <2>1, <2>7
  <1>3. CASE ConcludeAttractor(p)
    <2> DEFINE h == hands[p]
    <2>1. h.at = "receipt" /\ h.left = {} /\ seals[p]["attractor"] = NoSeal /\ Verifying(h)
      BY <1>0, <1>3 DEF ConcludeAttractor, IsAt, HandsOK
    <2>2. PICK authorized \in BOOLEAN :
            LET errors == h.errors \cup StatedErrors(h.policy, h.receipt, authorized) IN
            IF errors = {}
            THEN Seal(p, "attractor", [receipt |-> h.receipt, policy |-> h.policy, read |-> h.read])
            ELSE Moves(p, Recording(Continuation(Request(h.policy, errors)))) /\ UNCHANGED <<seals, gateStatus>>
      BY <1>3 DEF ConcludeAttractor, FrontierVerdicts
    <2> DEFINE errors == h.errors \cup StatedErrors(h.policy, h.receipt, authorized)
    <2>3. CASE errors = {}
      <3>1. Seal(p, "attractor", [receipt |-> h.receipt, policy |-> h.policy, read |-> h.read])
        BY <2>2, <2>3
      <3>2. StatedErrors(h.policy, h.receipt, authorized) = {}
            /\ \A key \in RoleKeys : Stood(h.policy, h.receipt.attractor, h.read, key)
        BY <2>1, <2>3 DEF Verifying
      <3>3. AttractorProof([receipt |-> h.receipt, policy |-> h.policy, read |-> h.read])
        BY <3>2, NoErrorsNoDoubt
      <3> QED  BY <3>1, <3>3, SealMoves DEF Gates
    <2>4. CASE errors # {}
      <3>1. hands' = [hands EXCEPT ![p] = Recording(Continuation(Request(h.policy, errors)))]
            /\ UNCHANGED <<seals, gateStatus>>
        BY <2>2, <2>4 DEF Moves
      <3>2. HandsOK(p)'
        <4>1. hands'[p] = Recording(Continuation(Request(h.policy, errors)))
          BY <1>0, <3>1
        <4> QED  BY <2>1, <3>1, <4>1 DEF HandsOK, Recording, Continuation, Recorders
      <3> HIDE DEF errors
      <3> QED  BY <1>a, <3>1, <3>2
    <2> QED  BY <2>3, <2>4
  <1>4. CASE Enrich(p)
    <2>1. hands' = [hands EXCEPT ![p] = Recording(Enrichment)] /\ UNCHANGED <<seals, gateStatus>>
      BY <1>4 DEF Enrich, Moves
    <2>2. HandsOK(p)'
      BY <1>0, <2>1 DEF HandsOK, Recording, Enrichment, Recorders
    <2> QED  BY <1>a, <2>1, <2>2
  <1>5. CASE OpenTemporary(p)
    <2>1. /\ hands[p].at = "record" /\ UNCHANGED <<seals, gateStatus>>
          /\ hands' = [hands EXCEPT ![p] = [at |-> "opened", id |-> hands[p].id, name |-> Temporary(hands[p].id)]]
      BY <1>5 DEF OpenTemporary, IsAt, Moves
    <2>2. HandsOK(p)'
      BY <1>0, <2>1 DEF HandsOK, Recorders
    <2> QED  BY <1>a, <2>1, <2>2
  <1>6. CASE Flush(p)
    <2>1. /\ hands[p].at = "opened" /\ UNCHANGED <<seals, gateStatus>>
          /\ hands' = [hands EXCEPT ![p] = [hands[p] EXCEPT !.at = "flushed"]]
      BY <1>6 DEF Flush, IsAt, Moves
    <2>2. hands[p] = [at |-> "opened", id |-> hands[p].id, name |-> hands[p].name]
      BY <1>0, <2>1 DEF HandsOK
    <2>3. hands'[p] = [at |-> "flushed", id |-> hands[p].id, name |-> hands[p].name]
      BY <1>0, <2>1, <2>2
    <2>4. HandsOK(p)'
      BY <1>0, <2>1, <2>3 DEF HandsOK, Recorders
    <2> QED  BY <1>a, <2>1, <2>4
  <1>7. ASSUME hands[p].at \in Recorders, Told(p, hands[p].id), UNCHANGED seals
        PROVE  /\ DOMAIN gateStatus' = Boots /\ SealsOK(p)'
               /\ \A q \in Boots \ {p} : gateStatus'[q] = gateStatus[q]
    <2>1. CASE hands[p].id.kind = "uplift_required"
      <3>1. hands[p].id.gate = "attractor" /\ seals[p]["attractor"] = NoSeal /\ "attractor" \in Gates
        BY <1>0, <1>7, <2>1 DEF HandsOK, Gates
      <3>2. Status(p, "attractor", "uplift_required")
        BY <1>7, <2>1, <3>1 DEF Told
      <3> QED  BY <1>7, <3>1, <3>2, StatusMoves
    <2>2. CASE hands[p].id.kind # "uplift_required"
      BY <1>0, <1>7, <2>2 DEF Told, SealsOK
    <2> QED  BY <2>1, <2>2
  <1>8. CASE CannotOpen(p)
    <2>1. /\ hands[p].at = "record" /\ UNCHANGED seals /\ Told(p, hands[p].id)
          /\ hands' = [hands EXCEPT ![p] = Resting]
      BY <1>8 DEF CannotOpen, IsAt, Moves
    <2>2. HandsOK(p)'
      BY <1>0, <2>1 DEF HandsOK, Resting, Recorders
    <2> QED  BY <1>0, <1>7, <2>1, <2>2, OneMoves DEF Recorders
  <1>9. CASE Replace(p)
    <2> DEFINE id == hands[p].id
    <2>1. hands[p].at = "flushed" /\ UNCHANGED seals /\ Told(p, id)
      BY <1>9 DEF Replace, IsAt
    <2>2. /\ DOMAIN hands' = Boots /\ hands'[p] = Resting
          /\ \A q \in Boots \ {p} :
               \/ hands'[q] = hands[q]
               \/ hands[q].at = "opened" /\ \E name : hands'[q] = [hands[q] EXCEPT !.name = name]
      BY <1>0, <1>9 DEF Replace, Moves, KeepsOpen
    <2>3. /\ DOMAIN gateStatus' = Boots /\ SealsOK(p)'
          /\ \A q \in Boots \ {p} : gateStatus'[q] = gateStatus[q]
      BY <1>7, <2>1 DEF Recorders
    <2>4. HandsOK(p)'
      BY <2>2 DEF HandsOK, Resting, Recorders
    <2>5. \A q \in Boots \ {p} : HandsOK(q)' /\ SealsOK(q)'
      <3> HIDE DEF id
      <3> QED  BY <2>1, <2>2, <2>3, OthersStay
    <2> QED  BY <1>0, <2>1, <2>2, <2>3, <2>4, <2>5 DEF GatesInv
  <1> QED  BY <1>1, <1>2, <1>3, <1>4, <1>5, <1>6, <1>8, <1>9, <1>10 DEF BootNext

\* Whatever is filed, replaced or recorded meanwhile, also between the readings
\* for two roles, a kept proof has for each role the evidence that was read for
\* it, and its status stays.
THEOREM SealsAreForGood == StartupSpec => []SealsStand
  <1>1. GatesInv => SealsStand
    BY DEF GatesInv, SealsOK, AttractorProof, NotionProof, SealsStand
  <1>2. GatesInv /\ [Refile \/ \E p \in Boots : BootNext(p)]_bootVars => GatesInv'
    <2> SUFFICES ASSUME GatesInv, [Refile \/ \E p \in Boots : BootNext(p)]_bootVars PROVE GatesInv'
      OBVIOUS
    <2>1. CASE Refile \/ UNCHANGED bootVars
      <3>1. UNCHANGED <<hands, seals, gateStatus>>
        BY <2>1 DEF Refile, bootVars
      <3> QED  BY <3>1 DEF GatesInv, HandsOK, SealsOK
    <2> QED  BY <2>1, GatesStep
  <1> QED  BY <1>1, <1>2, GatesBegin, PTL DEF StartupSpec

-----------------------------------------------------------------------------
(* The continuation records on the shared disk.                             *)
Unlinked(id) == <<id, "unlinked">>
Files == [content : {"empty", "whole", "mixed"}, shared : BOOLEAN]

\* A temporary file that is not shared has one writer, which finds it as it
\* left it.
TemporaryOK(id) ==
    Temporary(id) \in DOMAIN disk /\ ~disk[Temporary(id)].shared =>
      \A p \in Boots : Writing(p, id) =>
        /\ \A q \in Boots : Writing(q, id) => q = p
        /\ hands[p].at = "opened" => hands[p].name = Temporary(id) /\ disk[Temporary(id)].content = "empty"
        /\ hands[p].at = "flushed" => disk[Temporary(id)].content = "whole"

\* A record in its place is whole or shared; one still open elsewhere is shared.
FinalOK(id) ==
    Final(id) \in DOMAIN disk =>
      /\ disk[Final(id)].content = "whole" \/ disk[Final(id)].shared
      /\ \A p \in Boots :
           hands[p].at = "opened" /\ hands[p].id = id /\ hands[p].name = Final(id) => disk[Final(id)].shared

OpenOK(p) ==
    LET h == hands[p] IN
    h.at = "opened" =>
      /\ h = [at |-> "opened", id |-> h.id, name |-> h.name]
      /\ h.name \in {Temporary(h.id), Final(h.id), Unlinked(h.id)}

RecordsInv ==
    /\ DOMAIN hands = Boots
    /\ \A name \in DOMAIN disk : disk[name] \in Files
    /\ \A p \in Boots : OpenOK(p)
    /\ \A id : TemporaryOK(id) /\ FinalOK(id)
    /\ \A id \in durable : Final(id) \in DOMAIN disk

LEMMA NamesDiffer ==
    \A i, j : /\ Temporary(i) # Final(j) /\ Temporary(i) # Unlinked(j) /\ Final(i) # Unlinked(j)
              /\ (Temporary(i) = Temporary(j) => i = j) /\ (Final(i) = Final(j) => i = j)
  BY DEF Temporary, Final, Unlinked

LEMMA RecordsBegin == StartupInit => RecordsInv
  BY DEF StartupInit, RecordsInv, OpenOK, TemporaryOK, FinalOK, Writing, Resting

\* A step of an interpreter that has no file open.
LEMMA NoneOpen ==
    ASSUME RecordsInv, UNCHANGED <<disk, durable>>, NEW p \in Boots,
           hands[p].at \notin {"opened", "flushed"}, DOMAIN hands' = Boots,
           \A q \in Boots \ {p} : hands'[q] = hands[q], hands'[p].at \notin {"opened", "flushed"}
    PROVE  RecordsInv'
  <1>1. \A q \in Boots : \A id : Writing(q, id)' <=> Writing(q, id)
    BY DEF Writing
  <1>2. \A q \in Boots : hands'[q].at \in {"opened", "flushed"} => hands'[q] = hands[q]
    OBVIOUS
  <1>3. \A q \in Boots : OpenOK(q)'
    BY <1>2 DEF RecordsInv, OpenOK
  <1>4. ASSUME NEW id PROVE TemporaryOK(id)' /\ FinalOK(id)'
    <2>1. TemporaryOK(id) /\ FinalOK(id)
      BY DEF RecordsInv
    <2>2. TemporaryOK(id)'
      BY <2>1, <1>2 DEF TemporaryOK, Writing
    <2>3. FinalOK(id)'
      BY <2>1, <1>2 DEF FinalOK
    <2> QED  BY <2>2, <2>3
  <1> QED  BY <1>3, <1>4 DEF RecordsInv

LEMMA OpenedFresh ==
    ASSUME RecordsInv, NEW p \in Boots, OpenTemporary(p)
    PROVE  RecordsInv'
  <1>1. PICK i : i = hands[p].id
    OBVIOUS
  <1>2. PICK shared \in BOOLEAN : shared = (\E q \in Boots \ {p} : Writing(q, i))
    OBVIOUS
  <1>3. /\ hands[p].at = "record" /\ durable' = durable
        /\ disk' = Placed(disk, Temporary(i), [content |-> "empty", shared |-> shared])
        /\ hands' = [hands EXCEPT ![p] = [at |-> "opened", id |-> i, name |-> Temporary(i)]]
    BY <1>1, <1>2 DEF OpenTemporary, IsAt, Moves
  <1>4. /\ DOMAIN disk' = DOMAIN disk \cup {Temporary(i)}
        /\ disk'[Temporary(i)] = [content |-> "empty", shared |-> shared]
        /\ \A name \in DOMAIN disk : name # Temporary(i) => disk'[name] = disk[name]
    BY <1>3 DEF Placed
  <1>5. /\ DOMAIN hands' = Boots /\ \A q \in Boots \ {p} : hands'[q] = hands[q]
        /\ hands'[p] = [at |-> "opened", id |-> i, name |-> Temporary(i)]
    BY <1>3 DEF RecordsInv
  <1>6. \A name \in DOMAIN disk' : disk'[name] \in Files
    BY <1>4 DEF RecordsInv, Files
  <1>7. \A q \in Boots : OpenOK(q)'
    BY <1>5 DEF RecordsInv, OpenOK
  <1>8. \A q \in Boots \ {p} : \A id : Writing(q, id)' <=> Writing(q, id)
    BY <1>5 DEF Writing
  <1>9. \A id : Writing(p, id)' => id = i
    BY <1>5 DEF Writing
  <1>10. ASSUME NEW id PROVE TemporaryOK(id)'
    <2>1. CASE id = i
      <3>1. ~shared => \A q \in Boots \ {p} : ~Writing(q, i)'
        BY <1>2, <1>8
      <3>2. disk'[Temporary(i)].shared = shared /\ disk'[Temporary(i)].content = "empty"
        BY <1>4
      <3>3. hands'[p].at = "opened" /\ hands'[p].name = Temporary(i)
        BY <1>5
      <3> QED  BY <2>1, <3>1, <3>2, <3>3 DEF TemporaryOK
    <2>2. CASE id # i
      <3>1. TemporaryOK(id) /\ Temporary(id) # Temporary(i) /\ ~Writing(p, id)'
        BY <2>2, <1>9, NamesDiffer DEF RecordsInv
      <3>2. \A q \in Boots : Writing(q, id)' => Writing(q, id) /\ hands'[q] = hands[q]
        BY <3>1, <1>5, <1>8
      <3> QED  BY <3>1, <3>2, <1>4 DEF TemporaryOK
    <2> QED  BY <2>1, <2>2
  <1>11. ASSUME NEW id PROVE FinalOK(id)'
    <2>1. FinalOK(id) /\ Final(id) # Temporary(i)
      BY NamesDiffer DEF RecordsInv
    <2>2. \A q \in Boots : hands'[q].name = Final(id) /\ hands'[q].at = "opened" => hands'[q] = hands[q]
      BY <2>1, <1>5
    <2> QED  BY <2>1, <2>2, <1>4 DEF FinalOK
  <1>12. \A id \in durable' : Final(id) \in DOMAIN disk'
    BY <1>3, <1>4 DEF RecordsInv
  <1> QED  BY <1>5, <1>6, <1>7, <1>10, <1>11, <1>12 DEF RecordsInv

LEMMA FlushedWhole ==
    ASSUME RecordsInv, NEW p \in Boots, Flush(p)
    PROVE  RecordsInv'
  <1>1. PICK i, n : hands[p] = [at |-> "opened", id |-> i, name |-> n] /\ n \in {Temporary(i), Final(i), Unlinked(i)}
    BY DEF RecordsInv, OpenOK, Flush, IsAt
  <1>2. /\ durable' = durable /\ hands' = [hands EXCEPT ![p] = [hands[p] EXCEPT !.at = "flushed"]]
    BY DEF Flush, Moves
  <1>3. PICK content \in {"whole", "mixed"} :
          /\ disk' = IF n \in DOMAIN disk THEN [disk EXCEPT ![n].content = content] ELSE disk
          /\ n \in DOMAIN disk /\ disk[n].content = "empty" => content = "whole"
    BY <1>1 DEF Flush
  <1>4. /\ DOMAIN disk' = DOMAIN disk /\ \A name \in DOMAIN disk : name # n => disk'[name] = disk[name]
        /\ n \in DOMAIN disk => disk'[n].content = content /\ disk'[n].shared = disk[n].shared
        /\ \A name \in DOMAIN disk : disk'[name] \in Files
    BY <1>3 DEF RecordsInv, Files
  <1>5. /\ DOMAIN hands' = Boots /\ \A q \in Boots \ {p} : hands'[q] = hands[q]
        /\ hands'[p] = [at |-> "flushed", id |-> i, name |-> n]
    BY <1>1, <1>2 DEF RecordsInv
  <1>6. \A q \in Boots : OpenOK(q)'
    BY <1>5 DEF RecordsInv, OpenOK
  <1>7. \A q \in Boots : \A id : Writing(q, id)' <=> Writing(q, id)
    BY <1>1, <1>5 DEF Writing
  <1>8. Writing(p, i)
    BY <1>1 DEF Writing
  <1>9. ASSUME NEW id PROVE TemporaryOK(id)'
    <2>1. TemporaryOK(id)
      BY DEF RecordsInv
    <2>2. CASE id = i
      <3>1. ASSUME Temporary(i) \in DOMAIN disk, ~disk'[Temporary(i)].shared
            PROVE  /\ \A q \in Boots : Writing(q, i) => q = p
                   /\ disk'[Temporary(i)].content = "whole"
        <4>1. ~disk[Temporary(i)].shared
          BY <3>1, <1>4
        <4>2. /\ \A q \in Boots : Writing(q, i) => q = p
              /\ hands[p].name = Temporary(i) /\ disk[Temporary(i)].content = "empty"
          BY <2>1, <2>2, <3>1, <4>1, <1>1, <1>8 DEF TemporaryOK
        <4>3. n = Temporary(i)
          BY <4>2, <1>1
        <4> QED  BY <4>2, <4>3, <3>1, <1>3, <1>4
      <3>2. hands'[p].at = "flushed"
        BY <1>5
      <3> QED  BY <2>2, <3>1, <3>2, <1>4, <1>7 DEF TemporaryOK
    <2>3. CASE id # i
      <3>1. Temporary(id) # n
        BY <2>3, <1>1, NamesDiffer
      <3>2. \A q \in Boots : Writing(q, id)' => Writing(q, id) /\ hands'[q] = hands[q]
        BY <2>3, <1>5, <1>7 DEF Writing
      <3> QED  BY <2>1, <3>1, <3>2, <1>4 DEF TemporaryOK
    <2> QED  BY <2>2, <2>3
  <1>10. ASSUME NEW id PROVE FinalOK(id)'
    <2>1. FinalOK(id)
      BY DEF RecordsInv
    <2>2. \A q \in Boots : hands'[q].at = "opened" => hands'[q] = hands[q]
      BY <1>5
    <2>3. CASE Final(id) = n
      <3>1. id = i
        BY <2>3, <1>1, NamesDiffer
      <3>2. Final(id) \in DOMAIN disk => disk[Final(id)].shared
        BY <2>1, <2>3, <3>1, <1>1 DEF FinalOK
      <3> QED  BY <2>3, <3>2, <1>4 DEF FinalOK
    <2>4. CASE Final(id) # n
      BY <2>1, <2>2, <2>4, <1>4 DEF FinalOK
    <2> QED  BY <2>3, <2>4
  <1>11. \A id \in durable' : Final(id) \in DOMAIN disk'
    BY <1>2, <1>4 DEF RecordsInv
  <1> QED  BY <1>4, <1>5, <1>6, <1>9, <1>10, <1>11 DEF RecordsInv

LEMMA ReplacedInPlace ==
    ASSUME RecordsInv, NEW p \in Boots, Replace(p)
    PROVE  RecordsInv'
  <1>1. PICK i : i = hands[p].id
    OBVIOUS
  <1>2. hands[p].at = "flushed" /\ Writing(p, i)
    BY <1>1 DEF Replace, IsAt, Writing
  <1>3. CASE Temporary(i) \notin DOMAIN disk
    <2>1. UNCHANGED <<disk, durable>> /\ hands' = [hands EXCEPT ![p] = Resting]
      BY <1>1, <1>3 DEF Replace, Moves
    <2>2. DOMAIN hands' = Boots /\ hands'[p] = Resting /\ \A q \in Boots \ {p} : hands'[q] = hands[q]
      BY <2>1 DEF RecordsInv
    <2>3. \A q \in Boots : hands'[q].at \in {"opened", "flushed"} => q # p /\ hands'[q] = hands[q]
      BY <2>2 DEF Resting
    <2>4. \A q \in Boots : OpenOK(q)'
      BY <2>3 DEF RecordsInv, OpenOK
    <2>5. ASSUME NEW id PROVE TemporaryOK(id)' /\ FinalOK(id)'
      <3>1. TemporaryOK(id) /\ FinalOK(id)
        BY DEF RecordsInv
      <3>2. \A q \in Boots : Writing(q, id)' => Writing(q, id) /\ hands'[q] = hands[q]
        BY <2>3 DEF Writing
      <3>3. TemporaryOK(id)'
        BY <3>1, <3>2, <2>1 DEF TemporaryOK
      <3>4. FinalOK(id)'
        BY <3>1, <2>1, <2>3 DEF FinalOK
      <3> QED  BY <3>3, <3>4
    <2> QED  BY <2>1, <2>2, <2>4, <2>5 DEF RecordsInv
  <1>4. CASE Temporary(i) \in DOMAIN disk
    <2>1. /\ disk' = Placed([name \in DOMAIN disk \ {Temporary(i)} |-> disk[name]], Final(i), disk[Temporary(i)])
          /\ durable' = durable \cup {i}
          /\ hands' = [q \in Boots |-> IF q = p THEN Resting ELSE KeepsOpen(q, i)]
      BY <1>1, <1>4 DEF Replace
    <2>2. /\ DOMAIN disk' = (DOMAIN disk \ {Temporary(i)}) \cup {Final(i)}
          /\ disk'[Final(i)] = disk[Temporary(i)]
          /\ \A name \in DOMAIN disk \ {Temporary(i)} : name # Final(i) => disk'[name] = disk[name]
      BY <2>1 DEF Placed
    <2>3. \A name \in DOMAIN disk' : disk'[name] \in Files
      BY <2>2, <1>4 DEF RecordsInv
    <2>4. /\ DOMAIN hands' = Boots /\ hands'[p].at = "idle"
          /\ \A q \in Boots \ {p} : hands'[q] = KeepsOpen(q, i)
      BY <2>1 DEF Resting
    <2>5. ASSUME NEW q \in Boots \ {p}, hands[q].at = "opened", hands[q].id = i
          PROVE  /\ hands'[q] = [at |-> "opened", id |-> i,
                                 name |-> IF hands[q].name = Temporary(i) THEN Final(i) ELSE Unlinked(i)]
                 /\ hands'[q].id = i
      <3>1. hands[q] = [at |-> "opened", id |-> i, name |-> hands[q].name]
        BY <2>5 DEF RecordsInv, OpenOK
      <3>2. hands'[q] = [hands[q] EXCEPT !.name = IF hands[q].name = Temporary(i) THEN Final(i) ELSE Unlinked(i)]
        BY <2>4, <2>5 DEF KeepsOpen, Unlinked
      <3> QED  BY <3>1, <3>2
    <2>6. ASSUME NEW q \in Boots \ {p}, ~(hands[q].at = "opened" /\ hands[q].id = i)
          PROVE  hands'[q] = hands[q]
      BY <2>4, <2>6 DEF KeepsOpen
    <2>7. \A q \in Boots : OpenOK(q)'
      <3>1. OpenOK(p)'
        BY <2>4 DEF OpenOK
      <3>2. ASSUME NEW q \in Boots \ {p} PROVE OpenOK(q)'
        <4>1. CASE hands[q].at = "opened" /\ hands[q].id = i
          <5>1. PICK name \in {Final(i), Unlinked(i)} : hands'[q] = [at |-> "opened", id |-> i, name |-> name]
            BY <4>1, <2>5
          <5>2. hands'[q].id = i /\ hands'[q].name = name
            BY <5>1
          <5> QED  BY <5>1, <5>2 DEF OpenOK
        <4>2. CASE ~(hands[q].at = "opened" /\ hands[q].id = i)
          BY <4>2, <2>6 DEF RecordsInv, OpenOK
        <4> QED  BY <4>1, <4>2
      <3> QED  BY <3>1, <3>2
    <2>8. ASSUME NEW id PROVE TemporaryOK(id)'
      <3>1. CASE id = i
        BY <3>1, <2>2, NamesDiffer DEF TemporaryOK
      <3>2. CASE id # i
        <4>1. TemporaryOK(id) /\ Temporary(id) # Temporary(i) /\ Temporary(id) # Final(i)
          BY <3>2, NamesDiffer DEF RecordsInv
        <4>2. ASSUME NEW q \in Boots, Writing(q, id)' PROVE Writing(q, id) /\ hands'[q] = hands[q]
          <5>1. q # p
            BY <4>2, <2>4 DEF Writing
          <5>2. ~(hands[q].at = "opened" /\ hands[q].id = i)
            BY <4>2, <5>1, <2>5, <3>2 DEF Writing
          <5> QED  BY <4>2, <5>1, <5>2, <2>6 DEF Writing
        <4> QED  BY <4>1, <4>2, <2>2 DEF TemporaryOK
      <3> QED  BY <3>1, <3>2
    <2>9. ASSUME NEW id PROVE FinalOK(id)'
      <3>1. CASE id = i
        <4>1. disk[Temporary(i)].content = "whole" \/ disk[Temporary(i)].shared
          BY <1>2, <1>4 DEF RecordsInv, TemporaryOK
        <4>2. ASSUME NEW q \in Boots, hands'[q].at = "opened", hands'[q].id = i, hands'[q].name = Final(i)
              PROVE  disk[Temporary(i)].shared
          <5>1. q # p
            BY <4>2, <2>4
          <5>2. hands[q].at = "opened" /\ hands[q].id = i
            BY <4>2, <5>1, <2>6
          <5>3. Writing(q, i)
            BY <5>2 DEF Writing
          <5> QED  BY <5>1, <5>3, <1>2, <1>4 DEF RecordsInv, TemporaryOK
        <4> QED  BY <3>1, <4>1, <4>2, <2>2 DEF FinalOK
      <3>2. CASE id # i
        <4>1. FinalOK(id) /\ Final(id) # Temporary(i) /\ Final(id) # Final(i)
          BY <3>2, NamesDiffer DEF RecordsInv
        <4>2. ASSUME NEW q \in Boots, hands'[q].at = "opened", hands'[q].id = id PROVE hands'[q] = hands[q]
          <5>1. q # p
            BY <4>2, <2>4
          <5>2. ~(hands[q].at = "opened" /\ hands[q].id = i)
            BY <4>2, <5>1, <2>5, <3>2
          <5> QED  BY <5>1, <5>2, <2>6
        <4> QED  BY <4>1, <4>2, <2>2 DEF FinalOK
      <3> QED  BY <3>1, <3>2
    <2>10. \A id \in durable' : Final(id) \in DOMAIN disk'
      BY <2>1, <2>2, NamesDiffer DEF RecordsInv
    <2> QED  BY <2>3, <2>4, <2>7, <2>8, <2>9, <2>10 DEF RecordsInv
  <1> QED  BY <1>3, <1>4

LEMMA RecordsStep ==
    ASSUME RecordsInv, [Refile \/ \E p \in Boots : BootNext(p)]_bootVars
    PROVE  RecordsInv'
  <1>1. CASE Refile \/ UNCHANGED bootVars
    <2>1. UNCHANGED <<hands, disk, durable>>
      BY <1>1 DEF Refile, bootVars
    <2> QED  BY <2>1 DEF RecordsInv, OpenOK, TemporaryOK, FinalOK, Writing
  <1>2. ASSUME NEW p \in Boots,
               \/ \E gate \in Gates : CallGate(p, gate)
               \/ \E key \in RoleKeys : VerifyRole(p, key)
               \/ ReadReceipt(p) \/ ConcludeAttractor(p) \/ Enrich(p) \/ CannotOpen(p)
        PROVE  RecordsInv'
    <2>1. hands[p].at \in {"idle", "policy", "receipt", "record"} /\ UNCHANGED <<disk, durable>>
      BY <1>2 DEF CallGate, VerifyRole, ReadReceipt, ConcludeAttractor, Enrich, CannotOpen, IsAt
    <2>2. hands' = hands \/ \E to : to.at \notin {"opened", "flushed"} /\ hands' = [hands EXCEPT ![p] = to]
      <3>1. Resting.at = "idle" /\ \A id : Recording(id).at = "record"
        BY DEF Resting, Recording
      <3>2. CASE \E gate \in Gates : CallGate(p, gate)
        <4>1. PICK gate \in Gates : CallGate(p, gate)
          BY <3>2
        <4>2. hands' = hands \/ hands' = [hands EXCEPT ![p] = [at |-> "policy", gate |-> gate, policy |-> Policy(gate)]]
          BY <4>1 DEF CallGate, Moves
        <4> QED  BY <4>2
      <3>3. CASE ReadReceipt(p)
        <4>1. \/ hands' = [hands EXCEPT ![p] = Resting] \/ hands' = [hands EXCEPT ![p] = [at |-> "exited"]]
              \/ hands' = [hands EXCEPT ![p] = Recording(Continuation(Request(hands[p].policy, {<<"unfiled">>})))]
              \/ hands' = [hands EXCEPT ![p] = [at |-> "receipt", policy |-> hands[p].policy, receipt |-> filing, left |-> RoleKeys,
                                             errors |-> {}, read |-> [k \in {} |-> hands[p].policy]]]
          BY <3>3 DEF ReadReceipt, NotionConcludes, Seal, Moves
        <4> QED  BY <3>1, <4>1
      <3>4. CASE ConcludeAttractor(p)
        <4>1. \/ hands' = [hands EXCEPT ![p] = Resting]
              \/ \E id : hands' = [hands EXCEPT ![p] = Recording(id)]
          BY <3>4 DEF ConcludeAttractor, Seal, Moves
        <4> QED  BY <3>1, <4>1
      <3>5. CASE Enrich(p) \/ CannotOpen(p)
        BY <3>1, <3>5 DEF Enrich, CannotOpen, Moves
      <3>6. CASE \E key \in RoleKeys : VerifyRole(p, key)
        <4>1. PICK key \in RoleKeys : VerifyRole(p, key)
          BY <3>6
        <4> DEFINE h == hands[p]
                   bytes == Resolved(h.receipt.attractor.evidence[key])
                   read == Placed(h.read, key, bytes)
                   errors == IF EvidenceStands(h.policy, bytes, h.receipt.attractor.evidence[key], key) THEN h.errors
                             ELSE h.errors \cup {<<"evidence", key>>}
        <4>2. hands' = [hands EXCEPT ![p] = [at |-> "receipt", policy |-> h.policy, receipt |-> h.receipt,
                                             left |-> h.left \ {key}, read |-> read, errors |-> errors]]
          BY <4>1 DEF VerifyRole, Moves
        <4> HIDE DEF read, errors
        <4> QED  BY <4>2
      <3> QED  BY <1>2, <3>2, <3>3, <3>4, <3>5, <3>6
    <2>3. CASE hands' = hands
      BY <2>1, <2>3, NoneOpen DEF RecordsInv
    <2>4. ASSUME NEW to, to.at \notin {"opened", "flushed"}, hands' = [hands EXCEPT ![p] = to]
          PROVE  RecordsInv'
      <3>1. DOMAIN hands' = Boots /\ hands'[p] = to /\ \A q \in Boots \ {p} : hands'[q] = hands[q]
        BY <2>4 DEF RecordsInv
      <3> QED  BY <2>1, <2>4, <3>1, NoneOpen
    <2> QED  BY <2>2, <2>3, <2>4
  <1> QED  BY <1>1, <1>2, OpenedFresh, FlushedWhole, ReplacedInPlace DEF BootNext

\* However many record the same thing at once, what was reported durable is on
\* the disk, whole unless its file was shared.
THEOREM DurableRecordsStay == StartupSpec => []DurableIsOnDisk
  <1>1. RecordsInv => DurableIsOnDisk
    BY DEF RecordsInv, FinalOK, DurableIsOnDisk
  <1>2. RecordsInv /\ [Refile \/ \E p \in Boots : BootNext(p)]_bootVars => RecordsInv'
    BY RecordsStep
  <1> QED  BY <1>1, <1>2, RecordsBegin, PTL DEF StartupSpec

-----------------------------------------------------------------------------
(* Quotations of the Operator.                                              *)
\* What was accepted was read back whole, whatever the caller's binding then was.
QuoteInv ==
    emitted # NoRequest =>
        /\ ReadbackHolds(emitted.binding, emitted.bytes)
        /\ emitted.quote = Slice(emitted.bytes, emitted.binding.from, emitted.binding.to)

LEMMA QuoteStep ==
    ASSUME QuoteInv, [OperatorNext]_operatorVars
    PROVE  QuoteInv'
  <1>1. CASE ReadBack
    <2> DEFINE b == request.binding
    <2>1. CASE ReadbackHolds(b, spoken) /\ request.quote = Slice(spoken, b.from, b.to)
      <3>1. emitted' = [form |-> "emitted", quote |-> request.quote, binding |-> b, bytes |-> spoken]
        BY <1>1, <2>1 DEF ReadBack
      <3>2. emitted'.binding = b /\ emitted'.bytes = spoken /\ emitted'.quote = request.quote
        BY <3>1
      <3>3. ReadbackHolds(emitted'.binding, emitted'.bytes)
        BY <2>1, <3>2
      <3> QED  BY <2>1, <3>2, <3>3 DEF QuoteInv, ReadbackHolds, WellShaped, HashesAgree, Slice
    <2>2. CASE ~(ReadbackHolds(b, spoken) /\ request.quote = Slice(spoken, b.from, b.to))
      <3>1. emitted' = emitted
        BY <1>1, <2>2 DEF ReadBack
      <3> QED  BY <3>1 DEF QuoteInv, ReadbackHolds, WellShaped, HashesAgree, Slice
    <2> QED  BY <2>1, <2>2
  <1>2. CASE ~ReadBack
    <2>1. emitted' = emitted
      BY <1>2 DEF OperatorNext, operatorVars, Bind, BindSpan, Overtaken, AskVerbatim, CheckLiterals, Assess, Rewrite
    <2> QED  BY <2>1 DEF QuoteInv, ReadbackHolds, WellShaped, HashesAgree, Slice
  <1> QED  BY <1>1, <1>2

\* Whatever is said, rewritten or superseded meanwhile, an accepted quote is
\* the Operator's words where the binding says they are.
THEOREM OnlyTheOperatorIsQuoted == OperatorSpec => []QuotesAreTheOperators
  <1>1. OperatorInit => QuoteInv
    BY DEF OperatorInit, QuoteInv
  <1>2. QuoteInv => QuotesAreTheOperators
    BY DEF QuoteInv, ReadbackHolds, WellShaped, HashesAgree, QuotesAreTheOperators
  <1>3. QuoteInv /\ [OperatorNext]_operatorVars => QuoteInv'
    BY QuoteStep
  <1> QED  BY <1>1, <1>2, <1>3, PTL DEF OperatorSpec
=============================================================================
