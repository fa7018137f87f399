------------------------------ MODULE CasePursuit ------------------------------
(***************************************************************************)
(* Two engines that decide the next step of a legal matter from records    *)
(* kept elsewhere, and act later on what they decided:                     *)
(*   - case_execution_bridge, per lane of a case, from its state and the   *)
(*     ledger of what was sent; communications_continuity_bridge turns the *)
(*     decision and the lane into an outbound action and has it prepared;  *)
(*   - pursuit_engine, per finding, from the finding and its history.      *)
(* The records change between a decision and the act.                      *)
(***************************************************************************)
EXTENDS Integers, FiniteSets

CONSTANTS
    Lanes,         \* executions of one case
    Recipients,    \* whom a lane may name as its recipient
    MaxLaneEdits,  \* bound on edits of the lanes
    ActionKinds,   \* bound: the kinds of decisions that are acted on
    LaneFacts,     \* bound: which of its facts become known of a lane
    MaxPrepared,   \* bound on the outbound actions of the case
    Refs,          \* sources that may support a counterclaim
    MaxChanges     \* bound on the changes of a finding and its history

VARIABLES
    lanes,      \* each lane as the case engine keeps it
    laneEdits,
    outbounds,  \* the rows of the outbound ledger, for this case
    decisions,  \* the last decision of each lane to act outside, if any
    prepared,   \* the outbound actions prepared, one for an idempotency key
    finding, history, changes,  \* the owning providers' records
    pursued,    \* the step in hand
    pursuits    \* effects admitted, by operation id

laneVars == <<lanes, laneEdits, outbounds, decisions, prepared>>
pursuitVars == <<finding, history, changes, pursued, pursuits>>
caseVars == <<laneVars, pursuitVars>>

-----------------------------------------------------------------------------
(* Lanes.                                                                  *)
Building == {"RAW", "STRUCTURED", "SOURCED", "ELEMENT_MAPPED", "EVIDENCE_TRIGGERED"}
Early == Building \cup {"REFERRAL_READY"}
Reviewing == {"INVESTIGATION_OPEN", "PROSECUTOR_REVIEW", "SUPPLEMENT_REQUIRED", "ESCALATION_READY", "CLOSED"}

AllowedForward ==
    [RAW |-> {"STRUCTURED", "QUARANTINED"}, STRUCTURED |-> {"SOURCED", "QUARANTINED"},
     SOURCED |-> {"ELEMENT_MAPPED", "EVIDENCE_TRIGGERED", "QUARANTINED"},
     ELEMENT_MAPPED |-> {"EVIDENCE_TRIGGERED", "REFERRAL_READY", "QUARANTINED"},
     EVIDENCE_TRIGGERED |-> {"REFERRAL_READY", "QUARANTINED"},
     REFERRAL_READY |-> {"TRANSMITTED", "ACK_PENDING", "QUARANTINED"},
     TRANSMITTED |-> {"ACK_PENDING"} \cup Reviewing, ACK_PENDING |-> Reviewing,
     INVESTIGATION_OPEN |-> Reviewing \ {"INVESTIGATION_OPEN"},
     PROSECUTOR_REVIEW |-> {"SUPPLEMENT_REQUIRED", "ESCALATION_READY", "CLOSED"},
     SUPPLEMENT_REQUIRED |-> Reviewing \ {"SUPPLEMENT_REQUIRED"},
     ESCALATION_READY |-> {"TRANSMITTED", "ACK_PENDING", "INVESTIGATION_OPEN", "PROSECUTOR_REVIEW", "CLOSED"},
     CLOSED |-> {}, QUARANTINED |-> Early]

\* Mutant of OutboundRows: only the lane's own rows are looked at.
OwnOutboundRows(lane) == {row \in outbounds : row.lane = lane}

\* Rows are matched by case: every lane of it sees them.
OutboundRows(lane) == outbounds

Acknowledging(rows) == \E row \in rows : row.status = "ACK_PENDING"
Assigned(state, l) == IF state = "ACK_PENDING" /\ l.tracked THEN "INVESTIGATION_OPEN" ELSE state

EffectiveState(l, rows) ==
    Assigned(IF rows # {} /\ l.state \in Early \cup {"TRANSMITTED"}
             THEN IF Acknowledging(rows) THEN "ACK_PENDING" ELSE "TRANSMITTED"
             ELSE l.state, l)

ActionKind(l, rows) ==
    LET state == EffectiveState(l, rows) IN
    CASE state \in {"CLOSED", "QUARANTINED"}      -> "no_action"
      [] state \in Building                        -> "casebuild"
      [] state = "REFERRAL_READY"                  -> IF rows # {} THEN "reconcile_receipt" ELSE "transmit"
      [] state \in {"TRANSMITTED", "ACK_PENDING"}  -> IF l.due THEN "follow_up" ELSE "await_ack"
      [] state = "INVESTIGATION_OPEN"              -> IF l.delivery THEN "monitor" ELSE "secure_evidence_delivery"
      [] state = "PROSECUTOR_REVIEW"               -> "monitor"
      [] state = "SUPPLEMENT_REQUIRED"             -> "supplement"
      [] state = "ESCALATION_READY"                -> "escalate"

NoDecision == [kind |-> "none"]

\* The two bridges name the target of a lane differently: one knows the phone.
Agency == "agency"
Target(l) == IF l.recipient # "" THEN l.recipient ELSE Agency
ContactTarget(l) == IF l.recipient # "" THEN l.recipient ELSE IF l.phone THEN "phone" ELSE Agency

LanesInit ==
    /\ lanes = [l \in Lanes |-> [state |-> "EVIDENCE_TRIGGERED", recipient |-> "", phone |-> FALSE,
                                 packet |-> 0, tracked |-> FALSE, due |-> FALSE, delivery |-> FALSE]]
    /\ outbounds = {} /\ prepared = {} /\ laneEdits = 0
    /\ decisions = [l \in Lanes |-> NoDecision]

ExternalKinds == {"transmit", "follow_up", "secure_evidence_delivery", "supplement", "escalate"}

\* A decision and the parts of its idempotency key; `known' is history.
Decide(lane) ==
    LET rows == OutboundRows(lane)
        l == lanes[lane]
        kind == ActionKind(l, rows)
    IN  /\ decisions' = [decisions EXCEPT ![lane] =
              IF kind \notin ExternalKinds \cap ActionKinds THEN NoDecision
              ELSE [lane |-> lane, kind |-> kind, state |-> EffectiveState(l, rows),
                    target |-> Target(l), packet |-> l.packet, known |-> outbounds # {}]]
        /\ UNCHANGED <<lanes, laneEdits, outbounds, prepared, pursuitVars>>

\* The key of an action is made of the decision's and of whom the lane names
\* when the action is made.
Envelope(d, l) == [key |-> <<d.lane, d.kind, d.state, d.target, d.packet, ContactTarget(l)>>,
                   decision |-> d, target |-> ContactTarget(l)]

\* A key that has its action gets no second one.  The duplicate window, which
\* may refuse a new one as well, is in OutboundPermit.
Prepare(lane) ==
    LET action == Envelope(decisions[lane], lanes[lane]) IN
    /\ decisions[lane] # NoDecision /\ \A a \in prepared : a.key # action.key
    /\ Cardinality(prepared) < MaxPrepared /\ prepared' = prepared \cup {action}
    /\ UNCHANGED <<lanes, laneEdits, outbounds, decisions, pursuitVars>>

\* The ledger is written once the action was sent, by whoever keeps it.
LedgerRow(lane, status) ==
    /\ \A row \in outbounds : row.lane # lane
    /\ outbounds' = outbounds \cup {[lane |-> lane, status |-> status]}
    /\ UNCHANGED <<lanes, laneEdits, decisions, prepared, pursuitVars>>

MoveLane(lane) ==
    /\ \E state \in AllowedForward[lanes[lane].state] : lanes' = [lanes EXCEPT ![lane].state = state]
    /\ UNCHANGED <<laneEdits, outbounds, decisions, prepared, pursuitVars>>

LaneEdited(lane) ==
    /\ laneEdits < MaxLaneEdits /\ laneEdits' = laneEdits + 1
    /\ \/ lanes' = [lanes EXCEPT ![lane].packet = @ + 1]
       \/ \E recipient \in Recipients \cup {""} : lanes' = [lanes EXCEPT ![lane].recipient = recipient]
       \/ \E field \in {"phone", "tracked", "due", "delivery"} \cap LaneFacts :
            ~lanes[lane][field] /\ lanes' = [lanes EXCEPT ![lane][field] = TRUE]
    /\ UNCHANGED <<outbounds, decisions, prepared, pursuitVars>>

LanesNext ==
    \/ \E lane \in Lanes : Decide(lane) \/ Prepare(lane) \/ MoveLane(lane) \/ LaneEdited(lane)
    \/ \E a \in prepared : \E status \in {"SENT", "ACK_PENDING"} : LedgerRow(a.decision.lane, status)

-----------------------------------------------------------------------------
(* Pursuit of one finding.  History is monotone: providers' receipts.      *)
NoHistory == [challenged |-> FALSE, acknowledged |-> FALSE, elapsed |-> FALSE, route |-> FALSE,
              direct |-> FALSE, reviewed |-> FALSE, result |-> FALSE, verified |-> FALSE, assessed |-> {}]
NoStep == [stage |-> "none"]

PursuitInit ==
    /\ finding = [authenticated |-> FALSE, duty |-> FALSE, actor |-> FALSE, counter |-> {}]
    /\ history = NoHistory /\ changes = 0 /\ pursued = NoStep /\ pursuits = {}

OpenCounterclaim == ~(finding.counter \subseteq history.assessed)

Review == IF history.route THEN "INDEPENDENT_REVIEW" ELSE "FIND_LAWFUL_ROUTE"

NextStage ==
    IF history.verified THEN "COMPLETE"
    ELSE IF history.result THEN "VERIFY_DISPOSITION"
    ELSE IF ~finding.authenticated THEN "AUTHENTICATE"
    ELSE IF ~finding.duty THEN "ESTABLISH_DUTY"
    ELSE IF ~finding.actor THEN "IDENTIFY_ACTOR"
    ELSE IF OpenCounterclaim THEN "REASSESS"
    ELSE IF history.direct /\ ~history.reviewed THEN Review
    ELSE IF ~history.challenged THEN "REQUEST_ACCOUNT"
    ELSE IF ~history.reviewed /\ history.elapsed THEN Review
    ELSE "VERIFY_DISPOSITION"

Effective == {"REQUEST_ACCOUNT", "INDEPENDENT_REVIEW"}

\* The sources of a step, by which a repeated operation is recognised.
EvidenceRefs ==
    [observed |-> finding.authenticated, duty |-> finding.duty, receipts |-> <<history.challenged,
     history.acknowledged, history.elapsed, history.reviewed>>,
     counter |-> IF OpenCounterclaim THEN finding.counter ELSE {}]

NextPursuitStep ==
    /\ pursued' = IF NextStage \in Effective
                  THEN [stage |-> NextStage, refs |-> EvidenceRefs, authenticated |-> finding.authenticated,
                        duty |-> finding.duty, when |-> [finding |-> finding, history |-> history]]
                  ELSE [stage |-> NextStage]
    /\ UNCHANGED <<finding, history, changes, pursuits, laneVars>>

Dispatchable(step) ==
    /\ step.stage \in Effective
    /\ step.authenticated /\ step.duty

\* dispatch_once reserves the operation id: a second dispatch of it does nothing.
DispatchPursuit ==
    /\ Dispatchable(pursued)
    /\ \A e \in pursuits : <<e.stage, e.refs>> # <<pursued.stage, pursued.refs>>
    /\ pursuits' = pursuits \cup {pursued} /\ pursued' = NoStep
    /\ UNCHANGED <<finding, history, changes, laneVars>>

\* The records change: facts are established or withdrawn, claims are raised
\* and assessed, receipts of what was done arrive.
FindingChanges ==
    /\ changes < MaxChanges /\ changes' = changes + 1
    /\ \/ \E field \in {"authenticated", "duty", "actor"} : finding' = [finding EXCEPT ![field] = ~@]
       \/ \E ref \in Refs \ finding.counter : finding' = [finding EXCEPT !.counter = @ \cup {ref}]
    /\ UNCHANGED <<history, pursued, pursuits, laneVars>>

Done(stage) == \E e \in pursuits : e.stage = stage
HistoryGrows ==
    /\ changes < MaxChanges /\ changes' = changes + 1
    /\ \/ \E ref \in finding.counter \ history.assessed : history' = [history EXCEPT !.assessed = @ \cup {ref}]
       \/ \E field \in {"challenged", "acknowledged", "elapsed", "route", "direct", "reviewed", "result", "verified"} :
            /\ ~history[field] /\ history' = [history EXCEPT ![field] = TRUE]
            /\ field \in {"challenged", "acknowledged", "elapsed"} => Done("REQUEST_ACCOUNT")
            /\ field = "reviewed" => Done("INDEPENDENT_REVIEW")
            /\ field = "verified" => history.result
    /\ UNCHANGED <<finding, pursued, pursuits, laneVars>>

PursuitNext == NextPursuitStep \/ DispatchPursuit \/ FindingChanges \/ HistoryGrows

CaseSpec == LanesInit /\ PursuitInit /\ [][LanesNext \/ PursuitNext]_caseVars

-----------------------------------------------------------------------------
(* Properties.                                                             *)
\* No transmission is prepared on a decision taken when the ledger had a row of
\* the case, whichever lane it was of and whatever the lanes' states; and while
\* the ledger lags, deciding and acting again, in whatever order and however
\* late, prepares a packet for the same target a second time only if the lane
\* named another one when the other decision was taken.
OneOutbound ==
    LET Transmissions == {a \in prepared : a.decision.kind = "transmit"}
    IN  /\ \A a \in Transmissions : ~a.decision.known
        /\ \A a, b \in Transmissions :
             /\ a.decision.lane = b.decision.lane /\ a.decision.packet = b.decision.packet
             /\ a.target = b.target /\ a.decision.target = b.decision.target
             => a = b

=============================================================================
