----------------------------- MODULE CaseIntake -----------------------------
(***************************************************************************)
(* CaseBrainOrchestrator.process_event: an event enters the timeline, is   *)
(* judged together with threat indicators, and leaves an audit receipt.    *)
(* The timeline is written first and the rest may raise, so that an event  *)
(* can be there without its receipt until it is sent again.                *)
(***************************************************************************)
EXTENDS Integers, FiniteSets, FiniteSetsExt

CONSTANTS
    CaseEvents,   \* event ids
    Contents,     \* what an event can say (records)
    ThreatInputs, \* indicator lists that can come with an event: sets of records
    NoContent

VARIABLES
    timeline,     \* TimelineBrain.events
    processed,    \* idempotency_index: <<event, content>>
    auditLog,     \* completed audit receipts of each event and content, with their advice
    arrived       \* history: the first content an event arrived with

intakeVars == <<timeline, processed, auditLog, arrived>>

ASSUME NoContentAssumption == NoContent \notin Contents
\* What int() takes is a whole number, and so is the weight of a category.
ASSUME ThreatsAssumption ==
    \A threats \in ThreatInputs : \A t \in threats :
        t.parses => t.weight \in Int /\ t.corroboration \in Int /\ t.urgency \in Int

-----------------------------------------------------------------------------
(* Judgements.  A content is [sourced, class, status, deadline]: whether it *)
(* has valid source pointers, what kind of claim it is, whether it is      *)
(* verified, and the days left to its nearest deadline (NoDeadline: none). *)
NoDeadline == 1000
EventValid(c) == c.sourced /\ (c.class = "verified_fact" => c.status = "verified")

\* An indicator is [weight, corroboration, urgency, parses].
Within(low, x, high) == IF x < low THEN low ELSE IF x > high THEN high ELSE x
Severity(t) == Within(0, t.weight + 7 * Within(0, t.corroboration, 5) + t.urgency, 100)

Level(severity) ==
    CASE severity >= 85 -> "critical"
      [] severity \in 65..84 -> "high"
      [] severity \in 40..64 -> "moderate"
      [] severity \in 1..39 -> "low"
      [] OTHER -> "none"

DeadlineNear(c) == c.deadline # NoDeadline /\ c.deadline <= 7
Alarming(threats) == \E t \in threats : Severity(t) >= 65

Recommended(c, threats) ==
    LET asked == (IF DeadlineNear(c) THEN {"verify_deadline"} ELSE {})
                   \cup (IF c.class = "allegation" THEN {"corroborate"} ELSE {})
                   \cup (IF Alarming(threats) THEN {"freeze_automation"} ELSE {})
    IN  IF asked = {} THEN {"index_and_monitor"} ELSE asked

\* Recommendations and signals never authorize anything, whatever they say.
Advice(c, threats) ==
    [does |-> Recommended(c, threats), levels |-> {Level(Severity(t)) : t \in threats},
     reviewed |-> TRUE, authorizes |-> FALSE]

-----------------------------------------------------------------------------
IntakeInit ==
    /\ timeline = [e \in CaseEvents |-> NoContent]
    /\ processed = {}
    /\ auditLog = {}
    /\ arrived = [e \in CaseEvents |-> NoContent]

\* The key of the index holds the event and a digest of its content.
Duplicate(e, c) == <<e, c>> \in processed

\* Mutant: the index alone decides, whatever the timeline holds.
NoCollision(e, c) == FALSE

Collides(e, c) == timeline[e] \notin {NoContent, c}

Enters(e, c) ==
    /\ EventValid(c) /\ ~Duplicate(e, c) /\ ~Collides(e, c)
    /\ timeline' = [timeline EXCEPT ![e] = c]
    /\ arrived' = [arrived EXCEPT ![e] = IF @ = NoContent THEN c ELSE @]

ProcessEvent(e, c, threats) ==
    /\ Enters(e, c)
    /\ \A t \in threats : t.parses
    /\ processed' = processed \cup {<<e, c>>}
    /\ auditLog' = auditLog \cup {[event |-> e, content |-> c, nth |-> Cardinality(auditLog),
                                   advice |-> Advice(c, threats)]}

\* An indicator with a count that is no number raises after the timeline.
ProcessRaises(e, c, threats) ==
    /\ Enters(e, c)
    /\ \E t \in threats : ~t.parses
    /\ UNCHANGED <<processed, auditLog>>

IntakeNext ==
    \E e \in CaseEvents, c \in Contents, threats \in ThreatInputs :
        ProcessEvent(e, c, threats) \/ ProcessRaises(e, c, threats)

IntakeSpec == IntakeInit /\ [][IntakeNext]_intakeVars

-----------------------------------------------------------------------------
\* However often an event is sent, changed, with other indicators or after a
\* failure: it is on the timeline as it first arrived, it has one audit receipt
\* exactly when it was processed, and that receipt is of the timeline's content,
\* calls for corroboration if that is an allegation, and authorizes nothing
\* (process_event, TimelineBrain.add).
EventsAreAudited ==
    \A e \in CaseEvents :
        LET mine == {r \in auditLog : r.event = e}
        IN  /\ timeline[e] = arrived[e]
            /\ Cardinality(mine) = Cardinality({p \in processed : p[1] = e})
            /\ Cardinality(mine) <= 1
            /\ \A r \in mine : /\ r.content = timeline[e] /\ ~r.advice.authorizes
                               /\ timeline[e].class = "allegation" => "corroborate" \in r.advice.does
                               /\ r.advice.levels \cap {"high", "critical"} # {}
                                     <=> "freeze_automation" \in r.advice.does
=============================================================================
