------------------------- MODULE ProviderAdmission -------------------------
(***************************************************************************)
(* Approved provider operations end to end: the plan that the repository   *)
(* hands to an authenticated host, what the host then does, and the        *)
(* admission of the receipt by CaseBrainOrchestrator, whose indexes live   *)
(* as long as its process.  ApprovedOperation has the judgements.          *)
(***************************************************************************)
EXTENDS ApprovedOperation

CONSTANTS
    Actions,      \* action requests (records, see ApprovedOperation)
    Reads,        \* observations of reads
    OpCatalog,    \* the connector catalog
    Transports,   \* the registry: the transport of each contract
    Rids,         \* ids of execution receipts
    Outcomes,     \* how an execution can end: [state, readback, verified]
    MaxExecutions, MaxStale  \* bounds on executions and on what grows old

VARIABLES
    outdated,     \* ids of the actions and reads whose time is beyond the maximum age
    plans,        \* plans handed to hosts
    receipts,     \* execution receipts that hosts hold
    runtime,      \* the indexes of the orchestrator
    audits,       \* how many audit receipts name each execution receipt
    readLedger    \* the ledger file of admitted reads

admissionVars == <<outdated, plans, receipts, runtime, audits, readLedger>>

ASSUME ActionsAssumption ==
    \A a \in Actions : /\ {"id", "operation", "content", "key", "approved"} \subseteq DOMAIN a
                        /\ a.envelope \subseteq Envelopes
ASSUME CatalogAssumption == \A op \in DOMAIN OpCatalog.writes : OpCatalog.writes[op] \in Rules

SessionBridge == TransportAdmitted(Transports, "authenticated_session_provider_bridge")

NoEntry == <<>>
Keys == {a.key : a \in Actions}
NoRuntime == [keys |-> [k \in Keys |-> NoEntry], index |-> [i \in Rids |-> NoEntry]]

AdmissionInit ==
    /\ CatalogSound(OpCatalog)
    /\ outdated = {} /\ plans = {} /\ receipts = {} /\ readLedger = {}
    /\ runtime = NoRuntime
    /\ audits = [i \in Rids |-> 0]

Age(x) == IF x.id \in outdated THEN "stale" ELSE "current"

\* Time passes the maximum age of an approval or an observation.
GoesStale(x) ==
    /\ x.id \notin outdated /\ Cardinality(outdated) < MaxStale
    /\ outdated' = outdated \cup {x.id}
    /\ UNCHANGED <<plans, receipts, runtime, audits, readLedger>>

\* The command asks for the exact approval, the function behind it accepts an
\* envelope as well; neither remembers that it was asked before.
PlanByCommand(a) ==
    /\ SessionBridge /\ Prepared(OpCatalog, a, Age(a))
    /\ plans' = plans \cup {Plan(a)}
    /\ UNCHANGED <<outdated, receipts, runtime, audits, readLedger>>

PlanBySession(a) ==
    /\ Plannable(OpCatalog, a, Age(a))
    /\ plans' = plans \cup {Plan(a)}
    /\ UNCHANGED <<outdated, receipts, runtime, audits, readLedger>>

\* The host carries out a plan, as often as it likes, and builds a receipt
\* from what it saw; the receipt names the scope of the plan.
HostExecutes(a, rid, o) ==
    /\ Plan(a) \in plans
    /\ Cardinality(receipts) < MaxExecutions
    /\ rid \notin {rc.id : rc \in receipts}
    /\ ReceiptBuildable(o)
    /\ receipts' = receipts \cup {BuiltReceipt(Adapted(a), rid, o)}
    /\ UNCHANGED <<outdated, plans, runtime, audits, readLedger>>

\* Mutant: the collision check compares the action, not the scope it was approved for.
KeyAgreesByName(a) ==
    runtime.keys[a.key] # NoEntry => runtime.keys[a.key].operation = a.operation

\* admit_connector_execution_receipt: the action is judged again, now.
KeyAgrees(a) == runtime.keys[a.key] \in {NoEntry, a.approved}
Known(rc) == runtime.index[rc.id] # NoEntry

Admit(a, rc) ==
    /\ ExactlyApproved(OpCatalog, a, Age(a))
    /\ KeyAgrees(a)
    /\ ReceiptMatches(rc, a)
    /\ ~Known(rc)
    /\ runtime' = [keys |-> [runtime.keys EXCEPT ![a.key] = a.approved],
                   index |-> [runtime.index EXCEPT ![rc.id] = rc]]
    /\ audits' = [audits EXCEPT ![rc.id] = @ + 1]
    /\ UNCHANGED <<outdated, plans, receipts, readLedger>>

\* The command builds an orchestrator of its own each time it runs.
NewProcess ==
    /\ runtime # NoRuntime
    /\ runtime' = NoRuntime
    /\ audits' = [i \in Rids |-> 0]
    /\ UNCHANGED <<outdated, plans, receipts, readLedger>>

\* A manifest of reads is admitted whole, in place of what the ledger held.
AdmitReads(manifest) ==
    /\ SessionBridge /\ manifest \notin {{}, readLedger}
    /\ \A r \in manifest :
         /\ ReadReceiptBuilt(OpCatalog, r)
         /\ ReadReceiptValid(OpCatalog, [r EXCEPT !.success = TRUE], Age(r))
    /\ readLedger' = manifest
    /\ UNCHANGED <<outdated, plans, receipts, runtime, audits>>

AdmissionNext ==
    \/ \E x \in Actions \cup Reads : GoesStale(x)
    \/ \E a \in Actions : PlanByCommand(a) \/ PlanBySession(a)
    \/ \E a \in Actions, rid \in Rids, o \in Outcomes : HostExecutes(a, rid, o)
    \/ \E a \in Actions, rc \in receipts : Admit(a, rc)
    \/ NewProcess
    \/ \E manifest \in SUBSET Reads : AdmitReads(manifest)

AdmissionSpec == AdmissionInit /\ [][AdmissionNext]_admissionVars

-----------------------------------------------------------------------------
\* The receipts an orchestrator has admitted.
Admitted == {runtime.index[i] : i \in {j \in Rids : runtime.index[j] # NoEntry}}

\* Whatever order receipts of actions with the same key arrive in, repeated,
\* for changed actions, or after their approvals aged: within a process an
\* idempotency key stands for one approved scope, every admitted receipt is one
\* a host holds for a planned action, and each has exactly one audit receipt
\* (admit_connector_execution_receipt).
KeysNameOneScope ==
    /\ \A rc \in Admitted :
         /\ rc \in receipts /\ rc.scope.key = rc.key
         /\ \E p \in plans : p.action = rc.action /\ p.scope = rc.scope
    /\ \A r1, r2 \in Admitted : r1.key = r2.key => r1.scope = r2.scope
    /\ \A i \in Rids : audits[i] = IF runtime.index[i] = NoEntry THEN 0 ELSE 1
=============================================================================
