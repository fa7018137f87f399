-------------------------- MODULE DurableMutation --------------------------
(***************************************************************************)
(* What the durable workflow was made of: a set of operations that are     *)
(* applied, read back and compensated (verified_changeset), the receipt    *)
(* ledger they are written to (echo_receipt_ledger, a file that several    *)
(* processes append to without a lock), and the stages of a mission        *)
(* (durable_mission_lifecycle).                                            *)
(***************************************************************************)
EXTENDS Integers, Sequences, SequencesExt

CONSTANTS
    Operations,   \* how many operations a changeset has
    Appenders,    \* processes that append receipts
    ReceiptIds,
    Genesis

VARIABLES
    phase,        \* of the changeset
    at,           \* operations applied so far
    inPlace,      \* operations in effect at the provider
    raised,       \* the operation whose application raised (0: none)
    unwinding,    \* the last operation compensation has not undone
    ledger,       \* the lines of the file
    appender,     \* what each process is doing
    accepted,     \* receipts whose append returned
    stage         \* of the mission

changesetVars == <<phase, at, inPlace, raised, unwinding>>
ledgerVars == <<ledger, appender, accepted>>
lifecycleVars == <<stage>>
durableVars == <<changesetVars, ledgerVars, lifecycleVars>>

-----------------------------------------------------------------------------
(* apply_with_verified_readback.                                           *)
ChangesetInit ==
    /\ phase = "preflight" /\ at = 0 /\ inPlace = {} /\ raised = 0 /\ unwinding = 0

Preflight(verified) ==
    /\ phase = "preflight"
    /\ phase' = IF verified THEN "applying" ELSE "refused"
    /\ UNCHANGED <<at, inPlace, raised, unwinding, ledgerVars, lifecycleVars>>

\* Without a compensating function the exception leaves everything in place.
Unwind(compensates) ==
    IF compensates THEN phase' = "compensating" /\ unwinding' = at'
    ELSE phase' = "failed" /\ unwinding' = at'

\* The operation is applied and read back; a mismatch unwinds it as well.
ApplyOperation(verified, compensates) ==
    /\ phase = "applying" /\ at < Operations
    /\ at' = at + 1
    /\ inPlace' = inPlace \cup {at + 1}
    /\ IF verified THEN UNCHANGED <<phase, unwinding>> ELSE Unwind(compensates)
    /\ UNCHANGED <<raised, ledgerVars, lifecycleVars>>

\* apply raises: whether it took effect is not known, it is not unwound.
ApplyRaises(effect, compensates) ==
    /\ phase = "applying" /\ at < Operations
    /\ at' = at
    /\ inPlace' = IF effect THEN inPlace \cup {at + 1} ELSE inPlace
    /\ raised' = at + 1
    /\ Unwind(compensates)
    /\ UNCHANGED <<ledgerVars, lifecycleVars>>

Applied ==
    /\ phase = "applying" /\ at = Operations
    /\ phase' = "applied"
    /\ UNCHANGED <<at, inPlace, raised, unwinding, ledgerVars, lifecycleVars>>

\* The last one applied is undone first.
NextUndone == unwinding

\* A compensation that raises ends the unwinding.
Compensate(works) ==
    /\ phase = "compensating"
    /\ IF unwinding = 0 THEN phase' = "failed" /\ UNCHANGED <<inPlace, unwinding>>
       ELSE IF works
       THEN inPlace' = inPlace \ {NextUndone} /\ unwinding' = unwinding - 1 /\ UNCHANGED phase
       ELSE phase' = "failed" /\ UNCHANGED <<inPlace, unwinding>>
    /\ UNCHANGED <<at, raised, ledgerVars, lifecycleVars>>

ChangesetNext ==
    \/ \E b \in BOOLEAN : Preflight(b) \/ Compensate(b)
    \/ \E b, c \in BOOLEAN : ApplyOperation(b, c) \/ ApplyRaises(b, c)
    \/ Applied

-----------------------------------------------------------------------------
(* EchoReceiptLedger: read and check, write, audit, without a lock.        *)
\* A line is a receipt with the hash of its predecessor, or torn.
Torn == [id |-> "torn", previous |-> "torn"]
Quiet == [at |-> "quiet"]

LedgerInit ==
    /\ ledger = <<>> /\ accepted = {}
    /\ appender = [a \in Appenders |-> Quiet]

HeadHash(lines) == IF lines = <<>> THEN Genesis ELSE Last(lines).id
Readable == \A n \in DOMAIN ledger : ledger[n] # Torn
Chained(lines) ==
    \A n \in DOMAIN lines : lines[n].previous = HeadHash(SubSeq(lines, 1, n - 1))

\* A receipt is made for the head its maker knows.
MakeReceipt(a, r) ==
    /\ appender[a] = Quiet /\ Readable
    /\ \A n \in DOMAIN ledger : ledger[n].id # r
    /\ \A b \in Appenders : appender[b] # Quiet => appender[b].line.id # r
    /\ appender' = [appender EXCEPT ![a] =
         [at |-> "made", line |-> [id |-> r, previous |-> HeadHash(ledger)]]]
    /\ UNCHANGED <<ledger, accepted, changesetVars, lifecycleVars>>

CheckReceipt(a) ==
    /\ appender[a].at = "made"
    /\ appender' = [appender EXCEPT ![a] =
         IF Readable /\ appender[a].line.previous = HeadHash(ledger)
         THEN [at |-> "checked", line |-> @.line] ELSE Quiet]
    /\ UNCHANGED <<ledger, accepted, changesetVars, lifecycleVars>>

\* The process may die in the middle of the line.
WriteReceipt(a, whole) ==
    /\ appender[a].at = "checked"
    /\ ledger' = Append(ledger, IF whole THEN appender[a].line ELSE Torn)
    /\ appender' = [appender EXCEPT ![a] =
         IF whole THEN [at |-> "written", line |-> @.line] ELSE Quiet]
    /\ UNCHANGED <<accepted, changesetVars, lifecycleVars>>

\* Mutant of AuditPasses: the check before the write is enough.
AuditSkipped == TRUE

AuditPasses == Readable /\ Chained(ledger)

AuditReceipt(a) ==
    /\ appender[a].at = "written"
    /\ accepted' = IF AuditPasses THEN accepted \cup {appender[a].line.id} ELSE accepted
    /\ appender' = [appender EXCEPT ![a] = Quiet]
    /\ UNCHANGED <<ledger, changesetVars, lifecycleVars>>

LedgerNext ==
    \E a \in Appenders :
      \/ \E r \in ReceiptIds : MakeReceipt(a, r)
      \/ CheckReceipt(a) \/ AuditReceipt(a)
      \/ \E whole \in BOOLEAN : WriteReceipt(a, whole)

-----------------------------------------------------------------------------
(* DurableMissionLifecycle.                                                *)
Anywhere == {"FAILED"}
LegalTransitions ==
    [RECEIVED |-> {"CONTEXT_HYDRATING", "BLOCKED"} \cup Anywhere,
     CONTEXT_HYDRATING |-> {"CONTEXT_READY", "WAITING_INPUT"} \cup Anywhere,
     CONTEXT_READY |-> {"EXECUTING", "CONTEXT_HYDRATING"} \cup Anywhere,
     EXECUTING |-> {"RECONCILING", "RETRYING"} \cup Anywhere,
     RECONCILING |-> {"CHANGESET_READY"} \cup Anywhere,
     CHANGESET_READY |-> {"PREFLIGHT"} \cup Anywhere,
     PREFLIGHT |-> {"MUTATING", "BLOCKED"} \cup Anywhere,
     MUTATING |-> {"READBACK", "COMPENSATING"} \cup Anywhere,
     READBACK |-> {"VERIFYING"} \cup Anywhere,
     VERIFYING |-> {"RECEIPTING", "COMPENSATING"} \cup Anywhere,
     RECEIPTING |-> {"COMPLETE"} \cup Anywhere,
     COMPLETE |-> {},
     WAITING_INPUT |-> {"CONTEXT_HYDRATING"} \cup Anywhere,
     RETRYING |-> {"CONTEXT_HYDRATING", "EXECUTING"} \cup Anywhere,
     COMPENSATING |-> {"RETRYING"} \cup Anywhere,
     BLOCKED |-> {"RETRYING", "WAITING_INPUT"} \cup Anywhere,
     FAILED |-> {"RETRYING"}]

Leads(s) == LegalTransitions[s]

LifecycleInit == stage = "RECEIVED"

\* bind_context and mark_complete end in a transition of their own, and
\* nothing keeps a caller from making it directly.
Transition(target) ==
    /\ target \in Leads(stage)
    /\ stage' = target
    /\ UNCHANGED <<changesetVars, ledgerVars>>

LifecycleNext == \E target \in DOMAIN LegalTransitions : Transition(target)

DurableSpec == /\ ChangesetInit /\ LedgerInit /\ LifecycleInit
               /\ [][ChangesetNext \/ LedgerNext \/ LifecycleNext]_durableVars

-----------------------------------------------------------------------------
\* An append that returned stays part of the valid chain for good, although
\* appends race without a lock, fork the chain, tear a line or die
\* (EchoReceiptLedger.append).
AcceptedStaysChained ==
    \E n \in 0..Len(ledger) :
        /\ Chained(SubSeq(ledger, 1, n))
        /\ accepted \subseteq {ledger[k].id : k \in 1..n}

=============================================================================
