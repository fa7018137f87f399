--------------------------- MODULE OutboundPermit ---------------------------
(***************************************************************************)
(* The outbound transaction of communications continuity (prepare, bind to  *)
(* a plan, start, finish) and the federated execution permit that an        *)
(* adapter validates and consumes before it calls a provider.               *)
(*                                                                         *)
(* Each database function is one transaction.  Those that lock the action   *)
(* row they decide about (start, finish, bind, issue) are one step.  Two do *)
(* not: prepare looks for duplicates before it inserts, and validate reads  *)
(* the action, the plan gate and the peer frontier in separate statements   *)
(* while it holds only the permit row.  Those are several steps.            *)
(*                                                                         *)
(* The clock appears as the four moments at which it matters: an action     *)
(* leaves the duplicate window, a context packet expires, a permit expires, *)
(* a frontier checkpoint passes fifteen minutes.                            *)
(***************************************************************************)
EXTENDS Integers, FiniteSets, FiniteSetsExt

CONSTANTS Actions,      \* idempotency keys, one outbound action each
          Recipient,         \* [Actions -> channel, matter and recipient]
          PlanActions,    \* rows of the operator's case execution plans
          Covers,         \* [PlanActions -> the actions a plan row matches]
          Adapters,       \* concurrent calls of validate or consume
          Hash,           \* Hash[g]: snapshot hash of frontier generation g
          MaxGen,         \* how many generations Hash knows
          Scopes,         \* bounds, one chosen per behaviour: the keys that callers
                          \* use, the plan rows they bind to, how many permits are
                          \* issued, which generations of the frontier are
                          \* projected, how actions end, which adapters validate
                          \* (FALSE) or consume (TRUE)
          NONE

Gens == 1..MaxGen

Terminal == {"completed", "failed", "cancelled"}
Outcomes == Terminal \cup {"sent"}

ASSUME PermitAssumption ==
  /\ NONE \notin PlanActions
  /\ MaxGen \in Nat
  /\ Scopes \subseteq [keys: SUBSET Actions, plans: SUBSET PlanActions, permits: Nat,
                         gens: SUBSET (1..MaxGen),
                         outcomes: SUBSET Outcomes, calls: SUBSET (Adapters \X BOOLEAN)]

VARIABLES action,       \* the outbound action of each key
          actionReceipts, \* types of the append-only receipts of each action
          event,        \* delivery status of the action's timeline event
          authorized,   \* plan rows that are authorized in an active, approved plan
          peer,         \* the checkpointed projection of the global frontier
          permit,       \* issued permits by number
          issued,       \* how many permits were issued
          call,         \* the validate or consume call of each adapter
          scope         \* the bounds of this behaviour

state == <<action, actionReceipts, event, authorized, peer, permit, issued, call>>
permitVars == <<state, scope>>

Counted == {"approved", "executing", "sent", "completed"}

Action == [status: {"none", "preparing", "executing", "approved"} \cup Outcomes,
           bound: PlanActions \cup {NONE},
           guard: PlanActions \cup {NONE},
           started: BOOLEAN,
           age: {"recent", "current", "expired"}]

Permit == [action: Actions, plan: PlanActions, gen: Gens, awareness: Gens,
           live: BOOLEAN, receipts: SUBSET {"ISSUED", "VALIDATED", "CONSUMED", "EXPIRED_REJECTED"}]

Peer == [gen: 0..MaxGen, awareness: 0..MaxGen, current: BOOLEAN]

Call == [pc: {"begun", "action", "gate", "frontier"}, permit: Nat,
         consume: BOOLEAN, live: BOOLEAN, current: BOOLEAN, doomed: BOOLEAN]

PermitTypeOK ==
  /\ action \in [Actions -> Action]
  /\ actionReceipts \in [Actions -> SUBSET ({"preflight"} \cup Outcomes)]
  /\ event \in [Actions -> {"none", "sent", "completed", "failed", "unknown"}]
  /\ authorized \in SUBSET PlanActions
  /\ peer \in Peer
  /\ issued \in Nat
  /\ permit \in [1..issued -> Permit]
  /\ call \in [Adapters -> Call \cup {NONE}]
  /\ \A w \in Adapters : call[w] # NONE => call[w].permit \in 1..issued
  /\ scope \in Scopes

NewAction == [status |-> "none", bound |-> NONE, guard |-> NONE, started |-> FALSE,
              age |-> "recent"]

PermitInit ==
  /\ action = [a \in Actions |-> NewAction]
  /\ actionReceipts = [a \in Actions |-> {}]
  /\ event = [a \in Actions |-> "none"]
  /\ authorized = {}
  /\ peer = [gen |-> 0, awareness |-> 0, current |-> FALSE]
  /\ permit = <<>>
  /\ issued = 0
  /\ call = [w \in Adapters |-> NONE]
  /\ scope \in Scopes

-----------------------------------------------------------------------------
(* Prepare: preflight first, insert later, nothing locked in between.       *)

Duplicates(a) ==
  {b \in Actions \ {a} : /\ Recipient[b] = Recipient[a]
                         /\ action[b].age = "recent"
                         /\ action[b].status \in Counted}

BeginPrepare(a) ==
  /\ a \in scope.keys
  /\ action[a].status = "none"
  /\ Duplicates(a) = {}
  /\ action' = [action EXCEPT ![a].status = "preparing"]
  /\ UNCHANGED <<actionReceipts, event, authorized, peer, permit, issued, call>>

CommitPrepare(a) ==
  /\ action[a].status = "preparing"
  /\ action' = [action EXCEPT ![a].status = "approved"]
  /\ actionReceipts' = [actionReceipts EXCEPT ![a] = {"preflight"}]
  /\ UNCHANGED <<event, authorized, peer, permit, issued, call>>

AbortPrepare(a) ==
  /\ action[a].status = "preparing"
  /\ action' = [action EXCEPT ![a].status = "none"]
  /\ UNCHANGED <<actionReceipts, event, authorized, peer, permit, issued, call>>

Exists(a) == action[a].status \notin {"none", "preparing"}

-----------------------------------------------------------------------------
(* Bind, start and finish.                                                  *)

\* The gate judges the plan row the action is bound to now.
Gate(a) == action[a].bound \in authorized /\ a \in Covers[action[a].bound]

\* Binding takes the guard away whatever the action's status is; NONE unbinds.
Rebound(r, pa) == [r EXCEPT !.bound = pa, !.guard = NONE]

Bind(a, pa) ==
  /\ Exists(a)
  /\ action' = [action EXCEPT ![a] = Rebound(@, pa)]
  /\ UNCHANGED <<actionReceipts, event, authorized, peer, permit, issued, call>>

\* The gate comes first, even for an action that can no longer start.
StartRefused(a) ==
  /\ Exists(a)
  /\ ~Gate(a)
  /\ action' = [action EXCEPT ![a].guard = NONE]
  /\ UNCHANGED <<actionReceipts, event, authorized, peer, permit, issued, call>>

\* A bounce of the target is a third reason of the preflight; as it comes from
\* mail that the model does not have, it may block any start.
StartBlocked(a) ==
  /\ action[a].status \in {"approved", "executing"}
  /\ Gate(a)
  /\ action' = [action EXCEPT ![a].guard = NONE]
  /\ UNCHANGED <<actionReceipts, event, authorized, peer, permit, issued, call>>

\* Mutant of PreflightReady: a start does not look for duplicates again.
PacketReady(a) == action[a].age # "expired"

PreflightReady(a) == action[a].age # "expired" /\ Duplicates(a) = {}

Start(a) ==
  /\ action[a].status \in {"approved", "executing"}
  /\ Gate(a)
  /\ PreflightReady(a)
  /\ action' = [action EXCEPT ![a].status = "executing",
                              ![a].started = TRUE,
                              ![a].guard = action[a].bound]
  /\ UNCHANGED <<actionReceipts, event, authorized, peer, permit, issued, call>>

\* Mutant of Finishable: no replay check, a settled action is finished again.
FinishableAgain(a) == Exists(a)

\* `sent' may be reported again and again; a terminal status only once.
Finishable(a) == action[a].status \in {"approved", "executing", "sent"}

Finish(a, outcome) ==
  /\ Finishable(a)
  /\ action' = [action EXCEPT ![a].status = outcome]
  /\ actionReceipts' = [actionReceipts EXCEPT ![a] = @ \cup {outcome}]
  /\ event' = [event EXCEPT ![a] = IF outcome = "cancelled" THEN "unknown" ELSE outcome]
  /\ UNCHANGED <<authorized, peer, permit, issued, call>>

-----------------------------------------------------------------------------
(* Issue.  A caller has to quote the checkpointed hash, awareness receipt   *)
(* and watermark, so it adds nothing to what the peer row says.             *)

CanIssue(a) ==
  /\ action[a].status = "executing"
  /\ action[a].guard # NONE
  /\ Gate(a)
  /\ action[a].age # "expired"
  /\ peer.current
  /\ peer.gen # 0
  /\ peer.awareness >= peer.gen

Unused(p) == permit[p].live /\ "CONSUMED" \notin permit[p].receipts

\* Mutant of Reusable: the watermark takes the place of the snapshot hash.
ReusableByWatermark(a) ==
  {p \in 1..issued : /\ permit[p].action = a
                     /\ permit[p].gen = peer.gen
                     /\ permit[p].awareness = peer.awareness
                     /\ Unused(p)}

\* The permit's identity: the plan row and the watermark are not part of it.
Reusable(a) ==
  {p \in 1..issued : /\ permit[p].action = a
                     /\ Hash[permit[p].gen] = Hash[peer.gen]
                     /\ permit[p].awareness = peer.awareness
                     /\ Unused(p)}

Issue(a) ==
  /\ CanIssue(a)
  /\ Reusable(a) = {}
  /\ issued < scope.permits
  /\ issued' = issued + 1
  /\ permit' = [p \in 1..(issued + 1) |->
                  IF p <= issued THEN permit[p]
                  ELSE [action |-> a, plan |-> action[a].bound, gen |-> peer.gen,
                        awareness |-> peer.awareness, live |-> TRUE,
                        receipts |-> {"ISSUED"}]]
  /\ UNCHANGED <<action, actionReceipts, event, authorized, peer, call>>

-----------------------------------------------------------------------------
(* Validate and consume.  now() is the start of the transaction: whether    *)
(* the permit has expired, and how old a checkpoint is, is judged as of the *)
(* first step.  `doomed' is history: nothing could save the call any more   *)
(* when it began.                                                           *)

Doomed(p) == ~Unused(p) \/ action[permit[p].action].status # "executing"

BeginCall(w, p, consume) ==
  /\ call[w] = NONE
  /\ call' = [call EXCEPT ![w] = [pc |-> "begun", permit |-> p, consume |-> consume,
                                  live |-> permit[p].live, current |-> peer.current,
                                  doomed |-> Doomed(p)]]
  /\ UNCHANGED <<action, actionReceipts, event, authorized, peer, permit, issued>>

RowLocked(p) == \E w \in Adapters : call[w] # NONE /\ call[w].permit = p /\ call[w].pc # "begun"

\* Mutant of StillExecuting: the action's status is not read again.
StillBound(p) ==
  LET a == permit[p].action
  IN  action[a].bound = permit[p].plan /\ action[a].guard # NONE

StillExecuting(p) ==
  LET a == permit[p].action
  IN  /\ action[a].status = "executing"
      /\ action[a].bound = permit[p].plan
      /\ action[a].guard # NONE

\* With the permit row locked: consumed?  expired?  then the action row.
CheckAction(w) ==
  /\ call[w] # NONE
  /\ call[w].pc = "begun"
  /\ ~RowLocked(call[w].permit)
  /\ LET p == call[w].permit
         unspent == "CONSUMED" \notin permit[p].receipts
     IN  /\ permit' = IF unspent /\ ~call[w].live
                        THEN [permit EXCEPT ![p].receipts = @ \cup {"EXPIRED_REJECTED"}]
                        ELSE permit
         /\ call' = IF unspent /\ call[w].live /\ StillExecuting(p)
                      THEN [call EXCEPT ![w].pc = "action"]
                      ELSE [call EXCEPT ![w] = NONE]
  /\ UNCHANGED <<action, actionReceipts, event, authorized, peer, issued>>

\* The gate reads the action again, and its binding with it.
CheckGate(w) ==
  /\ call[w] # NONE
  /\ call[w].pc = "action"
  /\ call' = IF Gate(permit[call[w].permit].action)
               THEN [call EXCEPT ![w].pc = "gate"]
               ELSE [call EXCEPT ![w] = NONE]
  /\ UNCHANGED <<action, actionReceipts, event, authorized, peer, permit, issued>>

FrontierMatches(p) ==
  /\ peer.gen # 0
  /\ Hash[peer.gen] = Hash[permit[p].gen]
  /\ permit[p].awareness >= peer.gen
  /\ peer.awareness = permit[p].awareness

CheckFrontier(w) ==
  /\ call[w] # NONE
  /\ call[w].pc = "gate"
  /\ call' = IF (peer.current \/ call[w].current) /\ FrontierMatches(call[w].permit)
               THEN [call EXCEPT ![w].pc = "frontier"]
               ELSE [call EXCEPT ![w] = NONE]
  /\ UNCHANGED <<action, actionReceipts, event, authorized, peer, permit, issued>>

CommitCall(w) ==
  /\ call[w] # NONE
  /\ call[w].pc = "frontier"
  /\ permit' = [permit EXCEPT ![call[w].permit].receipts =
                  @ \cup {"VALIDATED"} \cup (IF call[w].consume THEN {"CONSUMED"} ELSE {})]
  /\ call' = [call EXCEPT ![w] = NONE]
  /\ UNCHANGED <<action, actionReceipts, event, authorized, peer, issued>>

AbortCall(w) ==
  /\ call[w] # NONE
  /\ call' = [call EXCEPT ![w] = NONE]
  /\ UNCHANGED <<action, actionReceipts, event, authorized, peer, permit, issued>>

-----------------------------------------------------------------------------
(* The projection, the operator and the clock.  OperatorDecides is also a   *)
(* plan row that reaches its not_before or its expires_at.                  *)

\* Nothing orders the projections: an older one may overwrite a newer one, and
\* one without awareness evidence keeps the evidence that was there.
RecordPeerFrontier(g, k) ==
  /\ peer' = [gen |-> g, awareness |-> k, current |-> TRUE]
  /\ UNCHANGED <<action, actionReceipts, event, authorized, permit, issued, call>>

FrontierAges ==
  /\ peer.current
  /\ peer' = [peer EXCEPT !.current = FALSE]
  /\ UNCHANGED <<action, actionReceipts, event, authorized, permit, issued, call>>

OperatorDecides(pa) ==
  /\ authorized' = IF pa \in authorized THEN authorized \ {pa} ELSE authorized \cup {pa}
  /\ UNCHANGED <<action, actionReceipts, event, peer, permit, issued, call>>

LeavesWindow(a) ==
  /\ Exists(a)
  /\ action[a].age = "recent"
  /\ action' = [action EXCEPT ![a].age = "current"]
  /\ UNCHANGED <<actionReceipts, event, authorized, peer, permit, issued, call>>

PermitExpires(p) ==
  /\ permit[p].live
  /\ permit' = [permit EXCEPT ![p].live = FALSE]
  /\ UNCHANGED <<action, actionReceipts, event, authorized, peer, issued, call>>

\* A day is longer than the duplicate window, and no permit outlives its packet.
PacketExpires(a) ==
  /\ Exists(a)
  /\ action[a].age = "current"
  /\ \A p \in 1..issued : permit[p].action = a => ~permit[p].live
  /\ action' = [action EXCEPT ![a].age = "expired"]
  /\ UNCHANGED <<actionReceipts, event, authorized, peer, permit, issued, call>>

Step ==
  \/ \E a \in Actions :
       \/ BeginPrepare(a) \/ CommitPrepare(a) \/ AbortPrepare(a)
       \/ \E pa \in scope.plans \cup {NONE} : Bind(a, pa)
       \/ StartRefused(a) \/ StartBlocked(a) \/ Start(a)
       \/ \E outcome \in scope.outcomes : Finish(a, outcome)
       \/ Issue(a)
       \/ LeavesWindow(a) \/ PacketExpires(a)
  \/ \E w \in Adapters :
       \/ \E p \in 1..issued, consume \in BOOLEAN :
            <<w, consume>> \in scope.calls /\ BeginCall(w, p, consume)
       \/ CheckAction(w) \/ CheckGate(w) \/ CheckFrontier(w)
       \/ CommitCall(w) \/ AbortCall(w)
  \/ \E g \in scope.gens : \E k \in {g, peer.awareness} : RecordPeerFrontier(g, k)
  \/ FrontierAges
  \/ \E pa \in scope.plans : OperatorDecides(pa)
  \/ \E p \in 1..issued : PermitExpires(p)

PermitNext == Step /\ UNCHANGED scope

PermitSpec == PermitInit /\ [][PermitNext]_permitVars

-----------------------------------------------------------------------------
(* What an adapter that asks now would be told.                             *)

Usable(p) ==
  /\ Unused(p)
  /\ StillExecuting(p)
  /\ Gate(permit[p].action)
  /\ peer.current
  /\ FrontierMatches(p)

\* However often permits are issued, consumed and reissued while the frontier
\* moves forward and back and the action is rebound, an action never has two
\* permits that would both be honoured: two dispatches for one action need a
\* consumption, and then a new issue, in between.
OneUsablePermit ==
  \A p, q \in 1..issued :
    permit[p].action = permit[q].action /\ Usable(p) /\ Usable(q) => p = q

\* Two racing prepares may both be approved for one recipient, but of two that
\* are still in the duplicate window only one was ever started and not failed
\* or withdrawn.
NoRecentDuplicates ==
  \A a, b \in Actions :
    /\ a # b
    /\ Recipient[a] = Recipient[b]
    => ~ \A c \in {a, b} : /\ action[c].started
                           /\ action[c].age = "recent"
                           /\ action[c].status \in Counted

\* An armed guard was computed for the plan row the action is bound to now:
\* rebinding an action that already executes disarms it until it starts again.
GuardIsForBinding ==
  \A a \in Actions :
    action[a].guard # NONE => action[a].guard = action[a].bound /\ action[a].started

\* A permit that was spent or had expired, or whose action was sent, finished
\* or withdrawn, before a call began does not get that call past its first
\* check, whatever commits meanwhile.
DoomedIsRefused ==
  \A w \in Adapters : call[w] # NONE /\ call[w].doomed => call[w].pc = "begun"

\* The receipts tell how the action ended: it has one terminal receipt exactly
\* when it is settled, the one of its status, and the timeline agrees.
ReceiptsTellTheEnd ==
  \A a \in Actions :
    /\ actionReceipts[a] \cap Terminal = {action[a].status} \cap Terminal
    /\ action[a].status \in {"sent", "completed", "failed"} => event[a] = action[a].status
    /\ action[a].status = "cancelled" => event[a] = "unknown"

\* What the answer of issue promises, READY_FOR_PROVIDER_DISPATCH: the permit it
\* hands out for a second time would be honoured.
ReissuedIsUsable ==
  \A a \in Actions :
    CanIssue(a) /\ Reusable(a) # {} => Usable(Max(Reusable(a)))
=============================================================================
