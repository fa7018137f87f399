------------------------ MODULE OutboundPermitProofs ------------------------
(* The outbound transaction and its permits, proved for any actions, plan   *)
(* rows, adapters, frontier generations and bounds.                         *)
EXTENDS OutboundPermit, TLAPS

Begun == {"executing"} \cup Outcomes

(* An action that has not been inserted was not started and has no plan.    *)
NotYetStarted ==
  \A a \in Actions : action[a].status \in {"none", "preparing"} => ~action[a].started

(* What is said of the actions, their receipts and their events alone.      *)
ActionInv ==
  /\ action \in [Actions -> Action]
  /\ actionReceipts \in [Actions -> SUBSET ({"preflight"} \cup Outcomes)]
  /\ event \in [Actions -> {"none", "sent", "completed", "failed", "unknown"}]
  /\ NotYetStarted
  /\ NoRecentDuplicates
  /\ GuardIsForBinding
  /\ ReceiptsTellTheEnd

(* Of two permits with one identity at most one is unused, and a permit's   *)
(* action was started: it can only go on to be sent or settled.             *)
OneIdentity ==
  \A p, q \in 1..issued :
    /\ p # q
    /\ permit[p].action = permit[q].action
    /\ Hash[permit[p].gen] = Hash[permit[q].gen]
    /\ permit[p].awareness = permit[q].awareness
    => ~(Unused(p) /\ Unused(q))

PermitInv ==
  /\ issued \in Nat
  /\ permit \in [1..issued -> Permit]
  /\ \A p \in 1..issued : action[permit[p].action].status \in Begun
  /\ OneIdentity

(* What doomed a call when it began still dooms it.                         *)
CallInv ==
  /\ call \in [Adapters -> Call \cup {NONE}]
  /\ \A w \in Adapters : call[w] # NONE => call[w].permit \in 1..issued
  /\ \A w \in Adapters :
       call[w] # NONE /\ call[w].doomed =>
         /\ call[w].pc = "begun"
         /\ \/ ~call[w].live
            \/ "CONSUMED" \in permit[call[w].permit].receipts
            \/ action[permit[call[w].permit].action].status # "executing"

OtherInv ==
  /\ authorized \in SUBSET PlanActions
  /\ peer \in Peer
  /\ scope \in Scopes

Inv == ActionInv /\ PermitInv /\ CallInv /\ OtherInv

(* How the statuses move: once begun an action never executes again after   *)
(* it was sent or settled.                                                  *)
StatusMoves ==
  \A a \in Actions :
    action[a].status \in Begun =>
      /\ action'[a].status \in Begun
      /\ action'[a].status = "executing" => action[a].status = "executing"

-----------------------------------------------------------------------------

LEMMA InitInv == PermitInit => Inv
<1> SUFFICES ASSUME PermitInit PROVE Inv
  OBVIOUS
<1> USE PermitAssumption
<1>1. NewAction \in Action
  BY DEF NewAction, Action
<1>2. ActionInv
  BY <1>1 DEF PermitInit, ActionInv, NewAction, NotYetStarted, NoRecentDuplicates,
              GuardIsForBinding, ReceiptsTellTheEnd, Terminal
<1>3. issued = 0 /\ permit \in [1..issued -> Permit]
  BY DEF PermitInit
<1>4. PermitInv
  BY <1>3 DEF PermitInv, OneIdentity
<1>5. CallInv
  BY DEF PermitInit, CallInv
<1>6. OtherInv
  BY DEF PermitInit, OtherInv, Peer
<1> QED
  BY <1>2, <1>4, <1>5, <1>6 DEF Inv

(* A step that only moves statuses forward keeps what is said of permits    *)
(* and calls.                                                               *)
LEMMA ForwardKeepsPermits ==
  ASSUME Inv, StatusMoves, UNCHANGED <<permit, issued, call>>
  PROVE  PermitInv' /\ CallInv'
<1>1. ASSUME NEW p \in 1..issued
      PROVE  permit[p].action \in Actions
  BY DEF Inv, PermitInv, Permit
<1>2. (\A p \in 1..issued : action[permit[p].action].status \in Begun)'
  BY <1>1 DEF Inv, PermitInv, StatusMoves
<1>3. OneIdentity'
  BY DEF Inv, PermitInv, OneIdentity, Unused
<1>4. PermitInv'
  BY <1>2, <1>3 DEF Inv, PermitInv
<1>5. ASSUME NEW w \in Adapters, call[w] # NONE, call[w].doomed
      PROVE  /\ call[w].pc = "begun"
             /\ \/ ~call[w].live
                \/ "CONSUMED" \in permit[call[w].permit].receipts
                \/ action'[permit[call[w].permit].action].status # "executing"
  <2>1. call[w].permit \in 1..issued
    BY <1>5 DEF Inv, CallInv
  <2>2. action[permit[call[w].permit].action].status \in Begun
    BY <2>1 DEF Inv, PermitInv
  <2> QED
    BY <1>1, <1>5, <2>1, <2>2 DEF Inv, CallInv, StatusMoves
<1>6. CallInv'
  BY <1>5 DEF Inv, CallInv
<1> QED
  BY <1>4, <1>6

-----------------------------------------------------------------------------
(* The steps of the outbound transaction.                                   *)

LEMMA PrepareStep ==
  ASSUME Inv, NEW a \in Actions, BeginPrepare(a) \/ CommitPrepare(a) \/ AbortPrepare(a)
  PROVE  ActionInv' /\ StatusMoves
<1>1. PICK s \in {"none", "preparing", "approved"} :
        /\ action' = [action EXCEPT ![a].status = s]
        /\ s = "approved" => action[a].status = "preparing" /\ actionReceipts' = [actionReceipts EXCEPT ![a] = {"preflight"}]
        /\ s # "approved" => actionReceipts' = actionReceipts
  BY DEF BeginPrepare, CommitPrepare, AbortPrepare
<1>2. action[a].status \in {"none", "preparing"} /\ event' = event
  BY DEF BeginPrepare, CommitPrepare, AbortPrepare
<1>3. action[a] \in Action /\ ~action[a].started
  BY <1>2 DEF Inv, ActionInv, NotYetStarted
<1>4. [action[a] EXCEPT !.status = s] \in Action
  BY <1>3 DEF Action
<1>5. action' \in [Actions -> Action]
  BY <1>1, <1>4 DEF Inv, ActionInv
<1>6. /\ actionReceipts' \in [Actions -> SUBSET ({"preflight"} \cup Outcomes)]
      /\ event' \in [Actions -> {"none", "sent", "completed", "failed", "unknown"}]
  BY <1>1, <1>2 DEF Inv, ActionInv
<1>7. \A b \in Actions : /\ action'[b].started = action[b].started
                         /\ action'[b].age = action[b].age
                         /\ action'[b].guard = action[b].guard
                         /\ action'[b].bound = action[b].bound
                         /\ b # a => action'[b] = action[b]
                         /\ b = a => action'[b].status = s /\ ~action'[b].started
  BY <1>1, <1>3 DEF Inv, ActionInv, Action
<1>8. NotYetStarted'
  BY <1>7 DEF Inv, ActionInv, NotYetStarted
<1>9. NoRecentDuplicates'
  BY <1>7 DEF Inv, ActionInv, NoRecentDuplicates
<1>10. GuardIsForBinding'
  BY <1>7 DEF Inv, ActionInv, GuardIsForBinding
<1>11. ReceiptsTellTheEnd'
  <2>1. CASE s = "approved"
    BY <1>1, <1>2, <1>7, <2>1 DEF Inv, ActionInv, ReceiptsTellTheEnd, Terminal
  <2>2. CASE s # "approved"
    <3>1. actionReceipts[a] \cap Terminal = {}
      BY <1>2 DEF Inv, ActionInv, ReceiptsTellTheEnd, Terminal
    <3> QED
      BY <1>1, <1>2, <1>7, <2>2, <3>1 DEF Inv, ActionInv, ReceiptsTellTheEnd, Terminal
  <2> QED
    BY <2>1, <2>2
<1>12. StatusMoves
  BY <1>2, <1>7 DEF StatusMoves, Begun, Outcomes, Terminal
<1> QED
  BY <1>5, <1>6, <1>8, <1>9, <1>10, <1>11, <1>12 DEF ActionInv

(* Binding, a refused or blocked start, and the clock of an action leave    *)
(* its status alone, disarm it or keep its guard, and never make it younger.*)
LEMMA QuietStep ==
  ASSUME Inv, NEW a \in Actions,
         \/ \E pa \in scope.plans \cup {NONE} : Bind(a, pa)
         \/ StartRefused(a) \/ StartBlocked(a) \/ LeavesWindow(a) \/ PacketExpires(a)
  PROVE  ActionInv' /\ StatusMoves
<1> USE PermitAssumption
<1>1. PICK r \in Action :
        /\ action' = [action EXCEPT ![a] = r]
        /\ r.status = action[a].status /\ r.started = action[a].started
        /\ r.age = "recent" => action[a].age = "recent"
        /\ \/ r.guard = NONE
           \/ r.guard = action[a].guard /\ r.bound = action[a].bound
  <2>1. action[a] \in Action
    BY DEF Inv, ActionInv
  <2>2. CASE \E pa \in scope.plans \cup {NONE} : Bind(a, pa)
    <3>1. PICK pa \in PlanActions \cup {NONE} : action' = [action EXCEPT ![a] = Rebound(@, pa)]
      BY <2>2 DEF Bind, Inv, OtherInv
    <3>2. Rebound(action[a], pa) \in Action
      BY <2>1 DEF Rebound, Action
    <3>3. action' = [action EXCEPT ![a] = Rebound(action[a], pa)]
      BY <3>1 DEF Inv, ActionInv
    <3> QED
      BY <2>1, <3>2, <3>3 DEF Rebound, Action
  <2>3. CASE StartRefused(a) \/ StartBlocked(a)
    <3>1. [action[a] EXCEPT !.guard = NONE] \in Action
      BY <2>1 DEF Action
    <3>2. action' = [action EXCEPT ![a] = [action[a] EXCEPT !.guard = NONE]]
      BY <2>3 DEF StartRefused, StartBlocked, Inv, ActionInv
    <3> QED
      BY <2>1, <3>1, <3>2 DEF Action
  <2>4. CASE LeavesWindow(a) \/ PacketExpires(a)
    <3>1. PICK t \in {"current", "expired"} :
            action' = [action EXCEPT ![a] = [action[a] EXCEPT !.age = t]]
      BY <2>4 DEF LeavesWindow, PacketExpires, Inv, ActionInv
    <3>2. [action[a] EXCEPT !.age = t] \in Action
      BY <2>1 DEF Action
    <3> QED
      BY <2>1, <3>1, <3>2 DEF Action
  <2> QED
    BY <2>2, <2>3, <2>4
<1>2. actionReceipts' = actionReceipts /\ event' = event
  BY DEF Bind, StartRefused, StartBlocked, LeavesWindow, PacketExpires
<1>3. action' \in [Actions -> Action]
  BY <1>1 DEF Inv, ActionInv
<1>4. \A b \in Actions : /\ action'[b].status = action[b].status
                         /\ action'[b].started = action[b].started
                         /\ action'[b].age = "recent" => action[b].age = "recent"
                         /\ \/ action'[b].guard = NONE
                            \/ /\ action'[b].guard = action[b].guard
                               /\ action'[b].bound = action[b].bound
  BY <1>1 DEF Inv, ActionInv
<1>5. NotYetStarted' /\ StatusMoves
  BY <1>4 DEF Inv, ActionInv, NotYetStarted, StatusMoves
<1>6. NoRecentDuplicates'
  BY <1>4 DEF Inv, ActionInv, NoRecentDuplicates
<1>7. GuardIsForBinding'
  BY <1>4 DEF Inv, ActionInv, GuardIsForBinding
<1>8. ReceiptsTellTheEnd'
  BY <1>2, <1>4 DEF Inv, ActionInv, ReceiptsTellTheEnd
<1> QED
  BY <1>2, <1>3, <1>5, <1>6, <1>7, <1>8 DEF Inv, ActionInv

(* The second look for duplicates is what makes a start safe.               *)
LEMMA StartStep ==
  ASSUME Inv, NEW a \in Actions, Start(a)
  PROVE  ActionInv' /\ StatusMoves
<1> USE PermitAssumption
<1>1. action[a] \in Action /\ action[a].status \in {"approved", "executing"}
  BY DEF Inv, ActionInv, Start
<1>2. action[a].bound \in PlanActions
  BY DEF Start, Gate, Inv, OtherInv
<1> DEFINE r == [action[a] EXCEPT !.status = "executing", !.started = TRUE,
                                  !.guard = action[a].bound]
<1>3. r \in Action /\ action' = [action EXCEPT ![a] = r]
  BY <1>1, <1>2 DEF Start, Action, Inv, ActionInv
<1>4. /\ r.status = "executing" /\ r.started /\ r.age = action[a].age
      /\ r.guard = r.bound
  BY <1>1 DEF Action
<1> HIDE DEF r
<1>5. actionReceipts' = actionReceipts /\ event' = event
  BY DEF Start
<1>6. action' \in [Actions -> Action]
  BY <1>3 DEF Inv, ActionInv
<1>7. \A b \in Actions : action'[b] = IF b = a THEN r ELSE action[b]
  BY <1>3 DEF Inv, ActionInv
<1>8. NotYetStarted' /\ StatusMoves
  BY <1>1, <1>4, <1>7 DEF Inv, ActionInv, NotYetStarted, StatusMoves, Begun, Outcomes, Terminal
<1>9. \A b \in Actions : b # a /\ Recipient[b] = Recipient[a] =>
                           ~(action[b].age = "recent" /\ action[b].status \in Counted)
  BY DEF Start, PreflightReady, Duplicates
<1>10. NoRecentDuplicates'
  BY <1>7, <1>9 DEF Inv, ActionInv, NoRecentDuplicates
<1>11. GuardIsForBinding'
  BY <1>4, <1>7 DEF Inv, ActionInv, GuardIsForBinding
<1>12. ReceiptsTellTheEnd'
  BY <1>1, <1>4, <1>5, <1>7 DEF Inv, ActionInv, ReceiptsTellTheEnd, Terminal
<1> QED
  BY <1>5, <1>6, <1>8, <1>10, <1>11, <1>12 DEF Inv, ActionInv

LEMMA FinishStep ==
  ASSUME Inv, NEW a \in Actions, NEW outcome \in Outcomes, Finish(a, outcome)
  PROVE  ActionInv' /\ StatusMoves
<1>1. action[a] \in Action /\ action[a].status \in {"approved", "executing", "sent"}
  BY DEF Inv, ActionInv, Finish, Finishable
<1> DEFINE r == [action[a] EXCEPT !.status = outcome]
<1>2. r \in Action /\ action' = [action EXCEPT ![a] = r]
  BY <1>1 DEF Finish, Action, Inv, ActionInv
<1>3. /\ r.status = outcome /\ r.started = action[a].started /\ r.age = action[a].age
      /\ r.guard = action[a].guard /\ r.bound = action[a].bound
  BY <1>1 DEF Action
<1> HIDE DEF r
<1>4. \A b \in Actions :
        /\ action'[b] = IF b = a THEN r ELSE action[b]
        /\ actionReceipts'[b] = IF b = a THEN actionReceipts[a] \cup {outcome} ELSE actionReceipts[b]
        /\ event'[b] = IF b = a THEN (IF outcome = "cancelled" THEN "unknown" ELSE outcome)
                                ELSE event[b]
  BY <1>2 DEF Finish, Inv, ActionInv
<1>5. /\ action' \in [Actions -> Action]
      /\ actionReceipts' \in [Actions -> SUBSET ({"preflight"} \cup Outcomes)]
      /\ event' \in [Actions -> {"none", "sent", "completed", "failed", "unknown"}]
  BY <1>2 DEF Finish, Inv, ActionInv, Outcomes, Terminal
<1>6. NotYetStarted' /\ StatusMoves
  BY <1>1, <1>3, <1>4 DEF Inv, ActionInv, NotYetStarted, StatusMoves, Begun, Outcomes, Terminal
<1>7. \A b \in Actions : /\ action'[b].started = action[b].started
                         /\ action'[b].age = action[b].age
                         /\ action'[b].status \in Counted => action[b].status \in Counted
  BY <1>1, <1>3, <1>4 DEF Counted
<1>8. NoRecentDuplicates'
  BY <1>7 DEF Inv, ActionInv, NoRecentDuplicates
<1>9. GuardIsForBinding'
  BY <1>3, <1>4 DEF Inv, ActionInv, GuardIsForBinding
<1>10. actionReceipts[a] \cap Terminal = {}
  BY <1>1 DEF Inv, ActionInv, ReceiptsTellTheEnd, Terminal
<1>11. ReceiptsTellTheEnd'
  BY <1>3, <1>4, <1>10 DEF Inv, ActionInv, ReceiptsTellTheEnd, Outcomes, Terminal
<1> QED
  BY <1>5, <1>6, <1>8, <1>9, <1>11 DEF ActionInv

-----------------------------------------------------------------------------
(* Issue, and the calls of the adapters.                                    *)

(* A new permit has an identity that no unused permit has.                  *)
LEMMA IssueStep ==
  ASSUME Inv, NEW a \in Actions, Issue(a)
  PROVE  PermitInv' /\ CallInv'
<1> USE PermitAssumption
<1>1. /\ CanIssue(a) /\ Reusable(a) = {}
      /\ issued' = issued + 1
      /\ action' = action /\ call' = call /\ peer' = peer
  BY DEF Issue
<1> DEFINE new == [action |-> a, plan |-> action[a].bound, gen |-> peer.gen,
                   awareness |-> peer.awareness, live |-> TRUE, receipts |-> {"ISSUED"}]
<1>2. issued \in Nat /\ issued' \in Nat
  BY <1>1 DEF Inv, PermitInv
<1>3. new \in Permit
  <2>1. action[a].bound \in PlanActions
    BY <1>1 DEF CanIssue, Gate, Inv, OtherInv
  <2>2. peer.gen \in Gens /\ peer.awareness \in Gens
    BY <1>1 DEF CanIssue, Inv, OtherInv, Peer, Gens
  <2> QED
    BY <2>1, <2>2 DEF Permit
<1>4. /\ new.action = a /\ new.gen = peer.gen /\ new.awareness = peer.awareness
  OBVIOUS
<1>5. permit' = [p \in 1..issued' |-> IF p <= issued THEN permit[p] ELSE new]
  BY <1>1 DEF Issue
<1> HIDE DEF new
<1>6. \A p \in 1..issued : p \in 1..issued' /\ permit'[p] = permit[p]
  BY <1>1, <1>2, <1>5
<1>7. \A p \in 1..issued' : (p \in 1..issued) \/ (p = issued' /\ permit'[p] = new)
  BY <1>1, <1>2, <1>5
<1>8. permit' \in [1..issued' -> Permit]
  BY <1>3, <1>5, <1>6, <1>7 DEF Inv, PermitInv
<1>9. \A p \in 1..issued' : action'[permit'[p].action].status \in Begun
  <2>1. action[new.action].status \in Begun
    BY <1>1, <1>4 DEF CanIssue, Begun
  <2> QED
    BY <1>1, <1>6, <1>7, <2>1 DEF Inv, PermitInv
<1>10. \A p \in 1..issued :
         /\ permit[p].action = a
         /\ Hash[permit[p].gen] = Hash[peer.gen]
         /\ permit[p].awareness = peer.awareness
         => ~Unused(p)
  BY <1>1 DEF Reusable
<1>11. \A p \in 1..issued : Unused(p)' = Unused(p)
  BY <1>6 DEF Unused
<1>12. OneIdentity'
  <2> SUFFICES ASSUME NEW p \in 1..issued', NEW q \in 1..issued', p # q,
                      permit'[p].action = permit'[q].action,
                      Hash[permit'[p].gen] = Hash[permit'[q].gen],
                      permit'[p].awareness = permit'[q].awareness,
                      Unused(p)', Unused(q)'
               PROVE  FALSE
    BY DEF OneIdentity
  <2>1. CASE p \in 1..issued /\ q \in 1..issued
    BY <1>6, <1>11, <2>1 DEF Inv, PermitInv, OneIdentity
  <2>2. CASE p \in 1..issued /\ q \notin 1..issued
    BY <1>4, <1>6, <1>7, <1>10, <1>11, <2>2
  <2>3. CASE p \notin 1..issued /\ q \in 1..issued
    BY <1>4, <1>6, <1>7, <1>10, <1>11, <2>3
  <2> QED
    BY <1>7, <2>1, <2>2, <2>3
<1>13. PermitInv'
  BY <1>2, <1>8, <1>9, <1>12 DEF PermitInv
<1>14. CallInv'
  BY <1>1, <1>6 DEF Inv, CallInv
<1> QED
  BY <1>13, <1>14

(* A step that only adds receipts to a permit, or lets one expire, keeps    *)
(* the identities apart and the doomed calls doomed.                        *)
LEMMA PermitsWear ==
  ASSUME Inv, UNCHANGED <<action, issued>>, NEW p \in 1..issued, NEW r \in Permit,
         permit' = [permit EXCEPT ![p] = r],
         r.action = permit[p].action, r.gen = permit[p].gen,
         r.awareness = permit[p].awareness,
         permit[p].receipts \subseteq r.receipts, r.live => permit[p].live
  PROVE  /\ PermitInv'
         /\ \A q \in 1..issued : "CONSUMED" \in permit[q].receipts =>
                                 "CONSUMED" \in permit'[q].receipts
         /\ \A q \in 1..issued : permit'[q].action = permit[q].action
<1>1. \A q \in 1..issued : permit'[q] = IF q = p THEN r ELSE permit[q]
  BY DEF Inv, PermitInv
<1>2. \A q \in 1..issued : /\ permit'[q].action = permit[q].action
                           /\ permit'[q].gen = permit[q].gen
                           /\ permit'[q].awareness = permit[q].awareness
                           /\ permit[q].receipts \subseteq permit'[q].receipts
                           /\ permit'[q].live => permit[q].live
  BY <1>1
<1>3. \A q \in 1..issued : Unused(q)' => Unused(q)
  BY <1>2 DEF Unused
<1>4. OneIdentity'
  BY <1>2, <1>3 DEF Inv, PermitInv, OneIdentity
<1>5. permit' \in [1..issued' -> Permit]
  BY DEF Inv, PermitInv
<1>6. PermitInv'
  BY <1>2, <1>4, <1>5 DEF Inv, PermitInv
<1> QED
  BY <1>2, <1>6

(* Ending a call, or letting one that is not doomed go on, keeps CallInv.   *)
LEMMA CallsGoOn ==
  ASSUME Inv, UNCHANGED <<action, issued>>, NEW w \in Adapters, call[w] # NONE,
         \/ call' = [call EXCEPT ![w] = NONE]
         \/ /\ ~call[w].doomed
            /\ \E s \in {"action", "gate", "frontier"} : call' = [call EXCEPT ![w].pc = s],
         \A q \in 1..issued : "CONSUMED" \in permit[q].receipts =>
                               "CONSUMED" \in permit'[q].receipts,
         \A q \in 1..issued : permit'[q].action = permit[q].action
  PROVE  CallInv'
<1>1. call[w] \in Call
  BY DEF Inv, CallInv
<1>2. PICK c \in Call \cup {NONE} :
        /\ call' = [call EXCEPT ![w] = c]
        /\ c # NONE => c.permit = call[w].permit /\ ~c.doomed
  <2>1. CASE call' = [call EXCEPT ![w] = NONE]
    BY <2>1
  <2>2. CASE ~call[w].doomed /\ \E s \in {"action", "gate", "frontier"} :
                                  call' = [call EXCEPT ![w].pc = s]
    <3>1. PICK s \in {"action", "gate", "frontier"} : call' = [call EXCEPT ![w].pc = s]
      BY <2>2
    <3>2. [call[w] EXCEPT !.pc = s] \in Call
      BY <1>1 DEF Call
    <3>3. call' = [call EXCEPT ![w] = [call[w] EXCEPT !.pc = s]]
      BY <3>1 DEF Inv, CallInv
    <3>4. /\ [call[w] EXCEPT !.pc = s].permit = call[w].permit
          /\ [call[w] EXCEPT !.pc = s].doomed = call[w].doomed
      BY <1>1 DEF Call
    <3> QED
      BY <2>2, <3>2, <3>3, <3>4
  <2> QED
    BY <2>1, <2>2
<1>3. \A v \in Adapters : call'[v] = IF v = w THEN c ELSE call[v]
  BY <1>2 DEF Inv, CallInv
<1>4. call' \in [Adapters -> Call \cup {NONE}]
  BY <1>2 DEF Inv, CallInv
<1>5. \A v \in Adapters : call'[v] # NONE => call'[v].permit \in 1..issued'
  BY <1>2, <1>3 DEF Inv, CallInv
<1>6. ASSUME NEW v \in Adapters, call'[v] # NONE, call'[v].doomed
      PROVE  /\ call'[v].pc = "begun"
             /\ \/ ~call'[v].live
                \/ "CONSUMED" \in permit'[call'[v].permit].receipts
                \/ action'[permit'[call'[v].permit].action].status # "executing"
  <2>1. v # w /\ call'[v] = call[v] /\ call[v].permit \in 1..issued
    BY <1>2, <1>3, <1>6 DEF Inv, CallInv
  <2> QED
    BY <1>6, <2>1 DEF Inv, CallInv
<1> QED
  BY <1>4, <1>5, <1>6 DEF CallInv

LEMMA BeginStep ==
  ASSUME Inv, NEW w \in Adapters, NEW p \in 1..issued, NEW consume \in BOOLEAN,
         BeginCall(w, p, consume)
  PROVE  CallInv'
<1>1. permit[p].live \in BOOLEAN /\ peer.current \in BOOLEAN /\ Doomed(p) \in BOOLEAN
  BY DEF Inv, PermitInv, Permit, OtherInv, Peer, Doomed, Unused
<1> DEFINE c == [pc |-> "begun", permit |-> p, consume |-> consume, live |-> permit[p].live,
                 current |-> peer.current, doomed |-> Doomed(p)]
<1>2. c \in Call
  <2>1. p \in Nat
    BY DEF Inv, PermitInv
  <2> QED
    BY <1>1, <2>1 DEF Call
<1>3. call' = [call EXCEPT ![w] = c] /\ UNCHANGED <<action, permit, issued>>
  BY DEF BeginCall
<1>4. /\ c.permit = p /\ c.pc = "begun" /\ c.live = permit[p].live
      /\ c.doomed => Doomed(p)
  OBVIOUS
<1> HIDE DEF c
<1>5. \A v \in Adapters : call'[v] = IF v = w THEN c ELSE call[v]
  BY <1>3 DEF Inv, CallInv
<1>6. call' \in [Adapters -> Call \cup {NONE}]
  BY <1>2, <1>3 DEF Inv, CallInv
<1> QED
  BY <1>3, <1>4, <1>5, <1>6 DEF Inv, CallInv, Doomed, Unused

LEMMA CheckActionStep ==
  ASSUME Inv, NEW w \in Adapters, CheckAction(w)
  PROVE  PermitInv' /\ CallInv'
<1>1. call[w] # NONE /\ UNCHANGED <<action, issued>>
  BY DEF CheckAction
<1> DEFINE p == call[w].permit
           unspent == "CONSUMED" \notin permit[p].receipts
<1>2. p \in 1..issued /\ permit[p] \in Permit
  BY <1>1 DEF Inv, CallInv, PermitInv
<1>3. PICK r \in Permit :
        /\ permit' = [permit EXCEPT ![p] = r]
        /\ r.action = permit[p].action /\ r.gen = permit[p].gen
        /\ r.awareness = permit[p].awareness
        /\ permit[p].receipts \subseteq r.receipts
        /\ r.live = permit[p].live
  <2>1. CASE unspent /\ ~call[w].live
    <3>1. permit' = [permit EXCEPT ![p].receipts = @ \cup {"EXPIRED_REJECTED"}]
      BY <2>1 DEF CheckAction
    <3> DEFINE r == [permit[p] EXCEPT !.receipts = permit[p].receipts \cup {"EXPIRED_REJECTED"}]
    <3>2. permit' = [permit EXCEPT ![p] = r]
      BY <1>2, <3>1 DEF Inv, PermitInv
    <3>3. r \in Permit
      BY <1>2 DEF Permit
    <3>4. /\ r.action = permit[p].action /\ r.gen = permit[p].gen
          /\ r.awareness = permit[p].awareness /\ r.live = permit[p].live
          /\ permit[p].receipts \subseteq r.receipts
      BY <1>2 DEF Permit
    <3> QED
      BY <3>2, <3>3, <3>4
  <2>2. CASE ~(unspent /\ ~call[w].live)
    <3>1. permit' = permit
      BY <2>2 DEF CheckAction
    <3> QED
      BY <1>2, <3>1 DEF Inv, PermitInv
  <2> QED
    BY <2>1, <2>2
<1>4. /\ PermitInv'
      /\ \A q \in 1..issued : "CONSUMED" \in permit[q].receipts =>
                              "CONSUMED" \in permit'[q].receipts
      /\ \A q \in 1..issued : permit'[q].action = permit[q].action
  BY <1>1, <1>2, <1>3, PermitsWear
<1>5. \/ call' = [call EXCEPT ![w] = NONE]
      \/ ~call[w].doomed /\ call' = [call EXCEPT ![w].pc = "action"]
  <2>1. CASE unspent /\ call[w].live /\ StillExecuting(p)
    <3>1. ~call[w].doomed
      BY <1>1, <2>1 DEF Inv, CallInv, StillExecuting
    <3> QED
      BY <2>1, <3>1 DEF CheckAction
  <2>2. CASE ~(unspent /\ call[w].live /\ StillExecuting(p))
    BY <2>2 DEF CheckAction
  <2> QED
    BY <2>1, <2>2
<1>6. CallInv'
  BY <1>1, <1>4, <1>5, CallsGoOn
<1> QED
  BY <1>4, <1>6

LEMMA CheckAndAbortStep ==
  ASSUME Inv, NEW w \in Adapters, CheckGate(w) \/ CheckFrontier(w) \/ AbortCall(w)
  PROVE  PermitInv' /\ CallInv'
<1>1. call[w] # NONE /\ UNCHANGED <<action, actionReceipts, event, permit, issued>>
  BY DEF CheckGate, CheckFrontier, AbortCall
<1>2. \/ call' = [call EXCEPT ![w] = NONE]
      \/ /\ ~call[w].doomed
         /\ \E s \in {"action", "gate", "frontier"} : call' = [call EXCEPT ![w].pc = s]
  <2>1. call[w].pc # "begun" => ~call[w].doomed
    BY <1>1 DEF Inv, CallInv
  <2> QED
    BY <2>1 DEF CheckGate, CheckFrontier, AbortCall
<1>3. CallInv'
  BY <1>1, <1>2, CallsGoOn
<1>4. PermitInv'
  BY <1>1 DEF Inv, PermitInv, OneIdentity, Unused
<1> QED
  BY <1>3, <1>4

LEMMA CommitStep ==
  ASSUME Inv, NEW w \in Adapters, CommitCall(w)
  PROVE  PermitInv' /\ CallInv'
<1>1. call[w] # NONE /\ UNCHANGED <<action, issued>> /\ call' = [call EXCEPT ![w] = NONE]
  BY DEF CommitCall
<1> DEFINE p == call[w].permit
           more == {"VALIDATED"} \cup (IF call[w].consume THEN {"CONSUMED"} ELSE {})
           r == [permit[p] EXCEPT !.receipts = permit[p].receipts \cup more]
<1>2. p \in 1..issued /\ permit[p] \in Permit
  BY <1>1 DEF Inv, CallInv, PermitInv
<1>3. permit' = [permit EXCEPT ![p] = r]
  <2>1. permit' = [permit EXCEPT ![p].receipts = @ \cup more]
    BY DEF CommitCall
  <2> HIDE DEF more
  <2> QED
    BY <1>2, <2>1 DEF Inv, PermitInv
<1>4. more \subseteq {"ISSUED", "VALIDATED", "CONSUMED", "EXPIRED_REJECTED"}
  OBVIOUS
<1> HIDE DEF more
<1>5. /\ r \in Permit
      /\ r.action = permit[p].action /\ r.gen = permit[p].gen
      /\ r.awareness = permit[p].awareness /\ r.live = permit[p].live
      /\ permit[p].receipts \subseteq r.receipts
  BY <1>2, <1>4 DEF Permit
<1> HIDE DEF r
<1>6. /\ PermitInv'
      /\ \A q \in 1..issued : "CONSUMED" \in permit[q].receipts =>
                              "CONSUMED" \in permit'[q].receipts
      /\ \A q \in 1..issued : permit'[q].action = permit[q].action
  BY <1>1, <1>2, <1>3, <1>5, PermitsWear
<1>7. CallInv'
  BY <1>1, <1>6, CallsGoOn
<1> QED
  BY <1>6, <1>7

LEMMA ExpiryStep ==
  ASSUME Inv, NEW p \in 1..issued, PermitExpires(p)
  PROVE  PermitInv' /\ CallInv'
<1>1. permit[p] \in Permit /\ UNCHANGED <<action, issued, call>>
  BY DEF Inv, PermitInv, PermitExpires
<1> DEFINE r == [permit[p] EXCEPT !.live = FALSE]
<1>2. permit' = [permit EXCEPT ![p] = r]
  BY <1>1 DEF PermitExpires, Inv, PermitInv
<1>3. /\ r \in Permit
      /\ r.action = permit[p].action /\ r.gen = permit[p].gen
      /\ r.awareness = permit[p].awareness /\ r.live = FALSE
      /\ r.receipts = permit[p].receipts
  BY <1>1 DEF Permit
<1> HIDE DEF r
<1>4. /\ PermitInv'
      /\ \A q \in 1..issued : "CONSUMED" \in permit[q].receipts =>
                              "CONSUMED" \in permit'[q].receipts
      /\ \A q \in 1..issued : permit'[q].action = permit[q].action
  BY <1>1, <1>2, <1>3, PermitsWear
<1>5. CallInv'
  BY <1>1, <1>4 DEF Inv, CallInv
<1> QED
  BY <1>4, <1>5

-----------------------------------------------------------------------------

(* Nothing that is said of actions changes with their rows unchanged.       *)
LEMMA ActionsUnchanged ==
  ASSUME Inv, UNCHANGED <<action, actionReceipts, event>>
  PROVE  ActionInv' /\ StatusMoves
BY DEF Inv, ActionInv, NotYetStarted, NoRecentDuplicates, GuardIsForBinding,
       ReceiptsTellTheEnd, StatusMoves

LEMMA StepKeepsInv ==
  ASSUME Inv, Step, UNCHANGED scope
  PROVE  Inv'
<1> USE PermitAssumption
<1>1. ASSUME NEW a \in Actions,
             \/ BeginPrepare(a) \/ CommitPrepare(a) \/ AbortPrepare(a)
             \/ \E pa \in scope.plans \cup {NONE} : Bind(a, pa)
             \/ StartRefused(a) \/ StartBlocked(a) \/ Start(a)
             \/ \E outcome \in scope.outcomes : Finish(a, outcome)
             \/ LeavesWindow(a) \/ PacketExpires(a)
      PROVE  Inv'
  <2>1. ActionInv' /\ StatusMoves
    <3>1. ASSUME NEW outcome \in scope.outcomes, Finish(a, outcome)
          PROVE  ActionInv' /\ StatusMoves
      BY <3>1, FinishStep DEF Inv, OtherInv
    <3> QED
      BY <1>1, <3>1, PrepareStep, QuietStep, StartStep
  <2>2. UNCHANGED <<authorized, peer, permit, issued, call>>
    BY <1>1 DEF BeginPrepare, CommitPrepare, AbortPrepare, Bind, StartRefused, StartBlocked,
                Start, Finish, LeavesWindow, PacketExpires
  <2>3. PermitInv' /\ CallInv'
    BY <2>1, <2>2, ForwardKeepsPermits
  <2> QED
    BY <2>1, <2>2, <2>3 DEF Inv, OtherInv
<1>2. ASSUME NEW a \in Actions, Issue(a) PROVE Inv'
  <2>1. UNCHANGED <<action, actionReceipts, event, authorized, peer>>
    BY <1>2 DEF Issue
  <2> QED
    BY <1>2, <2>1, IssueStep, ActionsUnchanged DEF Inv, OtherInv
<1>3. ASSUME NEW w \in Adapters, NEW p \in 1..issued, NEW consume \in BOOLEAN,
             BeginCall(w, p, consume)
      PROVE  Inv'
  <2>1. UNCHANGED <<action, actionReceipts, event, authorized, peer, permit, issued>>
    BY <1>3 DEF BeginCall
  <2>2. CallInv'
    BY <1>3, BeginStep
  <2>3. PermitInv'
    BY <2>1 DEF Inv, PermitInv, OneIdentity, Unused
  <2> QED
    BY <2>1, <2>2, <2>3, ActionsUnchanged DEF Inv, OtherInv
<1>4. ASSUME NEW w \in Adapters,
             \/ CheckAction(w) \/ CheckGate(w) \/ CheckFrontier(w)
             \/ CommitCall(w) \/ AbortCall(w)
      PROVE  Inv'
  <2>1. UNCHANGED <<action, actionReceipts, event, authorized, peer>>
    BY <1>4 DEF CheckAction, CheckGate, CheckFrontier, CommitCall, AbortCall
  <2>2. PermitInv' /\ CallInv'
    BY <1>4, CheckActionStep, CheckAndAbortStep, CommitStep
  <2> QED
    BY <2>1, <2>2, ActionsUnchanged DEF Inv, OtherInv
<1>5. ASSUME NEW p \in 1..issued, PermitExpires(p) PROVE Inv'
  <2>1. UNCHANGED <<action, actionReceipts, event, authorized, peer>>
    BY <1>5 DEF PermitExpires
  <2> QED
    BY <1>5, <2>1, ExpiryStep, ActionsUnchanged DEF Inv, OtherInv
<1>6. ASSUME \/ \E g \in scope.gens : \E k \in {g, peer.awareness} : RecordPeerFrontier(g, k)
             \/ FrontierAges
             \/ \E pa \in scope.plans : OperatorDecides(pa)
      PROVE  Inv'
  <2>1. UNCHANGED <<action, actionReceipts, event, permit, issued, call>>
    BY <1>6 DEF RecordPeerFrontier, FrontierAges, OperatorDecides
  <2>2. ActionInv' /\ StatusMoves
    BY <2>1, ActionsUnchanged
  <2>3. PermitInv' /\ CallInv'
    BY <2>1, <2>2, ForwardKeepsPermits
  <2>4. OtherInv'
    <3>1. scope.gens \subseteq 1..MaxGen /\ scope.plans \subseteq PlanActions
      BY DEF Inv, OtherInv
    <3>2. ASSUME NEW g \in scope.gens, NEW k \in {g, peer.awareness}, RecordPeerFrontier(g, k)
          PROVE  OtherInv'
      BY <3>1, <3>2 DEF RecordPeerFrontier, Inv, OtherInv, Peer
    <3>3. CASE FrontierAges
      BY <3>3 DEF FrontierAges, Inv, OtherInv, Peer
    <3>4. ASSUME NEW pa \in scope.plans, OperatorDecides(pa)
          PROVE  OtherInv'
      BY <3>1, <3>4 DEF OperatorDecides, Inv, OtherInv
    <3> QED
      BY <1>6, <3>2, <3>3, <3>4
  <2> QED
    BY <2>2, <2>3, <2>4 DEF Inv
<1> QED
  BY <1>1, <1>2, <1>3, <1>4, <1>5, <1>6 DEF Step

(* The inductive invariant holds in every reachable state.                  *)
THEOREM InvariantHolds == PermitSpec => []Inv
<1>1. Inv /\ UNCHANGED permitVars => Inv'
  BY DEF permitVars, state, Inv, ActionInv, PermitInv, CallInv, OtherInv, NotYetStarted,
         NoRecentDuplicates, GuardIsForBinding, ReceiptsTellTheEnd, OneIdentity, Unused
<1>2. Inv /\ [PermitNext]_permitVars => Inv'
  BY <1>1, StepKeepsInv DEF PermitNext
<1> QED
  BY <1>2, InitInv, PTL DEF PermitSpec

(* Every variable has its type, whatever the bounds are.                    *)
THEOREM TypeCorrect == PermitSpec => []PermitTypeOK
<1>1. Inv => PermitTypeOK
  BY DEF Inv, ActionInv, PermitInv, CallInv, OtherInv, PermitTypeOK
<1> QED
  BY <1>1, InvariantHolds, PTL

(* No action ever has two permits that an adapter could use.                *)
THEOREM OnePermit == PermitSpec => []OneUsablePermit
<1>1. Inv => OneUsablePermit
  BY DEF Inv, PermitInv, OneIdentity, OneUsablePermit, Usable, FrontierMatches
<1> QED
  BY <1>1, InvariantHolds, PTL

(* Of racing messages to one recipient only one starts within the window.   *)
THEOREM NoDuplicateStart == PermitSpec => []NoRecentDuplicates
<1>1. Inv => NoRecentDuplicates
  BY DEF Inv, ActionInv
<1> QED
  BY <1>1, InvariantHolds, PTL

(* An armed guard is for the plan row the action is bound to.               *)
THEOREM GuardHolds == PermitSpec => []GuardIsForBinding
<1>1. Inv => GuardIsForBinding
  BY DEF Inv, ActionInv
<1> QED
  BY <1>1, InvariantHolds, PTL

(* A call that came too late never gets past its first check.               *)
THEOREM LateCallsRefused == PermitSpec => []DoomedIsRefused
<1>1. Inv => DoomedIsRefused
  BY DEF Inv, CallInv, DoomedIsRefused
<1> QED
  BY <1>1, InvariantHolds, PTL

(* The receipts and the timeline tell how every action ended.               *)
THEOREM EndIsRecorded == PermitSpec => []ReceiptsTellTheEnd
<1>1. Inv => ReceiptsTellTheEnd
  BY DEF Inv, ActionInv
<1> QED
  BY <1>1, InvariantHolds, PTL
=============================================================================
