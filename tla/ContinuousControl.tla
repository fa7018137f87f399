------------------------- MODULE ContinuousControl -------------------------
(***************************************************************************)
(* The durable event, work and receipt store of the continuous control     *)
(* plane (src/src/continuous_control_plane.py): append-only JSONL files    *)
(* under one file lock, shared by sessions that each keep a copy in        *)
(* memory.  A session drains local work, or claims external work for a     *)
(* host; an operator moves what nobody holds; a scheduler hook sweeps      *)
(* what its memory says is due.                                            *)
(*                                                                         *)
(* Every method that takes the lock first reads the files again, so it is  *)
(* one action on the rows; what a session does between two methods         *)
(* interleaves, and it may die at any point, also inside an append.        *)
(* A line cut just before its end is taken as not written.                 *)
(* Left open: which of several claimable items is the first by deadline    *)
(* and priority, and what the executor, the operator and the host's        *)
(* authorization checker decide.                                           *)
(***************************************************************************)
EXTENDS Naturals, FiniteSets

CONSTANTS Work,          \* work items, one for each route of an event
          External,      \* those that act on an outside provider
          Sessions,      \* processes that claim work
          Events,
          Routes,        \* the items each event is routed to
          Kinds,         \* receipt kinds
          Required,      \* the kinds an item needs for completion
          MaxAttempts,   \* the legacy attempt budget
          Scopes,        \* bounds, one chosen at the start: the events offered,
                         \* deaths, sweeps, and what operators do
          Nobody

ASSUME ControlAssumption ==
    /\ External \subseteq Work
    /\ Routes \in [Events -> SUBSET Work]
    /\ Required \in [Work -> SUBSET Kinds]
    /\ MaxAttempts \in Nat \ {0}
    /\ Scopes \subseteq [offered: SUBSET Events, deaths: Nat, sweeps: Nat, moves: Nat]
    /\ Nobody \notin Sessions \cup Work

VARIABLES item,     \* the last row of each item in work.jsonl
          ledger,   \* the successful receipts of receipts.jsonl
          event,    \* recorded in events.jsonl, and answered
          store,    \* which files end in a torn line; whether one is corrupt
          session,  \* what each session is doing
          recall,   \* a row in the sweeping process's memory
          past,     \* history: what happened to an item
          scope     \* what is left of the bounds

controlVars == <<item, ledger, event, store, session, recall, past, scope>>

Leased == {"DISPATCHED", "EXECUTING"}
Claimable == {"RECEIVED", "HYDRATING", "COMPILED"}
States == Leased \cup Claimable \cup
          {"WAITING", "RECONCILING", "CHANGESET_READY", "MUTATING", "READBACK",
           "VERIFYING", "COMPLETE", "BLOCKED", "DEAD_LETTER"}
Files == {"events", "work", "receipts"}

AllowedTransitions ==
    [RECEIVED |-> {"HYDRATING", "DISPATCHED", "BLOCKED"},
     HYDRATING |-> {"COMPILED", "DISPATCHED", "BLOCKED"},
     COMPILED |-> {"DISPATCHED", "BLOCKED"},
     DISPATCHED |-> {"RECEIVED", "EXECUTING", "WAITING", "RECONCILING", "BLOCKED", "DEAD_LETTER"},
     EXECUTING |-> {"RECEIVED", "RECONCILING", "WAITING", "BLOCKED", "DEAD_LETTER"},
     WAITING |-> {"RECEIVED", "RECONCILING", "BLOCKED"},
     RECONCILING |-> {"CHANGESET_READY", "WAITING", "BLOCKED", "DEAD_LETTER"},
     CHANGESET_READY |-> {"MUTATING", "VERIFYING", "BLOCKED"},
     MUTATING |-> {"READBACK", "BLOCKED", "DEAD_LETTER"},
     READBACK |-> {"VERIFYING", "WAITING", "BLOCKED", "DEAD_LETTER"},
     VERIFYING |-> {"COMPLETE", "WAITING", "BLOCKED", "DEAD_LETTER"},
     BLOCKED |-> {"RECEIVED", "RECONCILING", "DEAD_LETTER"},
     DEAD_LETTER |-> {"RECEIVED", "RECONCILING"},
     COMPLETE |-> {}]

Item == [state: States \cup {"absent"}, owner: Sessions \cup {Nobody},
         lease: {"none", "live", "lapsed"}, wake: {"none", "later", "due"},
         attempt: 0..MaxAttempts]
Receipt == [work: Work, kind: Kinds]
Resting == [at |-> "idle", work |-> Nobody, spent |-> FALSE, kinds |-> {},
            good |-> FALSE, left |-> {}, seen |-> {}]

ControlTypeOK ==
    /\ item \in [Work -> Item]
    /\ ledger \subseteq Receipt
    /\ event \in [recorded: SUBSET Events, acked: SUBSET Events]
    /\ store \in [torn: SUBSET Files, corrupt: BOOLEAN]
    /\ session \in [Sessions ->
         [at: {"idle", "claim", "begin", "run", "record", "settle", "doubt", "report",
               "ready", "verify", "complete"},
          work: Work \cup {Nobody}, spent: BOOLEAN, kinds: SUBSET Kinds,
          good: BOOLEAN, left: SUBSET Kinds, seen: SUBSET Work]]
    /\ recall \in [of: Work \cup {Nobody}, row: Item \cup {Nobody}]
    /\ past \in [open: SUBSET Work, replayed: SUBSET Work, lapsed: SUBSET Work,
                 swept: SUBSET Work]
    /\ scope \in [offered: SUBSET Events, deaths: Nat, sweeps: Nat, moves: Nat]

NewItem == [state |-> "absent", owner |-> Nobody, lease |-> "none", wake |-> "none",
            attempt |-> 0]
Forgotten == [of |-> Nobody, row |-> Nobody]

ControlInit ==
    /\ item = [i \in Work |-> NewItem]
    /\ ledger = {}
    /\ event = [recorded |-> {}, acked |-> {}]
    /\ store = [torn |-> {}, corrupt |-> FALSE]
    /\ session = [s \in Sessions |-> Resting]
    /\ recall = Forgotten
    /\ past = [open |-> {}, replayed |-> {}, lapsed |-> {}, swept |-> {}]
    /\ scope \in Scopes

-----------------------------------------------------------------------------
(* Rows.                                                                   *)

\* Every transaction reads all files first and raises if a line is corrupt.
Readable == ~store.corrupt

Spend(what) == scope[what] > 0 /\ scope' = [scope EXCEPT ![what] = @ - 1]

\* A line appended after a torn one joins it, and neither can be read again.
Appended(file) ==
    store' = [store EXCEPT !.corrupt = @ \/ file \in store.torn]

Moved(r, target, wake) ==
    [r EXCEPT !.state = target,
              !.wake = IF target = "WAITING" THEN wake ELSE @,
              !.owner = IF target \in Leased THEN @ ELSE Nobody,
              !.lease = IF target \in Leased THEN @ ELSE "none"]

Evidenced(i) == \A k \in Required[i] : [work |-> i, kind |-> k] \in ledger

CanMove(i, target) ==
    /\ item[i].state # "absent"
    /\ target \in AllowedTransitions[item[i].state]
    /\ target = "COMPLETE" => Evidenced(i)

Transition(i, target, wake) ==
    /\ Readable /\ CanMove(i, target)
    /\ item' = [item EXCEPT ![i] = Moved(@, target, wake)]
    /\ Appended("work")

-----------------------------------------------------------------------------
(* Events: ingest_event records the event if it is new and submits the     *)
(* routed work that does not exist yet, whether or not it is new.          *)

Submitted(S) ==
    [i \in Work |-> IF i \in S /\ item[i].state = "absent"
                    THEN [item[i] EXCEPT !.state = "RECEIVED"] ELSE item[i]]

Routed(e) == Routes[e]

NewEvent(e) == IF e \in event.recorded THEN {} ELSE {"events"}
NewWork(S) == IF \E i \in S : item[i].state = "absent" THEN {"work"} ELSE {}

Ingest(e) ==
    /\ Readable /\ e \in scope.offered
    /\ item' = Submitted(Routed(e))
    /\ event' = [event EXCEPT !.recorded = @ \cup {e}, !.acked = @ \cup {e}]
    /\ store' = [store EXCEPT !.corrupt =
         (NewEvent(e) \cup NewWork(Routed(e))) \cap store.torn # {}]
    /\ UNCHANGED <<ledger, session, recall, past, scope>>

\* The process dies inside the append of the event, or when it has submitted
\* the items of S: after an append or inside the next.
IngestDies(e, S, half) ==
    /\ Readable /\ Spend("deaths")
    /\ e \in scope.offered /\ S \subseteq Routed(e)
    /\ \/ /\ half = NewEvent(e) /\ half # {} /\ S = {}
          /\ store' = [store EXCEPT !.torn = @ \cup half]
          /\ UNCHANGED <<item, event>>
       \/ /\ half \subseteq NewWork(Routed(e) \ S)
          /\ store' = [torn |-> store.torn \cup half,
                       corrupt |-> (NewEvent(e) \cup NewWork(S)) \cap store.torn # {}]
          /\ item' = Submitted(S)
          /\ event' = [event EXCEPT !.recorded = @ \cup {e}]
    /\ UNCHANGED <<ledger, session, recall, past>>

-----------------------------------------------------------------------------
(* claim_next: expired leases are taken back and due items awakened inside *)
(* the claim, then one claimable item is dispatched.                       *)

Recovered(i) ==
    LET r == item[i] IN
    IF r.state \in Leased /\ r.lease = "lapsed"
    THEN Moved(r, IF i \in External THEN "RECONCILING" ELSE "RECEIVED", "none")
    ELSE IF r.state = "WAITING" /\ r.wake = "due"
    THEN [Moved(r, "RECEIVED", "none") EXCEPT !.wake = "none"]
    ELSE r

Swept == [i \in Work |-> Recovered(i)]

\* Mutant of Candidates: dispatched items, under whatever lease.
CandidatesLeased(pool, seen) ==
    {i \in pool \ seen : Swept[i].state \in Claimable \cup {"DISPATCHED"} /\ Swept[i].wake # "later"}

Candidates(pool, seen) ==
    {i \in pool \ seen : Swept[i].state \in Claimable /\ Swept[i].wake # "later"}

\* Between two items of a drain a session keeps only what it has tried.
Go(s, at) ==
    session' = [session EXCEPT ![s] =
        IF at = "claim" THEN [Resting EXCEPT !.at = "claim", !.seen = session[s].seen]
        ELSE [@ EXCEPT !.at = at]]
Rests(s) == session' = [session EXCEPT ![s] = Resting]

Claimed(r, s) ==
    [r EXCEPT !.state = "DISPATCHED", !.owner = s, !.lease = "live",
              !.attempt = IF @ < MaxAttempts THEN @ + 1 ELSE @]

Claim(s, i, pool) ==
    /\ Readable
    /\ i \in Candidates(pool, session[s].seen)
    /\ item' = [Swept EXCEPT ![i] = Claimed(@, s)]
    /\ session' = [session EXCEPT ![s] =
         [Resting EXCEPT !.at = "begin", !.work = i, !.seen = session[s].seen \cup {i},
                         !.spent = item'[i].attempt >= MaxAttempts]]
    /\ past' = [past EXCEPT !.replayed = @ \cup ({i} \cap past.open)]
    /\ Appended("work")
    /\ UNCHANGED <<ledger, event, recall, scope>>

\* drain_local: an idle session begins a drain, one between two items goes on
\* with it.
ClaimLocal(s) ==
    /\ session[s].at \in {"idle", "claim"}
    /\ \E i \in Work \ External : Claim(s, i, Work \ External)

\* A host claims one external item.
ClaimExternal(s) ==
    /\ session[s].at = "idle"
    /\ \E i \in External : Claim(s, i, External)

ClaimNothing(s) ==
    /\ session[s].at \in {"idle", "claim"} /\ Readable
    /\ Candidates(Work \ External, session[s].seen) = {}
    /\ item' = Swept
    /\ Rests(s)
    /\ IF Swept = item THEN UNCHANGED store ELSE Appended("work")
    /\ UNCHANGED <<ledger, event, recall, past, scope>>

-----------------------------------------------------------------------------
(* execute_next_local: each step is a transaction of its own.              *)

\* The state a session asks for at each point, and where it goes next.
Wanted(s) ==
    LET at == session[s].at IN
    CASE at = "begin" -> [to |-> "EXECUTING", next |-> "run"]
      [] at = "doubt" -> [to |-> "RECONCILING", next |-> "claim"]
      [] at = "settle" ->
           IF session[s].good THEN [to |-> "RECONCILING", next |-> "ready"]
           ELSE [to |-> IF session[s].spent THEN "WAITING" ELSE "RECEIVED", next |-> "claim"]
      [] at = "ready" -> [to |-> "CHANGESET_READY", next |-> "verify"]
      [] at = "verify" ->
           [to |-> "VERIFYING",
            next |-> IF Required[session[s].work] \subseteq session[s].kinds
                     THEN "complete" ELSE "claim"]
      [] OTHER -> [to |-> "COMPLETE", next |-> "claim"]

Moving == {"begin", "doubt", "settle", "ready", "verify", "complete"}

Move(s) ==
    /\ session[s].at \in Moving
    /\ Transition(session[s].work, Wanted(s).to, "later")
    /\ Go(s, Wanted(s).next)
    /\ past' = IF session[s].at = "begin" /\ session[s].work \in External
               THEN [past EXCEPT !.open = @ \cup {session[s].work}] ELSE past
    /\ UNCHANGED <<ledger, event, recall, scope>>

\* The move is not allowed any more, or the files cannot be read: the method
\* raises, which ends the drain.
Raise(s) ==
    /\ session[s].at # "idle"
    /\ \/ ~Readable
       \/ session[s].at \in Moving /\ ~CanMove(session[s].work, Wanted(s).to)
    /\ Rests(s)
    /\ UNCHANGED <<item, ledger, event, store, recall, past, scope>>

\* The executor returns receipts, or raises, or returns what is no receipt of
\* this item.
Run(s) ==
    /\ session[s].at = "run" /\ session[s].work \notin External
    /\ \/ Go(s, "doubt")
       \/ \E K \in SUBSET Kinds \ {{}}, good \in BOOLEAN :
            session' = [session EXCEPT ![s] =
                [@ EXCEPT !.at = "record", !.kinds = K, !.good = good, !.left = K]]
    /\ UNCHANGED <<item, ledger, event, store, recall, past, scope>>

\* A receipt whose provider's identifier some row has already is not recorded.
RecordReceipt(s) ==
    /\ session[s].at = "record" /\ Readable
    /\ \E k \in session[s].left :
         /\ \/ /\ ledger' = ledger \cup
                   (IF session[s].good THEN {[work |-> session[s].work, kind |-> k]} ELSE {})
               /\ Appended("receipts")
            \/ ledger # {} /\ UNCHANGED <<ledger, store>>
         /\ session' = [session EXCEPT ![s].left = @ \ {k},
              ![s].at = IF session[s].left = {k} THEN "settle" ELSE "record"]
    /\ UNCHANGED <<item, event, recall, past, scope>>

\* A host that ran an external item says what became of it; the transition
\* is refused if the row has moved on.
Report(s, target) ==
    LET i == session[s].work IN
    /\ session[s].at = "run" /\ i \in External /\ Readable
    /\ target \in AllowedTransitions.EXECUTING
    /\ \/ Transition(i, target, "later")
       \/ ~CanMove(i, target) /\ UNCHANGED <<item, store>>
    /\ Rests(s)
    /\ past' = [past EXCEPT !.open = @ \ {i}]
    /\ UNCHANGED <<ledger, event, recall, scope>>

\* The file a session appends to next.
NextFile(s) ==
    IF session[s].at = "record" THEN {"receipts"}
    ELSE IF session[s].at \in Moving \/ session[s].work \in External THEN {"work"}
    ELSE {}

\* A session dies, possibly inside that append.
Die(s, half) ==
    /\ session[s].at # "idle" /\ Spend("deaths")
    /\ half \subseteq NextFile(s)
    /\ Rests(s)
    /\ store' = [store EXCEPT !.torn = @ \cup half]
    /\ UNCHANGED <<item, ledger, event, recall, past>>

\* A session dies inside claim_next: the rows of S were recovered.
DieClaiming(s, S, half) ==
    LET stale == {i \in Work : Recovered(i) # item[i]} IN
    /\ session[s].at \in {"idle", "claim"} /\ Readable /\ Spend("deaths")
    /\ S \subseteq stale /\ half \subseteq {"work"}
    /\ half # {} => S # stale \/ Candidates(Work, session[s].seen) # {}
    /\ item' = [i \in Work |-> IF i \in S THEN Recovered(i) ELSE item[i]]
    /\ store' = [torn |-> store.torn \cup half, corrupt |-> S # {} /\ "work" \in store.torn]
    /\ Rests(s)
    /\ UNCHANGED <<ledger, event, recall, past>>

-----------------------------------------------------------------------------
(* Others: time, an operator who moves what nobody holds, and the sweeps   *)
(* reawaken_due and reconcile_expired_leases, which choose items from      *)
(* memory and then change the rows of the files.                           *)

LeaseLapses(i) ==
    /\ item[i].lease = "live"
    /\ item' = [item EXCEPT ![i].lease = "lapsed"]
    /\ past' = [past EXCEPT !.lapsed = @ \cup {i}]
    /\ UNCHANGED <<ledger, event, store, session, recall, scope>>

WakeIsDue(i) ==
    /\ item[i].wake = "later"
    /\ item' = [item EXCEPT ![i].wake = "due"]
    /\ UNCHANGED <<ledger, event, store, session, recall, past, scope>>

Operate(i, target) ==
    /\ Spend("moves")
    /\ item[i].owner = Nobody
    /\ Transition(i, target, "later")
    /\ past' = IF item[i].state \in Claimable THEN past
               ELSE [past EXCEPT !.open = @ \ {i}]
    /\ UNCHANGED <<ledger, event, session, recall>>

OperatorRecords(i, k) ==
    /\ Spend("moves")
    /\ Readable /\ item[i].state \notin {"absent", "COMPLETE"}
    /\ [work |-> i, kind |-> k] \notin ledger
    /\ ledger' = ledger \cup {[work |-> i, kind |-> k]}
    /\ Appended("receipts")
    /\ UNCHANGED <<item, event, session, recall, past>>

Recall(i) ==
    /\ Spend("sweeps")
    /\ Readable /\ recall = Forgotten
    /\ item[i].state \in Leased \cup {"WAITING"}
    /\ recall' = [of |-> i, row |-> item[i]]
    /\ UNCHANGED <<item, ledger, event, store, session, past>>

\* The remembered deadline has passed: it has if the row has changed since,
\* for the row also changes when the deadline passes.
RememberedDue ==
    LET r == recall.row IN
    \/ r.state = "WAITING" /\ r.wake # "none" /\ (r.wake = "due" \/ item[recall.of] # r)
    \/ r.state \in Leased /\ r.lease # "none" /\ (r.lease = "lapsed" \/ item[recall.of] # r)

SweepTarget ==
    IF recall.row.state \in Leased /\ recall.of \in External THEN "RECONCILING" ELSE "RECEIVED"

Sweep ==
    LET i == recall.of IN
    /\ recall # Forgotten /\ Readable
    /\ RememberedDue
    /\ recall' = Forgotten
    /\ IF CanMove(i, SweepTarget)
       THEN /\ item' = [item EXCEPT ![i] = Moved(@, SweepTarget, "none")]
            /\ Appended("work")
            /\ past' = [past EXCEPT
                 !.swept = IF item[i] # recall.row THEN @ \cup {i} ELSE @,
                 !.open = IF SweepTarget = "RECONCILING" THEN @ \ {i} ELSE @]
       ELSE UNCHANGED <<item, store, past>>
    /\ UNCHANGED <<ledger, event, session, scope>>

Forget ==
    /\ recall # Forgotten /\ recall' = Forgotten
    /\ UNCHANGED <<item, ledger, event, store, session, past, scope>>

-----------------------------------------------------------------------------
SessionStep(s) ==
    \/ ClaimLocal(s) \/ ClaimExternal(s) \/ ClaimNothing(s)
    \/ Move(s) \/ Raise(s) \/ Run(s) \/ RecordReceipt(s)
    \/ \E target \in States : Report(s, target)
    \/ \E half \in SUBSET Files :
         Die(s, half) \/ \E S \in SUBSET Work : DieClaiming(s, S, half)

ControlNext ==
    \/ \E s \in Sessions : SessionStep(s)
    \/ \E e \in Events :
         \/ Ingest(e)
         \/ \E S \in SUBSET Routes[e], half \in SUBSET Files : IngestDies(e, S, half)
    \/ \E i \in Work :
         \/ LeaseLapses(i) \/ WakeIsDue(i) \/ Recall(i)
         \/ \E target \in States : Operate(i, target)
         \/ \E k \in Kinds : OperatorRecords(i, k)
    \/ Sweep \/ Forget

ControlSpec == ControlInit /\ [][ControlNext]_controlVars

-----------------------------------------------------------------------------
(* Properties.                                                             *)

Holding(s) == session[s].at \in {"begin", "run", "record", "settle", "doubt"}

\* An item is in the hands of one session at a time, from claim_next to the
\* transition that gives it back, unless one of its leases expired under a
\* holder or a sweep acted on a row that had changed.
OneRunner ==
    \A s, t \in Sessions :
        Holding(s) /\ Holding(t) /\ session[s].work = session[t].work /\ s # t
            => session[s].work \in past.lapsed \cup past.swept

\* docs/CONTINUOUS_CONTROL_PLANE.md:55: External-action work never
\* blind-retries after an uncertain attempt.
ExternalNotReplayed == past.replayed = {}
=============================================================================
