--------------------------- MODULE GithubWebhook ---------------------------
(***************************************************************************)
(* The webhook plane: apex-github-webhook receives deliveries GitHub may   *)
(* send again, an insert trigger queues one event for each, and overlapping*)
(* invocations of apex-github-webhook-worker claim events and refresh what *)
(* they name through the router.                                           *)
(*                                                                         *)
(* A worker's calls only read from GitHub, so a call and the insert of its *)
(* result are one step; what an invocation leaves behind when it throws or *)
(* is killed between steps is kept.                                        *)
(***************************************************************************)
EXTENDS Naturals, FiniteSets

CONSTANTS
  Deliveries,   \* delivery_id
  Receivers,    \* invocations of the receiver that may overlap
  Workers,      \* invocations of the worker that may overlap
  Operations,   \* the number of operations each event asks for
  Limit,        \* events claimed at once
  MaxAttempts,  \* attempts after which a failure is final
  MaxFaults,    \* bound: failures of the database and deaths
  NoDelivery

ASSUME WebhookAssumption ==
  /\ Operations \in [Deliveries -> Nat]
  /\ Limit \in Nat \ {0}
  /\ MaxAttempts \in Nat \ {0}
  /\ MaxFaults \in Nat
  /\ NoDelivery \notin Deliveries

VARIABLES
  receiver,   \* the delivery each receiver has found to be new
  acked,      \* deliveries answered with 202
  delivery,   \* processing_status of github_webhook_deliveries_v1
  queue,      \* github_webhook_event_queue_v1
  results,    \* github_webhook_event_results_v1
  worker,     \* where each worker is, and the events it has claimed
  faults

vars == <<receiver, acked, delivery, queue, results, worker, faults>>

Terminal == {"completed", "failed", "ignored"}
Result == [of : Deliveries, attempt : Nat, op : Nat, ok : BOOLEAN]
Event == [status : {"absent", "pending", "processing"} \cup Terminal,
          attempts : 0..MaxAttempts, due : BOOLEAN]
Worker == [at : {"idle", "next", "call", "finish"}, hand : SUBSET Deliveries,
           event : Deliveries \cup {NoDelivery}, op : Nat, verdict : {"none", "pending"} \cup Terminal]

Idle == [at |-> "idle", hand |-> {}, event |-> NoDelivery, op |-> 0, verdict |-> "none"]

TypeOK ==
  /\ receiver \in [Receivers -> Deliveries \cup {NoDelivery}]
  /\ acked \subseteq Deliveries
  /\ delivery \in [Deliveries -> {"absent", "accepted", "processed", "failed", "ignored"}]
  /\ queue \in [Deliveries -> Event]
  /\ results \subseteq Result
  /\ worker \in [Workers -> Worker]
  /\ faults \in 0..MaxFaults

Init ==
  /\ receiver = [i \in Receivers |-> NoDelivery]
  /\ acked = {}
  /\ delivery = [d \in Deliveries |-> "absent"]
  /\ queue = [d \in Deliveries |-> [status |-> "absent", attempts |-> 0, due |-> FALSE]]
  /\ results = {}
  /\ worker = [w \in Workers |-> Idle]
  /\ faults = 0

Fault == faults < MaxFaults /\ faults' = faults + 1

-----------------------------------------------------------------------------
(* The receiver.                                                           *)

\* A delivery already stored is answered at once.
Duplicate(d) ==
  /\ delivery[d] # "absent"
  /\ acked' = acked \cup {d}
  /\ UNCHANGED <<receiver, delivery, queue, results, worker, faults>>

\* A new one, or one whose lookup fails, has its signature, JSON and owner
\* checked, and goes on if they are right.
Receive(i, d) ==
  /\ receiver[i] = NoDelivery
  /\ \/ delivery[d] = "absent" /\ UNCHANGED faults
     \/ Fault
  /\ receiver' = [receiver EXCEPT ![i] = d]
  /\ UNCHANGED <<acked, delivery, queue, results, worker>>

\* The insert, and the trigger that queues the event in its transaction.
Enqueued(d) ==
  /\ delivery' = [delivery EXCEPT ![d] = "accepted"]
  /\ queue' = [queue EXCEPT ![d] = IF @.status = "absent"
                                   THEN [status |-> "pending", attempts |-> 0, due |-> TRUE]
                                   ELSE @]

\* Mutant of Insert: an insert that fails is answered with 202.
InsertIgnoringErrors(i) ==
  /\ receiver[i] # NoDelivery
  /\ \/ delivery[receiver[i]] = "absent" /\ Enqueued(receiver[i])
     \/ UNCHANGED <<delivery, queue>>
  /\ acked' = acked \cup {receiver[i]}
  /\ receiver' = [receiver EXCEPT ![i] = NoDelivery]
  /\ UNCHANGED <<results, worker, faults>>

\* The loser of two overlapping inserts is answered with 500.
Insert(i) ==
  /\ receiver[i] # NoDelivery
  /\ \/ /\ delivery[receiver[i]] = "absent"
        /\ Enqueued(receiver[i])
        /\ acked' = acked \cup {receiver[i]}
     \/ /\ delivery[receiver[i]] # "absent"
        /\ UNCHANGED <<acked, delivery, queue>>
  /\ receiver' = [receiver EXCEPT ![i] = NoDelivery]
  /\ UNCHANGED <<results, worker, faults>>

\* The insert fails, or its response is lost.
InsertFails(i) ==
  /\ receiver[i] # NoDelivery
  /\ Fault
  /\ \/ delivery[receiver[i]] = "absent" /\ Enqueued(receiver[i])
     \/ UNCHANGED <<delivery, queue>>
  /\ receiver' = [receiver EXCEPT ![i] = NoDelivery]
  /\ UNCHANGED <<acked, results, worker>>

-----------------------------------------------------------------------------
(* The queue.                                                              *)

\* Mutant of Candidates: an event is tried once.
CandidatesOnce == {d \in Deliveries : queue[d].status = "pending" /\ queue[d].due /\ queue[d].attempts = 0}

Candidates == {d \in Deliveries : queue[d].status = "pending" /\ queue[d].due}

\* claim_github_webhook_events_v1
Claimed(hand) ==
  queue' = [d \in Deliveries |->
              IF d \in hand THEN [queue[d] EXCEPT !.status = "processing", !.attempts = @ + 1]
              ELSE queue[d]]

\* What a terminal event makes of its delivery.
Rollup(status) == IF status = "completed" THEN "processed" ELSE status

\* finish_github_webhook_event_v1
Finished(d, status) ==
  /\ queue' = [queue EXCEPT ![d] = [@ EXCEPT !.status = status, !.due = (status # "pending")]]
  /\ delivery' = IF status \in Terminal THEN [delivery EXCEPT ![d] = Rollup(status)] ELSE delivery

BackoffElapses(d) ==
  /\ queue[d].status = "pending"
  /\ ~queue[d].due
  /\ queue' = [queue EXCEPT ![d].due = TRUE]
  /\ UNCHANGED <<receiver, acked, delivery, results, worker, faults>>

-----------------------------------------------------------------------------
(* The worker.                                                             *)

\* A wake, immediate or of the cron job.
Claim(w) ==
  /\ worker[w].at = "idle"
  /\ \E hand \in (SUBSET Candidates) \ {{}} :
       /\ Cardinality(hand) <= Limit
       /\ hand = Candidates \/ Cardinality(hand) = Limit
       /\ Claimed(hand)
       /\ worker' = [worker EXCEPT ![w] = [@ EXCEPT !.at = "next", !.hand = hand]]
  /\ UNCHANGED <<receiver, acked, delivery, results, faults>>

\* The next event of the claim; one that asks for nothing is ignored.
NextEvent(w) ==
  /\ worker[w].at = "next"
  /\ \E d \in worker[w].hand :
       worker' = [worker EXCEPT
         ![w] = IF Operations[d] = 0
                THEN [@ EXCEPT !.at = "finish", !.event = d, !.verdict = "ignored"]
                ELSE [@ EXCEPT !.at = "call", !.event = d, !.op = 1, !.verdict = "none"]]
  /\ UNCHANGED <<receiver, acked, delivery, queue, results, faults>>

\* Mutant of AfterCall: a failed operation does not end the event.
AfterCallCarriesOn(w, outcome) ==
  LET d == worker[w].event IN
  IF worker[w].op < Operations[d] THEN [worker[w] EXCEPT !.op = @ + 1]
  ELSE [worker[w] EXCEPT !.at = "finish",
          !.verdict = CASE outcome = "ok" -> "completed"
                        [] outcome = "retryable" /\ queue[d].attempts < MaxAttempts -> "pending"
                        [] OTHER -> "failed"]

\* The loop over an event's operations ends with the first failure, which is
\* tried again later if its status allows and attempts are left.
AfterCall(w, outcome) ==
  LET d == worker[w].event IN
  IF outcome = "ok" /\ worker[w].op < Operations[d] THEN [worker[w] EXCEPT !.op = @ + 1]
  ELSE [worker[w] EXCEPT !.at = "finish",
          !.verdict = CASE outcome = "ok" -> "completed"
                        [] outcome = "retryable" /\ queue[d].attempts < MaxAttempts -> "pending"
                        [] OTHER -> "failed"]

\* routerCall and recordResult.
Call(w) ==
  /\ worker[w].at = "call"
  /\ \E outcome \in {"ok", "retryable", "permanent"} :
       LET d == worker[w].event IN
       /\ results' = results \cup {[of |-> d, attempt |-> queue[d].attempts,
                                    op |-> worker[w].op, ok |-> outcome = "ok"]}
       /\ worker' = [worker EXCEPT ![w] = AfterCall(w, outcome)]
  /\ UNCHANGED <<receiver, acked, delivery, queue, faults>>

\* finishEvent
Finish(w) ==
  /\ worker[w].at = "finish"
  /\ Finished(worker[w].event, worker[w].verdict)
  /\ LET rest == worker[w].hand \ {worker[w].event} IN
     worker' = [worker EXCEPT ![w] = IF rest = {} THEN Idle
                                     ELSE [Idle EXCEPT !.at = "next", !.hand = rest]]
  /\ UNCHANGED <<receiver, acked, results, faults>>

\* recordResult or finishEvent throws, or the invocation is killed: the rest
\* of the claim stays as it is.
Abort(w) ==
  /\ worker[w].at # "idle"
  /\ Fault
  /\ worker' = [worker EXCEPT ![w] = Idle]
  /\ UNCHANGED <<receiver, acked, delivery, queue, results>>

-----------------------------------------------------------------------------
Works(w) == Claim(w) \/ NextEvent(w) \/ Call(w) \/ Finish(w)

Next ==
  \/ \E d \in Deliveries : Duplicate(d) \/ BackoffElapses(d)
  \/ \E i \in Receivers, d \in Deliveries : Receive(i, d)
  \/ \E i \in Receivers : Insert(i) \/ InsertFails(i)
  \/ \E w \in Workers : Works(w) \/ Abort(w)

Spec == Init /\ [][Next]_vars

\* The cron job wakes a worker every minute, a worker that is not killed runs
\* on, and backoffs end.
FairSpec ==
  /\ Spec
  /\ \A w \in Workers : WF_vars(Works(w))
  /\ \A d \in Deliveries : WF_vars(BackoffElapses(d))

-----------------------------------------------------------------------------
(* Safety.                                                                 *)

\* What GitHub was told is accepted has an event in the queue, whatever
\* deliveries overlap, repeat or fail: the receiver never answers 202 first.
AckedIsQueued == \A d \in acked : queue[d].status # "absent"

\* "preventing duplicate workers from owning the same job"
OneOwner ==
  /\ \A w \in Workers : \A d \in worker[w].hand : queue[d].status = "processing"
  /\ \A v, w \in Workers : v # w => worker[v].hand \cap worker[w].hand = {}

\* The last attempt at an event has stored this result of an operation.
Stored(d, op, ok) ==
  [of |-> d, attempt |-> queue[d].attempts, op |-> op, ok |-> ok] \in results

\* A completed event has, in its last attempt, a stored success of every
\* operation; a failed one has a stored failure there.
SettledTruly ==
  \A d \in Deliveries :
    /\ queue[d].status = "completed" => \A op \in 1..Operations[d] : Stored(d, op, TRUE)
    /\ queue[d].status = "failed" => \E op \in 1..Operations[d] : Stored(d, op, FALSE)

\* A settled event is not taken up again: no redelivery, late worker or retry
\* changes it, its delivery or its results.
SettledStays ==
  [][\A d \in Deliveries : queue[d].status \in Terminal =>
       /\ queue'[d] = queue[d]
       /\ delivery'[d] = Rollup(queue[d].status)
       /\ \A r \in results' \ results : r.of # d]_vars

-----------------------------------------------------------------------------
(* Refinement.                                                             *)

PhaseOf(s) ==
  CASE s = "absent"     -> "absent"
    [] s = "pending"    -> "waiting"
    [] s = "processing" -> "working"
    [] s \in Terminal   -> "settled"

EventPhase == [d \in Deliveries |-> PhaseOf(queue[d].status)]
EventTries == [d \in Deliveries |-> queue[d].attempts]

Events == INSTANCE BoundedWork
            WITH Work <- Deliveries, MaxTries <- [d \in Deliveries |-> MaxAttempts],
                 phase <- EventPhase, tries <- EventTries

\* The event queue keeps the promise of the bounded work queue: with receivers,
\* workers, backoffs and results left out, an event is queued once, worked on
\* by one attempt at a time, tried at most MaxAttempts times and settled for
\* good (claim_github_webhook_events_v1, finish_github_webhook_event_v1).
EventsAreBoundedWork == Events!Spec

-----------------------------------------------------------------------------
(* Liveness.                                                               *)

\* While nothing fails but GitHub, every delivery that was acknowledged is
\* settled, after retries with backoff, whatever other workers claim.
AckedSettles ==
  \A d \in Deliveries :
    d \in acked ~> delivery[d] \in {"processed", "failed", "ignored"} \/ faults > 0

=============================================================================
