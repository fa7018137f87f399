------------------------ MODULE GithubWebhookProofs ------------------------
(***************************************************************************)
(* Proofs about GithubWebhook, for any number of deliveries, receivers and *)
(* workers, any claim size and any number of failures.                     *)
(***************************************************************************)
EXTENDS GithubWebhook, TLAPS

USE WebhookAssumption

\* An event exists exactly when its delivery is stored, and a settled one has
\* settled its delivery.
EventOfDelivery ==
  \A d \in Deliveries :
    /\ delivery[d] = "absent" <=> queue[d].status = "absent"
    /\ queue[d].status \in Terminal => delivery[d] = Rollup(queue[d].status)

\* What waits has attempts left, and what is not there has used none.
AttemptsLeft ==
  \A d \in Deliveries :
    /\ queue[d].status \in {"absent", "pending"} => queue[d].attempts < MaxAttempts
    /\ queue[d].status = "absent" => queue[d].attempts = 0

\* A worker works on an event of its claim, ...
AtWork ==
  \A w \in Workers :
    /\ worker[w].at = "idle" => worker[w].hand = {}
    /\ worker[w].at \in {"call", "finish"} => worker[w].event \in worker[w].hand

\* ... has stored the success of every operation before the one it calls, and
\* comes to a verdict its results support.
SupportedAt(w) ==
  LET d == worker[w].event IN
  /\ worker[w].at = "call" =>
       /\ worker[w].op \in 1..Operations[d]
       /\ \A op \in 1..Operations[d] : op < worker[w].op => Stored(d, op, TRUE)
  /\ worker[w].at = "finish" =>
       /\ worker[w].verdict # "none"
       /\ worker[w].verdict = "pending" => queue[d].attempts < MaxAttempts
       /\ worker[w].verdict = "completed" => \A op \in 1..Operations[d] : Stored(d, op, TRUE)
       /\ worker[w].verdict = "failed" => \E op \in 1..Operations[d] : Stored(d, op, FALSE)

Supported == \A w \in Workers : SupportedAt(w)

IInv ==
  /\ TypeOK
  /\ EventOfDelivery
  /\ AttemptsLeft
  /\ OneOwner
  /\ AtWork
  /\ Supported
  /\ SettledTruly
  /\ AckedIsQueued

-----------------------------------------------------------------------------
\* Initially no event exists and no worker holds one.
LEMMA InitHolds == Init => IInv
  <1> SUFFICES ASSUME Init
               PROVE  IInv
    OBVIOUS
  <1>1. \A d \in Deliveries : queue[d] = [status |-> "absent", attempts |-> 0, due |-> FALSE]
    BY DEF Init
  <1>2. \A w \in Workers : worker[w] = Idle
    BY DEF Init
  <1>3. queue \in [Deliveries -> Event] /\ Idle \in Worker
    BY DEF Init, Event, Idle, Worker
  <1>4. TypeOK
    BY <1>3 DEF Init, TypeOK
  <1>5. /\ \A d \in Deliveries : queue[d].status = "absent" /\ queue[d].attempts = 0
        /\ \A d \in Deliveries : delivery[d] = "absent"
        /\ acked = {}
    BY <1>1 DEF Init
  <1>6. EventOfDelivery /\ AttemptsLeft /\ SettledTruly /\ AckedIsQueued
    <2>1. EventOfDelivery /\ SettledTruly /\ AckedIsQueued
      BY <1>5 DEF EventOfDelivery, SettledTruly, AckedIsQueued, Terminal
    <2>2. AttemptsLeft
      BY <1>5 DEF AttemptsLeft
    <2>3. QED
      BY <2>1, <2>2
  <1>7. \A w \in Workers : worker[w].at = "idle" /\ worker[w].hand = {}
    BY <1>2 DEF Idle
  <1>8. OneOwner /\ AtWork /\ Supported
    BY <1>7 DEF OneOwner, AtWork, Supported, SupportedAt
  <1>9. QED
    BY <1>4, <1>6, <1>8 DEF IInv

\* Queuing a new event: nobody holds it, and nothing is known of it.
LEMMA EnqueuedKeeps ==
  ASSUME IInv, NEW d \in Deliveries, delivery[d] = "absent", Enqueued(d),
         UNCHANGED <<results, worker>>
  PROVE  /\ queue' \in [Deliveries -> Event]
         /\ delivery' \in [Deliveries -> {"absent", "accepted", "processed", "failed", "ignored"}]
         /\ EventOfDelivery' /\ AttemptsLeft' /\ OneOwner' /\ Supported' /\ SettledTruly'
         /\ \A e \in Deliveries : queue[e].status # "absent" => queue'[e].status # "absent"
         /\ queue'[d].status # "absent"
  <1> DEFINE new == [status |-> "pending", attempts |-> 0, due |-> TRUE]
  <1>1. queue[d].status = "absent"
    BY DEF IInv, EventOfDelivery
  <1>2. /\ queue' = [queue EXCEPT ![d] = new]
        /\ delivery' = [delivery EXCEPT ![d] = "accepted"]
    BY <1>1 DEF Enqueued, IInv, TypeOK
  <1>3. new \in Event
    BY DEF Event
  <1>4. queue' \in [Deliveries -> Event]
    BY <1>2, <1>3 DEF IInv, TypeOK
  <1>5. delivery' \in [Deliveries -> {"absent", "accepted", "processed", "failed", "ignored"}]
    BY <1>2 DEF IInv, TypeOK
  <1>6. /\ queue'[d] = new /\ delivery'[d] = "accepted"
        /\ \A e \in Deliveries \ {d} : queue'[e] = queue[e] /\ delivery'[e] = delivery[e]
    BY <1>2 DEF IInv, TypeOK
  <1>7. new.status = "pending" /\ new.attempts = 0
    OBVIOUS
  <1> HIDE DEF new
  <1>8. EventOfDelivery' /\ AttemptsLeft'
    BY <1>6, <1>7 DEF IInv, EventOfDelivery, AttemptsLeft, Terminal
  <1>9. \A w \in Workers : d \notin worker[w].hand
    BY <1>1 DEF IInv, OneOwner
  <1>10. OneOwner'
    <2>1. \A w \in Workers : worker[w].hand \subseteq Deliveries \ {d}
      BY <1>9 DEF IInv, TypeOK, Worker
    <2>2. QED
      BY <1>6, <2>1 DEF IInv, OneOwner
  <1>11. SettledTruly'
    BY <1>6, <1>7 DEF IInv, SettledTruly, Stored
  <1>12. \A w \in Workers : worker[w].at \in {"call", "finish"} =>
           worker[w].event \in Deliveries \ {d}
    BY <1>9 DEF IInv, AtWork, TypeOK, Worker
  <1>13. Supported'
    BY <1>6, <1>12 DEF IInv, Supported, SupportedAt, Stored
  <1>14. QED
    BY <1>4, <1>5, <1>6, <1>7, <1>8, <1>10, <1>11, <1>13

\* The receiver keeps the invariant.
LEMMA ReceiverKeeps ==
  ASSUME IInv, NEW i \in Receivers, Insert(i) \/ InsertFails(i)
  PROVE  IInv'
  <1> DEFINE d == receiver[i]
  <1>1. /\ d \in Deliveries
        /\ receiver' = [receiver EXCEPT ![i] = NoDelivery]
        /\ UNCHANGED <<results, worker>>
        /\ acked' \in {acked, acked \cup {d}}
        /\ faults' \in 0..MaxFaults
    BY DEF Insert, InsertFails, Fault, IInv, TypeOK
  <1>2. CASE delivery[d] = "absent" /\ Enqueued(d)
    <2>1. /\ queue' \in [Deliveries -> Event]
          /\ delivery' \in [Deliveries -> {"absent", "accepted", "processed", "failed", "ignored"}]
          /\ EventOfDelivery' /\ AttemptsLeft' /\ OneOwner' /\ Supported' /\ SettledTruly'
          /\ \A e \in Deliveries : queue[e].status # "absent" => queue'[e].status # "absent"
          /\ queue'[d].status # "absent"
      BY <1>1, <1>2, EnqueuedKeeps
    <2>2. TypeOK' /\ AtWork' /\ AckedIsQueued'
      BY <1>1, <2>1 DEF IInv, TypeOK, AtWork, AckedIsQueued
    <2>3. QED
      BY <2>1, <2>2 DEF IInv
  <1>3. CASE UNCHANGED <<acked, delivery, queue>>
    BY <1>1, <1>3 DEF IInv, TypeOK, EventOfDelivery, AttemptsLeft, OneOwner, AtWork, Supported,
                      SupportedAt, SettledTruly, AckedIsQueued, Stored
  <1>4. QED
    BY <1>2, <1>3 DEF Insert, InsertFails

-----------------------------------------------------------------------------
\* A claim: the events of the claim waited, so nobody held them; they keep an
\* attempt count within bounds, and their results of that attempt are to come.
LEMMA ClaimKeeps ==
  ASSUME IInv, NEW w \in Workers, Claim(w)
  PROVE  IInv'
  <1>1. PICK hand \in (SUBSET Candidates) \ {{}} :
          /\ Claimed(hand)
          /\ worker' = [worker EXCEPT ![w] = [@ EXCEPT !.at = "next", !.hand = hand]]
    BY DEF Claim
  <1>2. /\ worker[w].at = "idle"
        /\ UNCHANGED <<receiver, acked, delivery, results, faults>>
    BY DEF Claim
  <1>3. hand \subseteq Deliveries /\ \A d \in hand : queue[d].status = "pending"
    BY DEF Candidates
  <1>4. \A d \in Deliveries : queue[d] \in Event /\ queue[d].attempts \in Nat
    BY DEF IInv, TypeOK, Event
  <1>5. \A d \in hand : /\ queue'[d] \in Event
                         /\ queue'[d].status = "processing"
    <2> SUFFICES ASSUME NEW d \in hand
                 PROVE  queue'[d] \in Event /\ queue'[d].status = "processing"
      OBVIOUS
    <2>1. queue'[d] = [queue[d] EXCEPT !.status = "processing", !.attempts = @ + 1]
      BY <1>1, <1>3 DEF Claimed
    <2>2. queue[d].attempts + 1 \in 0..MaxAttempts
      BY <1>3, <1>4 DEF IInv, AttemptsLeft
    <2>3. QED
      BY <1>3, <1>4, <2>1, <2>2 DEF Event
  <1>6. \A d \in Deliveries \ hand : queue'[d] = queue[d]
    BY <1>1 DEF Claimed
  <1>7. queue' \in [Deliveries -> Event]
    <2>1. queue' = [d \in Deliveries |-> queue'[d]]
      BY <1>1 DEF Claimed
    <2>2. QED
      BY <1>4, <1>5, <1>6, <2>1
  <1>8. /\ worker'[w].at = "next" /\ worker'[w].hand = hand
        /\ worker'[w] \in Worker
        /\ \A v \in Workers \ {w} : worker'[v] = worker[v]
        /\ worker' \in [Workers -> Worker]
    <2>1. worker[w] \in Worker /\ worker \in [Workers -> Worker]
      BY DEF IInv, TypeOK
    <2>2. [worker[w] EXCEPT !.at = "next", !.hand = hand] \in Worker
      BY <1>3, <2>1 DEF Worker
    <2>3. QED
      BY <1>1, <2>1, <2>2 DEF Worker
  <1>9. TypeOK'
    BY <1>2, <1>7, <1>8 DEF IInv, TypeOK
  <1>10. EventOfDelivery' /\ AttemptsLeft' /\ AckedIsQueued'
    <2>1. EventOfDelivery'
      <3> SUFFICES ASSUME NEW d \in Deliveries
                   PROVE  /\ delivery[d] = "absent" <=> queue'[d].status = "absent"
                          /\ queue'[d].status \in Terminal => delivery[d] = Rollup(queue'[d].status)
        BY <1>2 DEF EventOfDelivery
      <3>1. CASE d \in hand
        BY <1>3, <1>5, <3>1 DEF IInv, EventOfDelivery, Terminal
      <3>2. CASE d \notin hand
        BY <1>6, <3>2 DEF IInv, EventOfDelivery
      <3>3. QED
        BY <3>1, <3>2
    <2>2. AttemptsLeft'
      BY <1>5, <1>6 DEF IInv, AttemptsLeft
    <2>3. AckedIsQueued'
      BY <1>2, <1>5, <1>6 DEF IInv, TypeOK, AckedIsQueued
    <2>4. QED
      BY <2>1, <2>2, <2>3
  <1>11. \A v \in Workers : worker[v].hand \subseteq Deliveries \ hand
    BY <1>3 DEF IInv, OneOwner, TypeOK, Worker
  <1>12. OneOwner'
    <2>1. \A v \in Workers : \A d \in worker'[v].hand : queue'[d].status = "processing"
      BY <1>5, <1>6, <1>8, <1>11 DEF IInv, OneOwner
    <2>2. \A u, v \in Workers : u # v => worker'[u].hand \cap worker'[v].hand = {}
      BY <1>8, <1>11 DEF IInv, OneOwner
    <2>3. QED
      BY <2>1, <2>2 DEF OneOwner
  <1>13. AtWork'
    BY <1>8 DEF IInv, AtWork
  <1>14. SettledTruly'
    BY <1>2, <1>5, <1>6 DEF IInv, SettledTruly, Stored
  <1>15. Supported'
    <2> SUFFICES ASSUME NEW v \in Workers, worker'[v].at \in {"call", "finish"}
                 PROVE  /\ worker[v] = worker'[v]
                        /\ queue'[worker[v].event] = queue[worker[v].event]
      BY <1>2 DEF IInv, Supported, SupportedAt, Stored
    <2>1. worker[v] = worker'[v]
      BY <1>8
    <2>2. worker[v].event \in Deliveries \ hand
      BY <1>11, <2>1 DEF IInv, AtWork
    <2>3. QED
      BY <1>6, <2>1, <2>2
  <1>16. QED
    BY <1>9, <1>10, <1>12, <1>13, <1>14, <1>15 DEF IInv

\* Taking up the next event of a claim, which asks for nothing if ignored.
LEMMA NextEventKeeps ==
  ASSUME IInv, NEW w \in Workers, NextEvent(w)
  PROVE  IInv'
  <1>1. PICK d \in worker[w].hand :
          worker' = [worker EXCEPT
            ![w] = IF Operations[d] = 0
                   THEN [@ EXCEPT !.at = "finish", !.event = d, !.verdict = "ignored"]
                   ELSE [@ EXCEPT !.at = "call", !.event = d, !.op = 1, !.verdict = "none"]]
    BY DEF NextEvent
  <1>2. UNCHANGED <<receiver, acked, delivery, queue, results, faults>>
    BY DEF NextEvent
  <1>3. worker[w] \in Worker /\ d \in Deliveries /\ Operations[d] \in Nat
    BY DEF IInv, TypeOK, Worker
  <1>4. /\ worker'[w] \in Worker
        /\ worker'[w].hand = worker[w].hand /\ worker'[w].event = d
        /\ \/ Operations[d] = 0 /\ worker'[w].at = "finish" /\ worker'[w].verdict = "ignored"
           \/ Operations[d] # 0 /\ worker'[w].at = "call" /\ worker'[w].op = 1
        /\ worker' \in [Workers -> Worker]
        /\ \A v \in Workers \ {w} : worker'[v] = worker[v]
    BY <1>1, <1>3 DEF IInv, TypeOK, Worker, Terminal
  <1>5. \A v \in Workers : worker'[v].hand = worker[v].hand
    BY <1>4
  <1>6. TypeOK' /\ EventOfDelivery' /\ AttemptsLeft' /\ SettledTruly' /\ AckedIsQueued'
    BY <1>2, <1>4 DEF IInv, TypeOK, EventOfDelivery, AttemptsLeft, SettledTruly, AckedIsQueued, Stored
  <1>7. OneOwner'
    BY <1>2, <1>5 DEF IInv, OneOwner
  <1>8. AtWork'
    BY <1>4, <1>5 DEF IInv, AtWork
  <1>9. Supported'
    <2> SUFFICES ASSUME NEW v \in Workers
                 PROVE  SupportedAt(v)'
      BY DEF Supported
    <2>1. CASE v # w
      BY <1>2, <1>4, <2>1 DEF IInv, Supported, SupportedAt, Stored
    <2>2. CASE v = w
      <3>1. worker'[w].at = "call" => worker'[w].op \in 1..Operations[d] /\ worker'[w].op = 1
        BY <1>3, <1>4
      <3>2. CASE worker'[w].at = "call"
        <4>1. \A op \in 1..Operations[d] : ~(op < 1)
          BY <1>3
        <4>2. QED
          BY <1>4, <2>2, <3>1, <3>2, <4>1 DEF SupportedAt
      <3>3. CASE worker'[w].at = "finish" /\ worker'[w].verdict = "ignored"
        BY <2>2, <3>3 DEF SupportedAt
      <3>4. QED
        BY <1>4, <3>2, <3>3
    <2>3. QED
      BY <2>1, <2>2
  <1>10. QED
    BY <1>6, <1>7, <1>8, <1>9 DEF IInv

\* A call and its result: results only grow, and the verdict rests on them.
LEMMA CallKeeps ==
  ASSUME IInv, NEW w \in Workers, Call(w)
  PROVE  IInv'
  <1>0. PICK d \in Deliveries, k \in Nat : d = worker[w].event /\ k = worker[w].op
    BY DEF Call, IInv, TypeOK, Worker, AtWork
  <1> DEFINE result(ok) == [of |-> d, attempt |-> queue[d].attempts, op |-> k, ok |-> ok]
  <1>1. PICK outcome \in {"ok", "retryable", "permanent"} :
          /\ results' = results \cup {result(outcome = "ok")}
          /\ worker' = [worker EXCEPT ![w] = AfterCall(w, outcome)]
    BY <1>0 DEF Call
  <1>2. worker[w].at = "call" /\ UNCHANGED <<receiver, acked, delivery, queue, faults>>
    BY DEF Call
  <1>3. /\ worker[w] \in Worker /\ d \in Deliveries /\ d \in worker[w].hand
        /\ Operations[d] \in Nat /\ k \in 1..Operations[d]
        /\ \A op \in 1..Operations[d] : op < k => Stored(d, op, TRUE)
        /\ queue[d] \in Event
    BY <1>0, <1>2 DEF IInv, TypeOK, Worker, AtWork, Supported, SupportedAt
  <1>4. result(outcome = "ok") \in Result
    BY <1>3 DEF Result, Event
  <1>5. \A e \in Deliveries, op \in Nat, ok \in BOOLEAN : Stored(e, op, ok) => Stored(e, op, ok)'
    BY <1>1, <1>2 DEF Stored
  <1>6. Stored(d, k, outcome = "ok")'
    <2>1. result(outcome = "ok") \in results'
      BY <1>1
    <2>2. QED
      BY <1>2, <2>1 DEF Stored
  <1>16. (outcome = "ok" => Stored(d, k, TRUE)') /\ (outcome # "ok" => Stored(d, k, FALSE)')
    <2>1. CASE outcome = "ok"
      <3>1. (outcome = "ok") = TRUE
        BY <2>1
      <3>2. QED
        BY <1>6, <2>1, <3>1
    <2>2. CASE outcome # "ok"
      <3>1. (outcome = "ok") = FALSE
        BY <2>2
      <3>2. QED
        BY <1>6, <2>2, <3>1
    <2>3. QED
      BY <2>1, <2>2
  <1>7. /\ AfterCall(w, outcome) \in Worker
        /\ AfterCall(w, outcome).hand = worker[w].hand
        /\ AfterCall(w, outcome).event = d
        /\ AfterCall(w, outcome).at # "idle"
    <2>1. k + 1 \in Nat
      BY <1>3
    <2>2. QED
      BY <1>0, <1>2, <1>3, <2>1 DEF AfterCall, Worker, Terminal
  <1>8. /\ worker'[w] = AfterCall(w, outcome)
        /\ worker' \in [Workers -> Worker]
        /\ \A v \in Workers \ {w} : worker'[v] = worker[v]
    BY <1>1, <1>7 DEF IInv, TypeOK
  <1>9. results' \subseteq Result
    BY <1>1, <1>4 DEF IInv, TypeOK
  <1>10. TypeOK' /\ EventOfDelivery' /\ AttemptsLeft' /\ AckedIsQueued'
    BY <1>2, <1>8, <1>9 DEF IInv, TypeOK, EventOfDelivery, AttemptsLeft, AckedIsQueued
  <1>11. OneOwner' /\ AtWork'
    <2>1. \A v \in Workers : worker'[v].hand = worker[v].hand
      BY <1>7, <1>8
    <2>2. QED
      BY <1>0, <1>2, <1>3, <1>7, <1>8, <2>1 DEF IInv, OneOwner, AtWork
  <1>12. SettledTruly'
    <2> SUFFICES ASSUME NEW e \in Deliveries
                 PROVE  /\ queue[e].status = "completed" => \A op \in 1..Operations[e] : Stored(e, op, TRUE)'
                        /\ queue[e].status = "failed" => \E op \in 1..Operations[e] : Stored(e, op, FALSE)'
      BY <1>2 DEF SettledTruly
    <2>1. \A op \in 1..Operations[e] : op \in Nat
      OBVIOUS
    <2>2. QED
      BY <1>5, <2>1 DEF IInv, SettledTruly
  <1>13. SupportedAt(w)'
    <2>1. CASE outcome = "ok" /\ k < Operations[d]
      <3>1. AfterCall(w, outcome) = [worker[w] EXCEPT !.op = @ + 1]
        BY <1>0, <2>1 DEF AfterCall
      <3>2. /\ worker'[w].at = "call" /\ worker'[w].event = d
            /\ worker'[w].op = k + 1
        BY <1>0, <1>2, <1>3, <1>8, <3>1 DEF Worker
      <3>3. k + 1 \in 1..Operations[d]
        BY <1>3, <2>1
      <3>4. ASSUME NEW op \in 1..Operations[d], op < k + 1
            PROVE  Stored(d, op, TRUE)'
        <4>1. op < k \/ op = k
          BY <1>3, <3>4
        <4>2. CASE op < k
          <5>1. op \in Nat
            BY <1>3
          <5>2. Stored(d, op, TRUE)
            BY <1>3, <4>2
          <5>3. QED
            BY <1>5, <5>1, <5>2
        <4>3. CASE op = k
          BY <1>16, <2>1, <4>3
        <4>4. QED
          BY <4>1, <4>2, <4>3
      <3>5. QED
        BY <1>2, <3>2, <3>3, <3>4 DEF SupportedAt
    <2>2. CASE ~(outcome = "ok" /\ k < Operations[d])
      <3>1. /\ worker'[w].at = "finish" /\ worker'[w].event = d
            /\ worker'[w].verdict \in {"completed", "pending", "failed"}
            /\ worker'[w].verdict = "completed" <=> outcome = "ok"
            /\ worker'[w].verdict = "pending" => queue[d].attempts < MaxAttempts
        BY <1>0, <1>2, <1>3, <1>8, <2>2 DEF AfterCall, Worker
      <3>2. ASSUME outcome = "ok", NEW op \in 1..Operations[d]
            PROVE  Stored(d, op, TRUE)'
        <4>1. op < k \/ op = k
          BY <1>3, <2>2, <3>2
        <4>2. CASE op < k
          <5>1. op \in Nat
            BY <1>3
          <5>2. Stored(d, op, TRUE)
            BY <1>3, <4>2
          <5>3. QED
            BY <1>5, <5>1, <5>2
        <4>3. CASE op = k
          BY <1>16, <3>2, <4>3
        <4>4. QED
          BY <4>1, <4>2, <4>3
      <3>3. outcome # "ok" => Stored(d, k, FALSE)'
        BY <1>16
      <3>4. QED
        BY <1>2, <1>3, <3>1, <3>2, <3>3 DEF SupportedAt
    <2>3. QED
      BY <2>1, <2>2
  <1>14. Supported'
    <2> SUFFICES ASSUME NEW v \in Workers, v # w
                 PROVE  SupportedAt(v)'
      BY <1>13 DEF Supported
    <2>1. worker'[v] = worker[v] /\ SupportedAt(v)
      BY <1>8 DEF IInv, Supported
    <2>2. worker[v].at \in {"call", "finish"} =>
            worker[v].event \in Deliveries /\ Operations[worker[v].event] \in Nat
      BY DEF IInv, AtWork, TypeOK, Worker
    <2>3. \A op \in 1..Operations[worker[v].event] : op \in Nat
      OBVIOUS
    <2>4. PICK e : e = worker[v].event
      OBVIOUS
    <2>5. QED
      BY <1>2, <1>5, <2>1, <2>2, <2>3, <2>4 DEF SupportedAt
  <1>15. QED
    BY <1>10, <1>11, <1>12, <1>14 DEF IInv

\* Finishing an event: nobody else holds it, its verdict becomes its status,
\* and a settled status settles the delivery with it.
LEMMA FinishKeeps ==
  ASSUME IInv, NEW w \in Workers, Finish(w)
  PROVE  IInv'
  <1>0. PICK d, status : d = worker[w].event /\ status = worker[w].verdict
    OBVIOUS
  <1> DEFINE rest == worker[w].hand \ {d}
             after == IF rest = {} THEN Idle ELSE [Idle EXCEPT !.at = "next", !.hand = rest]
  <1>1. /\ worker[w].at = "finish"
        /\ queue' = [queue EXCEPT ![d] = [@ EXCEPT !.status = status, !.due = (status # "pending")]]
        /\ delivery' = IF status \in Terminal THEN [delivery EXCEPT ![d] = Rollup(status)] ELSE delivery
        /\ worker' = [worker EXCEPT ![w] = after]
        /\ UNCHANGED <<receiver, acked, results, faults>>
    BY <1>0 DEF Finish, Finished
  <1>2. /\ worker[w] \in Worker /\ d \in worker[w].hand /\ d \in Deliveries
        /\ queue[d] \in Event /\ queue[d].status = "processing"
        /\ worker[w].hand \subseteq Deliveries
    BY <1>0, <1>1 DEF IInv, TypeOK, Worker, AtWork, OneOwner
  <1>3. /\ status \in {"pending"} \cup Terminal
        /\ status = "pending" => queue[d].attempts < MaxAttempts
        /\ status = "completed" => \A op \in 1..Operations[d] : Stored(d, op, TRUE)
        /\ status = "failed" => \E op \in 1..Operations[d] : Stored(d, op, FALSE)
    BY <1>0, <1>1, <1>2 DEF IInv, Supported, SupportedAt, Worker
  <1>4. [queue[d] EXCEPT !.status = status, !.due = (status # "pending")] \in Event
    BY <1>2, <1>3 DEF Event
  <1>5. /\ queue' \in [Deliveries -> Event]
        /\ queue'[d].status = status /\ queue'[d].attempts = queue[d].attempts
        /\ \A e \in Deliveries \ {d} : queue'[e] = queue[e]
    BY <1>1, <1>2, <1>4 DEF IInv, TypeOK, Event
  <1>6. after \in Worker /\ after.at \in {"idle", "next"} /\ after.hand = rest
        /\ (after.at = "idle" => rest = {})
    BY <1>2 DEF Worker, Idle
  <1> HIDE DEF after
  <1>7. /\ worker' \in [Workers -> Worker]
        /\ worker'[w] = after
        /\ \A v \in Workers \ {w} : worker'[v] = worker[v] /\ d \notin worker[v].hand
    BY <1>1, <1>2, <1>6 DEF IInv, TypeOK, OneOwner
  <1>8. /\ delivery' \in [Deliveries -> {"absent", "accepted", "processed", "failed", "ignored"}]
        /\ \A e \in Deliveries \ {d} : delivery'[e] = delivery[e]
        /\ delivery[d] # "absent"
        /\ IF status \in Terminal THEN delivery'[d] = Rollup(status) ELSE delivery'[d] = delivery[d]
        /\ status \in Terminal => Rollup(status) # "absent"
    BY <1>1, <1>2 DEF IInv, TypeOK, EventOfDelivery, Rollup, Terminal
  <1>9. TypeOK'
    BY <1>1, <1>5, <1>7, <1>8 DEF IInv, TypeOK
  <1>10. EventOfDelivery'
    BY <1>3, <1>5, <1>8 DEF IInv, EventOfDelivery, Terminal
  <1>11. AttemptsLeft'
    BY <1>3, <1>5 DEF IInv, AttemptsLeft, Terminal
  <1>12. AckedIsQueued'
    BY <1>1, <1>3, <1>5 DEF IInv, AckedIsQueued, TypeOK, Terminal
  <1>13. OneOwner'
    <2>1. \A v \in Workers : worker'[v].hand \subseteq worker[v].hand \ {d}
      BY <1>6, <1>7
    <2>2. \A v \in Workers : worker[v].hand \subseteq Deliveries
      BY DEF IInv, TypeOK, Worker
    <2>3. QED
      BY <1>5, <2>1, <2>2 DEF IInv, OneOwner
  <1>14. AtWork'
    BY <1>6, <1>7 DEF IInv, AtWork
  <1>15. SettledTruly'
    <2>1. \A e \in Deliveries : \A op, ok : Stored(e, op, ok)' <=> Stored(e, op, ok)
      BY <1>1, <1>5 DEF Stored
    <2>2. QED
      BY <1>3, <1>5, <2>1 DEF IInv, SettledTruly
  <1>16. Supported'
    <2> SUFFICES ASSUME NEW v \in Workers, worker'[v].at \in {"call", "finish"}
                 PROVE  SupportedAt(v)'
      BY DEF Supported, SupportedAt
    <2>1. v # w
      BY <1>6, <1>7
    <2>2. worker[v].event \in Deliveries \ {d}
      BY <1>7, <2>1 DEF IInv, AtWork, TypeOK, Worker
    <2>3. worker'[v] = worker[v] /\ queue'[worker[v].event] = queue[worker[v].event]
      BY <1>5, <1>7, <2>1, <2>2
    <2>4. SupportedAt(v) /\ results' = results
      BY <1>1 DEF IInv, Supported
    <2>5. QED
      BY <2>3, <2>4 DEF SupportedAt, Stored
  <1>17. QED
    BY <1>9, <1>10, <1>11, <1>12, <1>13, <1>14, <1>15, <1>16 DEF IInv

\* A worker that dies lets go of its claim.
LEMMA AbortKeeps ==
  ASSUME IInv, NEW w \in Workers, Abort(w)
  PROVE  IInv'
  <1>1. /\ worker' = [worker EXCEPT ![w] = Idle]
        /\ faults' \in 0..MaxFaults
        /\ UNCHANGED <<receiver, acked, delivery, queue, results>>
    BY DEF Abort, Fault, IInv, TypeOK
  <1>2. Idle \in Worker /\ Idle.at = "idle" /\ Idle.hand = {}
    BY DEF Idle, Worker
  <1>3. /\ worker' \in [Workers -> Worker] /\ worker'[w] = Idle
        /\ \A v \in Workers \ {w} : worker'[v] = worker[v]
    BY <1>1, <1>2 DEF IInv, TypeOK
  <1>4. TypeOK' /\ EventOfDelivery' /\ AttemptsLeft' /\ AckedIsQueued' /\ SettledTruly'
    BY <1>1, <1>3 DEF IInv, TypeOK, EventOfDelivery, AttemptsLeft, AckedIsQueued, SettledTruly, Stored
  <1>5. OneOwner'
    BY <1>1, <1>2, <1>3 DEF IInv, OneOwner
  <1>6. AtWork'
    BY <1>2, <1>3 DEF IInv, AtWork
  <1>7. Supported'
    BY <1>1, <1>2, <1>3 DEF IInv, Supported, SupportedAt, Stored
  <1>8. QED
    BY <1>4, <1>5, <1>6, <1>7 DEF IInv

\* What happens to the queue between claims.
LEMMA RestKeeps ==
  ASSUME IInv, \/ \E d \in Deliveries : Duplicate(d) \/ BackoffElapses(d)
               \/ \E i \in Receivers, d \in Deliveries : Receive(i, d)
               \/ UNCHANGED vars
  PROVE  IInv'
  <1>1. ASSUME NEW d \in Deliveries, Duplicate(d)
        PROVE  IInv'
    BY <1>1 DEF Duplicate, IInv, TypeOK, EventOfDelivery, AttemptsLeft, OneOwner, AtWork, Supported,
                SupportedAt, SettledTruly, AckedIsQueued, Stored
  <1>2. ASSUME NEW d \in Deliveries, BackoffElapses(d)
        PROVE  IInv'
    <2>1. queue' = [queue EXCEPT ![d] = [@ EXCEPT !.due = TRUE]]
      BY <1>2 DEF BackoffElapses, IInv, TypeOK, Event
    <2>2. queue[d] \in Event /\ [queue[d] EXCEPT !.due = TRUE] \in Event
      BY DEF IInv, TypeOK, Event
    <2>3. /\ queue' \in [Deliveries -> Event]
          /\ \A e \in Deliveries : /\ queue'[e].status = queue[e].status
                                   /\ queue'[e].attempts = queue[e].attempts
      BY <2>1, <2>2 DEF IInv, TypeOK, Event
    <2>4. UNCHANGED <<receiver, acked, delivery, results, worker, faults>>
      BY <1>2 DEF BackoffElapses
    <2>5. \A e \in Deliveries : \A op, ok : Stored(e, op, ok)' <=> Stored(e, op, ok)
      BY <2>3, <2>4 DEF Stored
    <2>6. TypeOK' /\ EventOfDelivery' /\ AttemptsLeft' /\ AckedIsQueued' /\ AtWork'
      BY <2>3, <2>4 DEF IInv, TypeOK, EventOfDelivery, AttemptsLeft, AckedIsQueued, AtWork
    <2>7. OneOwner'
      <3>1. \A w \in Workers : worker[w].hand \subseteq Deliveries
        BY DEF IInv, TypeOK, Worker
      <3>2. QED
        BY <2>3, <2>4, <3>1 DEF IInv, OneOwner
    <2>8. SettledTruly'
      BY <2>3, <2>5 DEF IInv, SettledTruly
    <2>9. Supported'
      <3> SUFFICES ASSUME NEW w \in Workers, worker[w].at \in {"call", "finish"}
                   PROVE  SupportedAt(w)'
        BY <2>4 DEF Supported, SupportedAt
      <3>1. worker[w].event \in Deliveries /\ SupportedAt(w)
        BY DEF IInv, AtWork, TypeOK, Worker, Supported
      <3>2. QED
        BY <2>3, <2>4, <3>1 DEF SupportedAt, Stored
    <2>10. QED
      BY <2>6, <2>7, <2>8, <2>9 DEF IInv
  <1>3. ASSUME NEW i \in Receivers, NEW d \in Deliveries, Receive(i, d)
        PROVE  IInv'
    BY <1>3 DEF Receive, Fault, IInv, TypeOK, EventOfDelivery, AttemptsLeft, OneOwner, AtWork, Supported,
                SupportedAt, SettledTruly, AckedIsQueued, Stored
  <1>4. CASE UNCHANGED vars
    BY <1>4 DEF vars, IInv, TypeOK, EventOfDelivery, AttemptsLeft, OneOwner, AtWork, Supported,
                SupportedAt, SettledTruly, AckedIsQueued, Stored
  <1>5. QED
    BY <1>1, <1>2, <1>3, <1>4

-----------------------------------------------------------------------------
\* The inductive invariant of the webhook plane.
THEOREM InvariantHolds == Spec => []IInv
  <1>1. IInv /\ [Next]_vars => IInv'
    BY RestKeeps, ReceiverKeeps, ClaimKeeps, NextEventKeeps, CallKeeps, FinishKeeps, AbortKeeps
    DEF Next, Works
  <1>2. QED
    BY InitHolds, <1>1, PTL DEF Spec

\* Every variable keeps its type; in particular no event is attempted more
\* than MaxAttempts times.
THEOREM TypeCorrect == Spec => []TypeOK
  BY InvariantHolds, PTL DEF IInv

\* Everything acknowledged to GitHub is queued.
THEOREM NothingAckedIsLost == Spec => []AckedIsQueued
  BY InvariantHolds, PTL DEF IInv

\* At most one worker owns an event.
THEOREM SingleOwner == Spec => []OneOwner
  BY InvariantHolds, PTL DEF IInv

\* Completed and failed events are what their stored results say.
THEOREM SettlementIsTrue == Spec => []SettledTruly
  BY InvariantHolds, PTL DEF IInv

\* Nothing touches a settled event, its delivery or its results again.
THEOREM SettlementIsFinal == Spec => SettledStays
  <1> DEFINE Stays ==
        \A d \in Deliveries : queue[d].status \in Terminal =>
          /\ queue'[d] = queue[d]
          /\ delivery'[d] = Rollup(queue[d].status)
          /\ \A r \in results' \ results : r.of # d
  <1>1. IInv /\ [Next]_vars => [Stays]_vars
    <2> SUFFICES ASSUME IInv, Next, NEW d \in Deliveries, queue[d].status \in Terminal
                 PROVE  /\ queue'[d] = queue[d]
                        /\ delivery'[d] = Rollup(queue[d].status)
                        /\ \A r \in results' \ results : r.of # d
      OBVIOUS
    <2>1. delivery[d] = Rollup(queue[d].status) /\ delivery[d] # "absent"
      BY DEF IInv, EventOfDelivery, Terminal
    <2>2. \A w \in Workers : d \notin worker[w].hand
      BY DEF IInv, OneOwner, Terminal
    <2>3. ASSUME NEW w \in Workers, worker[w].at \in {"call", "finish"}
          PROVE  worker[w].event # d
      BY <2>2, <2>3 DEF IInv, AtWork
    <2>4. ASSUME NEW e \in Deliveries, Duplicate(e) \/ BackoffElapses(e)
          PROVE  queue'[d] = queue[d] /\ delivery' = delivery /\ results' = results
      BY <2>4 DEF Duplicate, BackoffElapses, IInv, TypeOK, Terminal
    <2>5. ASSUME NEW i \in Receivers, Insert(i) \/ InsertFails(i)
          PROVE  queue'[d] = queue[d] /\ delivery'[d] = delivery[d] /\ results' = results
      BY <2>1, <2>5 DEF Insert, InsertFails, Enqueued, IInv, TypeOK
    <2>6. ASSUME NEW w \in Workers, Claim(w)
          PROVE  queue'[d] = queue[d] /\ delivery' = delivery /\ results' = results
      BY <2>6 DEF Claim, Claimed, Candidates, Terminal
    <2>7. ASSUME NEW w \in Workers, Call(w)
          PROVE  /\ queue' = queue /\ delivery' = delivery
                 /\ \A r \in results' \ results : r.of # d
      BY <2>3, <2>7 DEF Call
    <2>8. ASSUME NEW w \in Workers, Finish(w)
          PROVE  queue'[d] = queue[d] /\ delivery'[d] = delivery[d] /\ results' = results
      BY <2>3, <2>8 DEF Finish, Finished, IInv, TypeOK
    <2>9. ASSUME \/ \E i \in Receivers, e \in Deliveries : Receive(i, e)
                 \/ \E w \in Workers : NextEvent(w) \/ Abort(w)
          PROVE  queue' = queue /\ delivery' = delivery /\ results' = results
      BY <2>9 DEF Receive, NextEvent, Abort
    <2>10. QED
      BY <2>1, <2>4, <2>5, <2>6, <2>7, <2>8, <2>9 DEF Next, Works
  <1>2. QED
    BY InvariantHolds, <1>1, PTL DEF Spec, SettledStays

-----------------------------------------------------------------------------
(* The queue implements BoundedWork.                                       *)

LEMMA EventPhases ==
  /\ PhaseOf("absent") = "absent" /\ PhaseOf("pending") = "waiting"
  /\ PhaseOf("processing") = "working"
  /\ \A s \in Terminal : PhaseOf(s) = "settled"
  BY DEF PhaseOf, Terminal

\* The events of S go from one phase to another, and no other event changes
\* its phase.
Turns(S, from, to) ==
  /\ S # {} /\ S \subseteq Deliveries
  /\ \A d \in S : PhaseOf(queue[d].status) = from /\ PhaseOf(queue'[d].status) = to
  /\ \A d \in Deliveries \ S : queue'[d].status = queue[d].status

SameTries == \A d \in Deliveries : queue'[d].attempts = queue[d].attempts

LEMMA TurnsTurn ==
  ASSUME NEW S, NEW from, NEW to, Turns(S, from, to)
  PROVE  /\ S # {} /\ S \in SUBSET Deliveries
         /\ \A d \in S : EventPhase[d] = from
         /\ EventPhase' = [d \in Deliveries |-> IF d \in S THEN to ELSE EventPhase[d]]
  BY DEF Turns, EventPhase

LEMMA OneTurns ==
  ASSUME NEW d \in Deliveries, NEW from, NEW to, Turns({d}, from, to)
  PROVE  EventPhase[d] = from /\ EventPhase' = [EventPhase EXCEPT ![d] = to]
  <1>1. /\ EventPhase[d] = from
        /\ EventPhase' = [e \in Deliveries |-> IF e \in {d} THEN to ELSE EventPhase[e]]
    BY TurnsTurn
  <1>2. [e \in Deliveries |-> IF e \in {d} THEN to ELSE EventPhase[e]] = [EventPhase EXCEPT ![d] = to]
    BY DEF EventPhase
  <1>3. QED
    BY <1>1, <1>2

LEMMA TriesStay == SameTries => EventTries' = EventTries
  BY DEF SameTries, EventTries

\* An insert accepts an event or finds it there.
LEMMA EnqueuedAccepts ==
  ASSUME IInv, NEW d \in Deliveries, delivery[d] = "absent", Enqueued(d)
  PROVE  Events!Next
  <1>1. queue[d].status = "absent" /\ queue[d].attempts = 0
    BY DEF IInv, EventOfDelivery, AttemptsLeft
  <1>2. queue' = [queue EXCEPT ![d] = [status |-> "pending", attempts |-> 0, due |-> TRUE]]
    BY <1>1 DEF Enqueued, IInv, TypeOK
  <1>3. Turns({d}, "absent", "waiting") /\ SameTries
    BY <1>1, <1>2, EventPhases DEF Turns, SameTries, IInv, TypeOK
  <1>4. QED
    BY <1>3, TurnsTurn, TriesStay DEF Events!Next, Events!Accept

\* A claim begins an attempt at each of its events.
LEMMA ClaimBegins ==
  ASSUME IInv, NEW w \in Workers, Claim(w)
  PROVE  Events!Next
  <1>1. PICK hand \in (SUBSET Candidates) \ {{}} : Claimed(hand)
    BY DEF Claim
  <1>2. \A d \in hand : d \in Deliveries /\ queue[d].status = "pending"
    BY <1>1 DEF Candidates
  <1>3. \A d \in Deliveries :
          /\ queue'[d].status = IF d \in hand THEN "processing" ELSE queue[d].status
          /\ queue'[d].attempts = IF d \in hand THEN queue[d].attempts + 1 ELSE queue[d].attempts
    BY <1>1 DEF Claimed, IInv, TypeOK, Event
  <1>4. Turns(hand, "waiting", "working")
    BY <1>1, <1>2, <1>3, EventPhases DEF Turns
  <1>5. EventTries' = [d \in Deliveries |-> IF d \in hand THEN EventTries[d] + 1 ELSE EventTries[d]]
    BY <1>3 DEF EventTries
  <1>6. \A d \in hand : EventTries[d] < MaxAttempts
    BY <1>2 DEF EventTries, IInv, AttemptsLeft
  <1>7. QED
    BY <1>4, <1>5, <1>6, TurnsTurn DEF Events!Next, Events!Begin

\* A finish gives its event back while attempts are left, or settles it.
LEMMA FinishEnds ==
  ASSUME IInv, NEW w \in Workers, Finish(w)
  PROVE  Events!Next
  <1>0. /\ worker[w].at = "finish" /\ worker[w].event \in Deliveries
        /\ queue[worker[w].event].status = "processing"
    BY DEF Finish, IInv, AtWork, OneOwner, TypeOK, Worker
  <1>1. PICK d \in Deliveries : d = worker[w].event /\ queue[d].status = "processing"
    BY <1>0
  <1>2. PICK status \in {"pending"} \cup Terminal :
          status = worker[w].verdict /\ (status = "pending" => queue[d].attempts < MaxAttempts)
    BY <1>0, <1>1 DEF IInv, Supported, SupportedAt, TypeOK, Worker
  <1>3. /\ queue'[d].status = status /\ queue'[d].attempts = queue[d].attempts
        /\ \A e \in Deliveries \ {d} : queue'[e] = queue[e]
    BY <1>1, <1>2 DEF Finish, Finished, IInv, TypeOK, Event
  <1>4. SameTries
    BY <1>3 DEF SameTries
  <1>5. CASE status = "pending"
    <2>1. Turns({d}, "working", "waiting")
      BY <1>1, <1>3, <1>5, EventPhases DEF Turns
    <2>2. EventPhase' = [EventPhase EXCEPT ![d] = "waiting"] /\ EventPhase[d] = "working"
      BY <2>1, OneTurns
    <2>3. EventTries[d] < MaxAttempts
      BY <1>1, <1>2, <1>5 DEF EventTries
    <2>4. QED
      BY <1>1, <1>4, <2>2, <2>3, TriesStay DEF Events!Next, Events!GiveBack
  <1>6. CASE status \in Terminal
    <2>1. Turns({d}, "working", "settled")
      BY <1>1, <1>3, <1>6, EventPhases DEF Turns
    <2>2. EventPhase' = [EventPhase EXCEPT ![d] = "settled"] /\ EventPhase[d] = "working"
      BY <2>1, OneTurns
    <2>3. QED
      BY <1>1, <1>4, <2>2, TriesStay DEF Events!Next, Events!Settle
  <1>7. QED
    BY <1>2, <1>5, <1>6

\* Every other step leaves phases and attempts alone.
LEMMA RestUnseen ==
  ASSUME IInv, \A d \in Deliveries : /\ queue'[d].status = queue[d].status
                                     /\ queue'[d].attempts = queue[d].attempts
  PROVE  UNCHANGED Events!vars
  BY DEF Events!vars, EventPhase, EventTries

\* The event queue implements BoundedWork: with receivers, workers, backoffs
\* and results projected away, every step accepts, begins, gives back or
\* settles events as the abstract queue may, or leaves them alone.
THEOREM EventQueueImplemented == Spec => EventsAreBoundedWork
  <1>1. Init => Events!Init
    BY EventPhases DEF Init, Events!Init, EventPhase, EventTries
  <1>2. IInv /\ [Next]_vars => [Events!Next]_(Events!vars)
    <2> SUFFICES ASSUME IInv, [Next]_vars
                 PROVE  [Events!Next]_(Events!vars)
      OBVIOUS
    <2>1. ASSUME NEW i \in Receivers, Insert(i) \/ InsertFails(i)
          PROVE  [Events!Next]_(Events!vars)
      <3>1. CASE delivery[receiver[i]] = "absent" /\ Enqueued(receiver[i])
        BY <2>1, <3>1, EnqueuedAccepts DEF Insert, InsertFails, IInv, TypeOK
      <3>2. CASE queue' = queue
        BY <3>2, RestUnseen
      <3>3. QED
        BY <2>1, <3>1, <3>2 DEF Insert, InsertFails
    <2>2. ASSUME NEW d \in Deliveries, BackoffElapses(d)
          PROVE  UNCHANGED Events!vars
      BY <2>2, RestUnseen DEF BackoffElapses, IInv, TypeOK, Event
    <2>3. ASSUME \/ \E d \in Deliveries : Duplicate(d)
                 \/ \E i \in Receivers, d \in Deliveries : Receive(i, d)
                 \/ \E w \in Workers : NextEvent(w) \/ Call(w) \/ Abort(w)
                 \/ UNCHANGED vars
          PROVE  UNCHANGED Events!vars
      <3>1. queue' = queue
        BY <2>3 DEF Duplicate, Receive, NextEvent, Call, Abort, vars
      <3>2. QED
        BY <3>1, RestUnseen
    <2>4. QED
      BY <2>1, <2>2, <2>3, ClaimBegins, FinishEnds DEF Next, Works
  <1>3. QED
    BY <1>1, <1>2, InvariantHolds, PTL DEF Spec, EventsAreBoundedWork, Events!Spec

=============================================================================
