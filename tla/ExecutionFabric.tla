---------------------------- MODULE ExecutionFabric ----------------------------
(***************************************************************************)
(* Dynamic execution fabric (dynamic_execution_fabric): observers describe *)
(* the substrates, the fabric ranks them for a workload, and tries them in *)
(* that order until one does not plainly fail.  What a substrate answers   *)
(* and whether its effect took place are two different things.             *)
(***************************************************************************)
EXTENDS Integers, Sequences

CONSTANTS
    Substrates,   \* integers, in the order of their names
    Sightings,    \* what an observer may see of a substrate
    Workloads,    \* [capabilities, private, exact, receipts, readback]
    Replies,      \* what an executor may return, or that it raises
    Window        \* age at which an observation is stale

\* A constant or a word stands for the outcome _provider_outcome reads in it.
ASSUME RepliesAssumption ==
    \A a \in Replies : a.form = "word" => a.state \in {"success", "failed", "pending", "unconfirmed"}

VARIABLES workload, sighted, attempts, delivered

fabricVars == <<workload, sighted, attempts, delivered>>

-----------------------------------------------------------------------------
(* The plan.                                                               *)
Nothing == [capabilities |-> {}, health |-> "unavailable", score |-> 0, private |-> FALSE,
            exact |-> FALSE, receipts |-> FALSE, readback |-> FALSE, age |-> 0, cost |-> 0, latency |-> 0]

Ineligible == {"failed", "unavailable", "disabled", "exhausted"}
HealthFactor(health) ==
    CASE health = "healthy" -> 100 [] health = "degraded" -> 72 [] health = "unknown" -> 45 [] OTHER -> 25

Warned(o) ==
    \/ o.age < 0 \/ o.age > Window
    \/ o.health \notin Ineligible \cup {"healthy", "degraded", "unknown"}

Eligible(o) ==
    /\ o.health \notin Ineligible
    /\ workload.capabilities \subseteq o.capabilities
    /\ workload.private => o.private
    /\ workload.exact => o.exact
    /\ workload.receipts => o.receipts
    /\ workload.readback => o.readback

\* In ten-thousandths, and doubled so that a warning can halve it.  An eligible
\* route covers every capability, others score nothing.
Score(o) ==
    IF ~Eligible(o) THEN 0
    ELSE (o.score * 55 + 100 * 15 + o.latency * 15 + o.cost * 15) * HealthFactor(o.health)
           * (IF Warned(o) THEN 1 ELSE 2)

Precedes(s, t) ==
    LET a == sighted[s]
        b == sighted[t]
    IN  \/ Warned(b) /\ ~Warned(a)
        \/ /\ Warned(a) = Warned(b)
           /\ Score(a) > Score(b) \/ (Score(a) = Score(b) /\ s < t)

Routes == {s \in Substrates : Eligible(sighted[s])}

-----------------------------------------------------------------------------
FabricInit ==
    /\ workload \in Workloads
    /\ sighted = [s \in Substrates |-> Nothing]
    /\ attempts = <<>> /\ delivered = "planning"

\* Every observer is asked; one that raises makes only its substrate unavailable.
Observe ==
    /\ delivered = "planning"
    /\ sighted' \in [Substrates -> Sightings \cup {Nothing}]
    /\ delivered' = "trying"
    /\ UNCHANGED <<workload, attempts>>

(* The outcome of an attempt.  An answer is a constant of Python, a word or *)
(* a mapping with some of: ok, state, error, receipt, readback.            *)
Bare(answer) == answer.form = "word"
ProviderOutcome(answer) ==
    IF Bare(answer) THEN answer.state
    ELSE IF answer.ok = "false" \/ answer.state \in {"failed", "timed_out"} THEN "failed"
    ELSE IF answer.state = "pending" THEN "pending"
    ELSE IF answer.error THEN "failed"
    ELSE IF answer.state = "success" \/ answer.ok = "true" \/ answer.receipt THEN "success"
    ELSE "unconfirmed"

Proven(answer) ==
    /\ workload.receipts => ~Bare(answer) /\ answer.receipt
    /\ workload.readback => ~Bare(answer) /\ answer.readback

Delivered(answer) ==
    LET outcome == ProviderOutcome(answer)
    IN  IF outcome = "success" /\ ~Proven(answer) THEN "unconfirmed" ELSE outcome

\* Mutant of Denied: whatever is not a success is tried elsewhere.
DeniedUnlessSuccess(answer) == answer.form = "raised" \/ Delivered(answer) # "success"

Denied(answer) == answer.form = "raised" \/ Delivered(answer) = "failed"

Tried == {attempts[n].substrate : n \in DOMAIN attempts}

\* The next route of the plan is tried, whether or not its effect then lands.
Attempt(s) ==
    /\ delivered = "trying" /\ s \in Routes \ Tried
    /\ \A t \in Routes \ (Tried \cup {s}) : Precedes(s, t)
    /\ \E answer \in Replies : \E landed \in BOOLEAN :
         /\ attempts' = Append(attempts, [substrate |-> s, answer |-> answer, landed |-> landed])
         /\ delivered' = IF Denied(answer) THEN delivered ELSE Delivered(answer)
    /\ UNCHANGED <<workload, sighted>>

Exhaust ==
    /\ delivered = "trying" /\ Routes \subseteq Tried
    /\ delivered' = IF attempts = <<>> THEN "no_current_route" ELSE "route_exhausted"
    /\ UNCHANGED <<workload, sighted, attempts>>

FabricNext == Observe \/ Exhaust \/ \E s \in Substrates : Attempt(s)

FabricSpec == FabricInit /\ [][FabricNext]_fabricVars

-----------------------------------------------------------------------------
(* Properties.                                                             *)
\* The last substrate tried is the last that answered anything but a failure:
\* what was queued, is unclear or lacks the proof the workload asks for is never
\* tried elsewhere; it counts as delivered only with that proof, from a substrate
\* seen to do what the workload needs; the routes count as exhausted only when
\* each of them failed; and an unreliable observation is never preferred to a
\* reliable one (execute, plan).
AnswersAreFinal ==
    LET Answer(n) == attempts[n].answer
        Failed(answer) == \/ answer.form = "raised" \/ answer.state \in {"failed", "timed_out"}
                          \/ ~Bare(answer) /\ (answer.error \/ answer.ok = "false")
        Last == Answer(Len(attempts))
    IN  /\ \A n \in DOMAIN attempts :
             n < Len(attempts) \/ delivered = "route_exhausted" => Failed(Answer(n))
        /\ delivered = "route_exhausted" => \A s \in Routes : \E n \in DOMAIN attempts : attempts[n].substrate = s
        /\ delivered = "success" =>
             /\ attempts # <<>> /\ attempts[Len(attempts)].substrate \in Routes
             /\ Last.form # "raised" /\ Last.state \notin {"failed", "timed_out", "pending"}
             /\ workload.receipts => ~Bare(Last) /\ Last.receipt
             /\ workload.readback => ~Bare(Last) /\ Last.readback
        /\ \A n \in DOMAIN attempts : Warned(sighted[attempts[n].substrate]) =>
             \A s \in Routes : Warned(sighted[s]) \/ \E m \in 1..n : attempts[m].substrate = s

\* What _provider_outcome and execute say of themselves: an effect that took
\* place while the fabric did not learn of it, because the executor raised or
\* timed out, is not replayed on another substrate.
UnclearNotReplayed ==
    \A n \in DOMAIN attempts :
      LET attempt == attempts[n]
          unclear == attempt.answer.form = "raised" \/ attempt.answer.state = "timed_out"
      IN  unclear /\ attempt.landed => n = Len(attempts)
=============================================================================
