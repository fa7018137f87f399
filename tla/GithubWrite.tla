---------------------------- MODULE GithubWrite ----------------------------
(***************************************************************************)
(* A write to GitHub: the batch worker sends it to apex-github-router,     *)
(* which takes the resource's lease, compares the file for contents.put    *)
(* and calls apex-github-connector, which looks for an earlier success of  *)
(* the request, reads, mutates, reads back and records a receipt.          *)
(*                                                                         *)
(* The three run apart: the router stops waiting for a connector after 30  *)
(* seconds, the worker for a router after 40, and what is no longer waited *)
(* for goes on.  Leases lapse under their holders, and RPCs fail.          *)
(*                                                                         *)
(* Abstracted: the circuit breaker (module GithubCircuit; here it refuses  *)
(* when it likes), route planning, tokens, contents (a blob is named by    *)
(* the request that writes it), and the read retries of a preflight.       *)
(***************************************************************************)
EXTENDS Naturals, FiniteSets

CONSTANTS
  Requests,     \* request_id of each write
  Calls,        \* router invocations, each used once
  Resources,    \* lease keys: a file, a branch, an issue
  Kind,         \* "put", "branch" or "post" for each request
  Target,       \* the resource each request writes
  Expected,     \* expected_before_sha of each put
  MaxAttempts,  \* max_attempts of the batch item behind a request
  MaxFaults,    \* bound: failures, deaths, lapses and foreign pushes
  Absent,       \* no such file or branch
  Foreign,      \* a blob, or a branch head, pushed by somebody else
  NoRequest

Blobs == Requests \cup {Absent, Foreign}

ASSUME WriteAssumption ==
  /\ Kind \in [Requests -> {"put", "branch", "post"}]
  /\ Target \in [Requests -> Resources]
  /\ Expected \in [Requests -> Blobs]
  /\ MaxAttempts \in Nat \ {0}
  /\ MaxFaults \in Nat
  /\ NoRequest \notin Requests /\ Absent \notin Requests /\ Foreign \notin Requests
  /\ Absent # Foreign

VARIABLES
  caller,    \* what the batch worker makes of each request
  req,       \* the request of each call
  rpc,       \* where the router is in each call
  cpc,       \* where the connector is in each call
  base,      \* what the connector read before its mutation
  reply,     \* the connector's response
  answer,    \* the router's response
  lease,     \* github_connector_operation_leases_v2
  content,   \* what GitHub stores at each resource
  applied,   \* mutations GitHub made for each request
  receipts,  \* requests with a succeeded row in github_connector_receipts_v1
  outlived,  \* requests whose lease lapsed under them
  faults     \* failures so far

router == <<req, rpc, answer>>
connector == <<cpc, base, reply>>
github == <<content, applied>>
vars == <<caller, router, connector, lease, github, receipts, outlived, faults>>

Answers == {"none", "ok", "busy", "circuit_open", "preflight_failed", "stale",
            "transport", "failed", "ambiguous"}
SafeToRetry == {"busy", "circuit_open", "preflight_failed", "transport"}

TypeOK ==
  /\ caller \in [Requests -> {"new", "waiting", "retry", "ok", "failed", "ambiguous"}]
  /\ req \in [Calls -> Requests \cup {NoRequest}]
  /\ rpc \in [Calls -> {"unused", "start", "preflight", "send", "gateway", "settle",
                        "done", "dead"}]
  /\ cpc \in [Calls -> {"idle", "lookup", "read", "mutate", "verify", "receipt", "done"}]
  /\ base \in [Calls -> Blobs]
  /\ reply \in [Calls -> {"none", "ok", "failed", "ambiguous", "transport"}]
  /\ answer \in [Calls -> Answers]
  /\ lease \in [Resources -> [holder : Requests \cup {NoRequest}, live : BOOLEAN]]
  /\ content \in [Resources -> Blobs]
  /\ applied \in [Requests -> 0..MaxAttempts]
  /\ receipts \subseteq Requests
  /\ outlived \subseteq Requests
  /\ faults \in 0..MaxFaults

Init ==
  /\ caller = [r \in Requests |-> "new"]
  /\ req = [c \in Calls |-> NoRequest]
  /\ rpc = [c \in Calls |-> "unused"]
  /\ cpc = [c \in Calls |-> "idle"]
  /\ base = [c \in Calls |-> Absent]
  /\ reply = [c \in Calls |-> "none"]
  /\ answer = [c \in Calls |-> "none"]
  /\ lease = [k \in Resources |-> [holder |-> NoRequest, live |-> FALSE]]
  /\ content = [k \in Resources |-> Absent]
  /\ applied = [r \in Requests |-> 0]
  /\ receipts = {}
  /\ outlived = {}
  /\ faults = 0

-----------------------------------------------------------------------------
CallsOf(r) == {c \in Calls : req[c] = r}
Key(c) == Target[req[c]]
Fault == faults < MaxFaults /\ faults' = faults + 1

\* classify of the batch worker, for a write.
Verdict(r, a) ==
  CASE a \in {"ok", "ambiguous"} -> a
    [] a \in SafeToRetry /\ Cardinality(CallsOf(r)) < MaxAttempts -> "retry"
    [] OTHER -> "failed"

\* The router responds; the worker may have stopped listening.
Respond(c, a) ==
  /\ answer' = [answer EXCEPT ![c] = a]
  /\ rpc' = [rpc EXCEPT ![c] = "done"]
  /\ caller' = [caller EXCEPT ![req[c]] = IF @ = "waiting" THEN Verdict(req[c], a) ELSE @]
  /\ UNCHANGED req

RouterGoes(c, label) ==
  /\ rpc' = [rpc EXCEPT ![c] = label]
  /\ UNCHANGED <<req, answer, caller>>

\* Mutant of LeaseFree: the lease is not looked at.
LeaseIgnored(k, r) == TRUE

\* acquire_github_connector_lease_v2: a lapsed lease, or the request's own.
LeaseFree(k, r) == ~lease[k].live \/ lease[k].holder = r

\* release_github_connector_lease_v2: only under the request that holds it.
LeaseReleased(c) ==
  IF lease[Key(c)].holder = req[c] THEN [lease EXCEPT ![Key(c)].live = FALSE] ELSE lease

-----------------------------------------------------------------------------
(* The batch worker.                                                       *)

Send(r, c) ==
  /\ caller[r] \in {"new", "retry"}
  /\ rpc[c] = "unused"
  /\ caller' = [caller EXCEPT ![r] = "waiting"]
  /\ req' = [req EXCEPT ![c] = r]
  /\ rpc' = [rpc EXCEPT ![c] = "start"]
  /\ UNCHANGED <<answer, connector, lease, github, receipts, faults, outlived>>

\* routerCall's 40 seconds are over: router_transport_failure, never retried.
WorkerGivesUp(r) ==
  /\ caller[r] = "waiting"
  /\ Fault
  /\ caller' = [caller EXCEPT ![r] = "failed"]
  /\ UNCHANGED <<router, connector, lease, github, receipts, outlived>>

-----------------------------------------------------------------------------
(* The router.                                                             *)

CircuitRefuses(c) ==
  /\ rpc[c] = "start"
  /\ Fault
  /\ Respond(c, "circuit_open")
  /\ UNCHANGED <<connector, lease, github, receipts, outlived>>

TakeLease(c) ==
  /\ rpc[c] = "start"
  /\ LeaseFree(Key(c), req[c])
  /\ lease' = [lease EXCEPT ![Key(c)] = [holder |-> req[c], live |-> TRUE]]
  /\ RouterGoes(c, IF Kind[req[c]] = "put" THEN "preflight" ELSE "send")
  /\ UNCHANGED <<connector, github, receipts, faults, outlived>>

LeaseBusy(c) ==
  /\ rpc[c] = "start"
  /\ ~LeaseFree(Key(c), req[c])
  /\ Respond(c, "busy")
  /\ UNCHANGED <<connector, lease, github, receipts, faults, outlived>>

\* Compare before write.
Preflight(c) ==
  /\ rpc[c] = "preflight"
  /\ \/ /\ content[Key(c)] = Expected[req[c]]
        /\ RouterGoes(c, "send")
        /\ UNCHANGED lease
     \/ /\ content[Key(c)] # Expected[req[c]]
        /\ Respond(c, "stale")
        /\ lease' = LeaseReleased(c)
  /\ UNCHANGED <<connector, github, receipts, faults, outlived>>

PreflightFails(c) ==
  /\ rpc[c] = "preflight"
  /\ Fault
  /\ \E a \in {"preflight_failed", "failed"} : Respond(c, a)
  /\ lease' \in {lease, LeaseReleased(c)}
  /\ UNCHANGED <<connector, github, receipts, outlived>>

\* gatewayCall: one connector invocation, never a second for a write.
CallGateway(c) ==
  /\ rpc[c] = "send"
  /\ RouterGoes(c, "gateway")
  /\ cpc' = [cpc EXCEPT ![c] = "lookup"]
  /\ UNCHANGED <<base, reply, lease, github, receipts, faults, outlived>>

GatewayReplies(c) ==
  /\ rpc[c] = "gateway"
  /\ reply[c] # "none"
  /\ RouterGoes(c, "settle")
  /\ UNCHANGED <<connector, lease, github, receipts, faults, outlived>>

\* The 30 seconds are over; the connector goes on.
GatewayTimesOut(c) ==
  /\ rpc[c] = "gateway"
  /\ reply[c] = "none"
  /\ Fault
  /\ reply' = [reply EXCEPT ![c] = "transport"]
  /\ RouterGoes(c, "settle")
  /\ UNCHANGED <<cpc, base, lease, github, receipts, outlived>>

\* Circuit recorded, decision persisted, lease released, response sent.
Settle(c) ==
  /\ rpc[c] = "settle"
  /\ Respond(c, reply[c])
  /\ lease' = LeaseReleased(c)
  /\ UNCHANGED <<connector, github, receipts, faults, outlived>>

\* One of these writes fails: after a success the decision's failure is told
\* apart as ambiguous, the circuit's and the lease's are not.
SettleFails(c) ==
  /\ rpc[c] = "settle"
  /\ Fault
  /\ \E a \in {"failed"} \cup (IF reply[c] = "ok" THEN {"ambiguous"} ELSE {}) : Respond(c, a)
  /\ lease' \in {lease, LeaseReleased(c)}
  /\ UNCHANGED <<connector, github, receipts, outlived>>

RouterDies(c) ==
  /\ rpc[c] \in {"start", "preflight", "send", "gateway", "settle"}
  /\ Fault
  /\ RouterGoes(c, "dead")
  /\ UNCHANGED <<connector, lease, github, receipts, outlived>>

-----------------------------------------------------------------------------
(* The connector.                                                          *)

ConnectorGoes(c, label) == cpc' = [cpc EXCEPT ![c] = label] /\ UNCHANGED reply

\* A response reaches the router only while it waits.
Reply(c, a) ==
  /\ cpc' = [cpc EXCEPT ![c] = "done"]
  /\ reply' = [reply EXCEPT ![c] = IF @ = "none" THEN a ELSE @]

\* priorSuccessfulWrite
Seen(r) == r \in receipts

Lookup(c) ==
  /\ cpc[c] = "lookup"
  /\ IF Seen(req[c]) THEN Reply(c, "ok") ELSE ConnectorGoes(c, "read")
  /\ UNCHANGED <<caller, router, base, lease, github, receipts, faults, outlived>>

\* A put re-reads the file's sha and a branch creation looks for the branch;
\* it succeeds at once if the branch is where it would be created.
Read(c) ==
  /\ cpc[c] = "read"
  /\ base' = [base EXCEPT ![c] = content[Key(c)]]
  /\ CASE Kind[req[c]] = "branch" /\ content[Key(c)] \in Requests -> ConnectorGoes(c, "receipt")
       [] Kind[req[c]] = "branch" /\ content[Key(c)] = Foreign    -> Reply(c, "failed")
       [] OTHER                                                   -> ConnectorGoes(c, "mutate")
  /\ UNCHANGED <<caller, router, lease, github, receipts, faults, outlived>>

\* GitHub refuses a put whose sha is not the current one, and a branch that
\* exists; it takes any comment or issue.
GithubTakes(c) == Kind[req[c]] = "post" \/ content[Key(c)] = base[c]

Applied(c) ==
  /\ content' = [content EXCEPT ![Key(c)] = req[c]]
  /\ applied' = [applied EXCEPT ![req[c]] = @ + 1]

Mutate(c) ==
  /\ cpc[c] = "mutate"
  /\ \/ GithubTakes(c) /\ Applied(c) /\ ConnectorGoes(c, "verify")
     \/ ~GithubTakes(c) /\ UNCHANGED github /\ Reply(c, "failed")
  /\ UNCHANGED <<caller, router, base, lease, receipts, faults, outlived>>

\* The mutating request fails, before or after GitHub made the change.
MutateFails(c) ==
  /\ cpc[c] = "mutate"
  /\ Fault
  /\ \/ GithubTakes(c) /\ Applied(c)
     \/ UNCHANGED github
  /\ Reply(c, "failed")
  /\ UNCHANGED <<caller, router, base, lease, receipts, outlived>>

\* The readback: a comment is read by its id, a file or branch by its name.
ReadBack(c) ==
  CASE Kind[req[c]] = "post"   -> TRUE
    [] Kind[req[c]] = "branch" -> content[Key(c)] \in Requests
    [] Kind[req[c]] = "put"    -> content[Key(c)] = req[c]

Verify(c) ==
  /\ cpc[c] = "verify"
  /\ IF ReadBack(c) THEN ConnectorGoes(c, "receipt") ELSE Reply(c, "failed")
  /\ UNCHANGED <<caller, router, base, lease, github, receipts, faults, outlived>>

Record(c) ==
  /\ cpc[c] = "receipt"
  /\ receipts' = receipts \cup {req[c]}
  /\ Reply(c, "ok")
  /\ UNCHANGED <<caller, router, base, lease, github, faults, outlived>>

\* Mutant of RecordFails: the failure is swallowed.
RecordSwallowed(c) ==
  /\ cpc[c] = "receipt"
  /\ Fault
  /\ Reply(c, "ok")
  /\ UNCHANGED <<caller, router, base, lease, github, receipts, outlived>>

\* receipt_persistence_failed_after_github_success
RecordFails(c) ==
  /\ cpc[c] = "receipt"
  /\ Fault
  /\ Reply(c, "ambiguous")
  /\ UNCHANGED <<caller, router, base, lease, github, receipts, outlived>>

\* An exception, a failed lookup or read, or the death of the isolate.
ConnectorFails(c) ==
  /\ cpc[c] \in {"lookup", "read", "verify", "receipt"}
  /\ Fault
  /\ Reply(c, "failed")
  /\ UNCHANGED <<caller, router, base, lease, github, receipts, outlived>>

-----------------------------------------------------------------------------
(* Time, and everybody else.                                               *)

LeaseLapses(k) ==
  /\ lease[k].live
  /\ Fault
  /\ lease' = [lease EXCEPT ![k].live = FALSE]
  /\ outlived' = outlived \cup {lease[k].holder}
  /\ UNCHANGED <<caller, router, connector, github, receipts>>

ForeignPush(k) ==
  /\ content[k] # Foreign
  /\ Fault
  /\ content' = [content EXCEPT ![k] = Foreign]
  /\ UNCHANGED <<caller, router, connector, lease, applied, receipts, outlived>>

Router(c) ==
  \/ CircuitRefuses(c) \/ TakeLease(c) \/ LeaseBusy(c)
  \/ Preflight(c) \/ PreflightFails(c)
  \/ CallGateway(c) \/ GatewayReplies(c) \/ GatewayTimesOut(c)
  \/ Settle(c) \/ SettleFails(c) \/ RouterDies(c)

Connector(c) ==
  \/ Lookup(c) \/ Read(c) \/ Mutate(c) \/ MutateFails(c) \/ Verify(c)
  \/ Record(c) \/ RecordFails(c) \/ ConnectorFails(c)

Next ==
  \/ \E r \in Requests, c \in Calls : Send(r, c)
  \/ \E r \in Requests : WorkerGivesUp(r)
  \/ \E c \in Calls : Router(c) \/ Connector(c)
  \/ \E k \in Resources : LeaseLapses(k) \/ ForeignPush(k)

Spec == Init /\ [][Next]_vars

-----------------------------------------------------------------------------
(* Safety.                                                                 *)

\* A write is reported done only when GitHub made the change (or had made it
\* for a branch) and the receipt of it is stored: a receipt failure, a replay
\* of an earlier success or a late reply never promotes anything else.
OkIsRecorded ==
  \A c \in Calls : answer[c] = "ok" =>
    req[c] \in receipts /\ (applied[req[c]] > 0 \/ Kind[req[c]] = "branch")

\* A put replaces another request's version that it does not expect only if
\* that write was abandoned by its router, or a lease lapsed under one of the
\* two: for all writes the router still waits for, the lease closes the gap
\* between preflight and the connector's re-read.
LostUpdatesAreAbandoned ==
  [][\A c \in Calls :
       LET lost == content[Key(c)] IN
       /\ cpc[c] = "mutate" /\ cpc'[c] = "verify" /\ Kind[req[c]] = "put"
       /\ rpc[c] = "gateway"
       /\ lost \in Requests \ {req[c], Expected[req[c]]}
       => \/ \E d \in CallsOf(lost) : answer[d] \in {"transport", "failed"}
          \/ {lost, req[c]} \cap outlived # {}]_vars

-----------------------------------------------------------------------------
(* What the repository says and the code does not do.                      *)

\* "writes are not automatically retried, because a retry after an ambiguous
\* external mutation can duplicate side effects".
NoDuplicateEffect == \A r \in Requests : applied[r] <= 1

=============================================================================
