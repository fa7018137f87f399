------------------------- MODULE GithubWriteProofs -------------------------
(* Proofs about GithubWrite: for any requests, calls and resources, however *)
(* often anything fails, lapses, dies or comes late.                        *)
EXTENDS GithubWrite, TLAPS

-----------------------------------------------------------------------------
(* What is where, of a call and of a request.                               *)
WriteTypeOK ==
  /\ req \in [Calls -> Requests \cup {NoRequest}]
  /\ rpc \in [Calls -> {"unused", "start", "preflight", "send", "gateway", "settle",
                        "done", "dead"}]
  /\ cpc \in [Calls -> {"idle", "lookup", "read", "mutate", "verify", "receipt", "done"}]
  /\ reply \in [Calls -> {"none", "ok", "failed", "ambiguous", "transport"}]
  /\ answer \in [Calls -> Answers]
  /\ content \in [Resources -> Blobs]
  /\ applied \in [Requests -> Nat]
  /\ receipts \subseteq Requests

\* GitHub made the change, or had made it for a branch.
Made(r) == applied[r] > 0 \/ Kind[r] = "branch"

\* A call that is not used yet is nobody's; a used one keeps its request.
CallKnown(c) ==
  /\ rpc[c] = "unused" => cpc[c] = "idle" /\ reply[c] = "none" /\ answer[c] = "none"
  /\ rpc[c] # "unused" => req[c] \in Requests

\* What the connector has found out of its own change, and what it tells.
CallHonest(c) ==
  /\ cpc[c] \in {"verify", "receipt"} => Made(req[c])
  /\ reply[c] = "ok" => req[c] \in receipts
  /\ answer[c] = "ok" => req[c] \in receipts

WriteInv ==
  /\ WriteTypeOK
  /\ \A c \in Calls : CallKnown(c) /\ CallHonest(c)
  /\ \A r \in receipts : Made(r)

LEMMA WriteBegins == Init => WriteInv
  BY DEF Init, WriteInv, WriteTypeOK, CallKnown, CallHonest, Blobs, Answers

\* A step of one call that takes nothing back leaves the others honest.
LEMMA OthersStayHonest ==
  ASSUME WriteInv, NEW c \in Calls, WriteTypeOK',
         receipts \subseteq receipts', \A r \in Requests : Made(r) => Made(r)',
         \A d \in Calls \ {c} :
           req'[d] = req[d] /\ rpc'[d] = rpc[d] /\ cpc'[d] = cpc[d]
             /\ reply'[d] = reply[d] /\ answer'[d] = answer[d],
         CallKnown(c)', CallHonest(c)', \A r \in receipts' : r \in receipts \/ Made(r)'
  PROVE  WriteInv'
  <1>1. \A d \in Calls \ {c} : CallKnown(d)'
    BY DEF WriteInv, CallKnown
  <1>2. \A d \in Calls \ {c} : CallHonest(d)'
    <2> SUFFICES ASSUME NEW d \in Calls \ {c} PROVE CallHonest(d)'
      OBVIOUS
    <2>1. cpc[d] \in {"verify", "receipt"} => req[d] \in Requests
      BY DEF WriteInv, CallKnown
    <2> QED  BY <2>1 DEF WriteInv, CallHonest
  <1>3. \A r \in receipts' : Made(r)'
    BY DEF WriteInv, WriteTypeOK
  <1> QED  BY <1>1, <1>2, <1>3 DEF WriteInv

\* The router hands on what the connector told it, and makes up no success.
LEMMA RouterSteps == ASSUME WriteInv, NEW c \in Calls, Router(c) PROVE WriteInv'
  <1>1. /\ UNCHANGED <<req, github, receipts>>
        /\ rpc[c] # "unused"
    BY DEF Router, CircuitRefuses, TakeLease, LeaseBusy, Preflight, PreflightFails, CallGateway,
           GatewayReplies, GatewayTimesOut, Settle, SettleFails, RouterDies, Respond, RouterGoes,
           connector, github
  <1>2. PICK label \in {"preflight", "send", "gateway", "settle", "done", "dead"} :
          rpc' = [rpc EXCEPT ![c] = label]
    BY DEF Router, CircuitRefuses, TakeLease, LeaseBusy, Preflight, PreflightFails, CallGateway,
           GatewayReplies, GatewayTimesOut, Settle, SettleFails, RouterDies, Respond, RouterGoes
  <1>3. \/ answer' = answer
        \/ \E a \in Answers : answer' = [answer EXCEPT ![c] = a] /\ (a = "ok" => reply[c] = "ok")
    BY DEF Router, CircuitRefuses, TakeLease, LeaseBusy, Preflight, PreflightFails, CallGateway,
           GatewayReplies, GatewayTimesOut, Settle, SettleFails, RouterDies, Respond, RouterGoes,
           Answers, WriteInv, WriteTypeOK
  <1>4. reply' = reply \/ reply' = [reply EXCEPT ![c] = "transport"]
    BY DEF Router, CircuitRefuses, TakeLease, LeaseBusy, Preflight, PreflightFails, CallGateway,
           GatewayReplies, GatewayTimesOut, Settle, SettleFails, RouterDies, connector
  <1>5. cpc' = cpc \/ cpc' = [cpc EXCEPT ![c] = "lookup"]
    BY DEF Router, CircuitRefuses, TakeLease, LeaseBusy, Preflight, PreflightFails, CallGateway,
           GatewayReplies, GatewayTimesOut, Settle, SettleFails, RouterDies, connector
  <1>6. WriteTypeOK'
    BY <1>1, <1>2, <1>3, <1>4, <1>5 DEF WriteInv, WriteTypeOK, github
  <1>7. \A r \in Requests : Made(r) => Made(r)'
    BY <1>1 DEF Made, github
  <1>8. CallKnown(c)'
    BY <1>1, <1>2 DEF WriteInv, WriteTypeOK, CallKnown
  <1>9. CallHonest(c)'
    BY <1>1, <1>3, <1>4, <1>5, <1>7 DEF WriteInv, WriteTypeOK, CallKnown, CallHonest
  <1>10. \A d \in Calls \ {c} :
           req'[d] = req[d] /\ rpc'[d] = rpc[d] /\ cpc'[d] = cpc[d]
             /\ reply'[d] = reply[d] /\ answer'[d] = answer[d]
    BY <1>1, <1>2, <1>3, <1>4, <1>5 DEF WriteInv, WriteTypeOK
  <1> QED  BY <1>1, <1>6, <1>7, <1>8, <1>9, <1>10, OthersStayHonest

\* The connector tells of a success when the receipt is stored, and stores the
\* receipt after its change was made.
LEMMA ConnectorSteps == ASSUME WriteInv, NEW c \in Calls, Connector(c) PROVE WriteInv'
  <1>1. UNCHANGED <<req, rpc, answer>> /\ cpc[c] # "idle"
    BY DEF Connector, Lookup, Read, Mutate, MutateFails, Verify, Record, RecordFails,
           ConnectorFails, router
  <1>2. req[c] \in Requests /\ rpc[c] # "unused"
    BY <1>1 DEF WriteInv, CallKnown
  <1>3. \/ content' = content /\ applied' = applied
        \/ cpc[c] = "mutate" /\ Applied(c)
    BY DEF Connector, Lookup, Read, Mutate, MutateFails, Verify, Record, RecordFails,
           ConnectorFails, github
  <1>4. /\ content' \in [Resources -> Blobs] /\ applied' \in [Requests -> Nat]
        /\ \A r \in Requests : Made(r) => Made(r)'
        /\ Applied(c) => Made(req[c])'
    <2>1. content \in [Resources -> Blobs] /\ applied \in [Requests -> Nat]
      BY DEF WriteInv, WriteTypeOK
    <2>2. CASE content' = content /\ applied' = applied /\ ~Applied(c)
      BY <2>1, <2>2 DEF Made
    <2>3. CASE Applied(c)
      <3>1. applied' = [applied EXCEPT ![req[c]] = applied[req[c]] + 1]
        BY <2>3 DEF Applied
      <3>2. applied' \in [Requests -> Nat] /\ applied'[req[c]] > 0
        BY <1>2, <2>1, <3>1
      <3>3. \A r \in Requests : applied[r] > 0 => applied'[r] > 0
        BY <1>2, <2>1, <3>1
      <3>4. content' \in [Resources -> Blobs]
        BY <1>2, <2>1, <2>3 DEF Applied, Blobs
      <3> QED  BY <1>1, <3>2, <3>3, <3>4 DEF Made
    <2> QED  BY <1>3, <2>2, <2>3
  <1>5. receipts' = receipts \/ (cpc[c] = "receipt" /\ receipts' = receipts \cup {req[c]})
    BY DEF Connector, Lookup, Read, Mutate, MutateFails, Verify, Record, RecordFails, ConnectorFails
  <1>6. \/ \E label \in {"read", "mutate", "verify", "receipt"} :
             /\ cpc' = [cpc EXCEPT ![c] = label] /\ reply' = reply
             /\ label \in {"verify", "receipt"} => Made(req[c])'
        \/ \E a \in {"ok", "failed", "ambiguous"} :
             /\ cpc' = [cpc EXCEPT ![c] = "done"]
             /\ reply' = [reply EXCEPT ![c] = IF @ = "none" THEN a ELSE @]
             /\ a = "ok" => req[c] \in receipts'
    <2>1. CASE Lookup(c)
      BY <2>1 DEF Lookup, Reply, ConnectorGoes, Seen
    <2>2. CASE Read(c)
      <3>1. CASE Kind[req[c]] = "branch" /\ content[Key(c)] \in Requests /\ ConnectorGoes(c, "receipt")
        BY <1>1, <3>1 DEF ConnectorGoes, Made
      <3>2. CASE ConnectorGoes(c, "mutate") \/ Reply(c, "failed")
        BY <3>2 DEF ConnectorGoes, Reply
      <3> QED  BY <2>2, <3>1, <3>2 DEF Read
    <2>3. CASE Mutate(c)
      BY <2>3, <1>4 DEF Mutate, Reply, ConnectorGoes
    <2>4. CASE Verify(c)
      <3>1. Made(req[c])'
        BY <1>1, <1>2, <1>4, <2>4 DEF Verify, WriteInv, CallHonest, Made
      <3> QED  BY <2>4, <3>1 DEF Verify, Reply, ConnectorGoes
    <2>5. CASE Record(c)
      BY <2>5 DEF Record, Reply
    <2>6. CASE MutateFails(c) \/ RecordFails(c) \/ ConnectorFails(c)
      BY <2>6 DEF MutateFails, RecordFails, ConnectorFails, Reply
    <2> QED  BY <2>1, <2>2, <2>3, <2>4, <2>5, <2>6 DEF Connector
  <1>7. WriteTypeOK'
    BY <1>1, <1>2, <1>4, <1>5, <1>6 DEF WriteInv, WriteTypeOK
  <1>8. CallKnown(c)'
    BY <1>1, <1>2 DEF WriteInv, CallKnown
  <1>9. CallHonest(c)'
    BY <1>1, <1>5, <1>6 DEF WriteInv, WriteTypeOK, CallHonest
  <1>10. \A r \in receipts' : r \in receipts \/ Made(r)'
    BY <1>2, <1>4, <1>5 DEF WriteInv, CallHonest
  <1>11. \A d \in Calls \ {c} :
           req'[d] = req[d] /\ rpc'[d] = rpc[d] /\ cpc'[d] = cpc[d]
             /\ reply'[d] = reply[d] /\ answer'[d] = answer[d]
    BY <1>1, <1>6 DEF WriteInv, WriteTypeOK
  <1> QED  BY <1>4, <1>5, <1>7, <1>8, <1>9, <1>10, <1>11, OthersStayHonest

LEMMA SendSteps == ASSUME WriteInv, NEW r \in Requests, NEW c \in Calls, Send(r, c) PROVE WriteInv'
  <1>1. /\ rpc[c] = "unused" /\ req' = [req EXCEPT ![c] = r] /\ rpc' = [rpc EXCEPT ![c] = "start"]
        /\ UNCHANGED <<answer, cpc, reply, content, applied, receipts>>
    BY DEF Send, connector, github
  <1>2. WriteTypeOK' /\ \A q \in Requests : Made(q) => Made(q)'
    BY <1>1 DEF WriteInv, WriteTypeOK, Made
  <1>3. CallKnown(c)' /\ CallHonest(c)'
    BY <1>1 DEF WriteInv, WriteTypeOK, CallKnown, CallHonest
  <1> QED  BY <1>1, <1>2, <1>3, OthersStayHonest DEF WriteInv, WriteTypeOK

LEMMA WriteStep == WriteInv /\ [Next]_vars => WriteInv'
  <1> SUFFICES ASSUME WriteInv, [Next]_vars PROVE WriteInv'
    OBVIOUS
  <1>1. CASE \/ UNCHANGED vars
             \/ \E r \in Requests : WorkerGivesUp(r)
             \/ \E k \in Resources : LeaseLapses(k) \/ ForeignPush(k)
    <2>1. /\ UNCHANGED <<req, rpc, cpc, reply, answer, applied, receipts>>
          /\ content' = content \/ \E k \in Resources : content' = [content EXCEPT ![k] = Foreign]
      BY <1>1 DEF vars, WorkerGivesUp, LeaseLapses, ForeignPush, router, connector, github
    <2> QED  BY <2>1 DEF WriteInv, WriteTypeOK, CallKnown, CallHonest, Made, Blobs
  <1> QED  BY <1>1, SendSteps, RouterSteps, ConnectorSteps DEF Next

\* Whatever is lost, lapses or comes late: a write that the router reports done
\* was made at GitHub and its receipt is stored.
THEOREM SuccessIsRecorded == Spec => []OkIsRecorded
  <1>1. WriteInv => OkIsRecorded
    BY DEF WriteInv, CallHonest, OkIsRecorded, Made
  <1> QED  BY <1>1, WriteStep, WriteBegins, PTL DEF Spec

-----------------------------------------------------------------------------
(* What the lease protects.                                                 *)
Callers == {"new", "waiting", "retry", "ok", "failed", "ambiguous"}
Leases == [holder : Requests \cup {NoRequest}, live : BOOLEAN]

Busy(c) == cpc[c] \notin {"idle", "done"}
Open(c) == rpc[c] \notin {"unused", "done"}

\* Where router and connector are of one call: a connector that is not done
\* has told nothing, so its router, if it answered, reported no success.
Abreast(c) ==
  /\ cpc[c] # "idle" => rpc[c] \in {"gateway", "settle", "done", "dead"}
  /\ rpc[c] \in {"start", "preflight", "send"} => reply[c] = "none"
  /\ Busy(c) => reply[c] \in {"none", "transport"}
  /\ rpc[c] = "settle" => reply[c] # "none"
  /\ Open(c) => answer[c] = "none"
  /\ Busy(c) /\ rpc[c] = "done" => answer[c] \in {"transport", "failed"}

\* A request has one call that did not answer, and is not sent again.
Alone(c) ==
  Open(c) => /\ caller[req[c]] \in {"waiting", "failed"}
             /\ \A d \in Calls : Open(d) /\ req[d] = req[c] => d = c

\* From the lease to the answer, and for good if the router dies on the way.
Held(c) ==
  \/ rpc[c] \in {"preflight", "send", "gateway", "settle"}
  \/ rpc[c] = "dead" /\ cpc[c] # "idle"

Holds(c) ==
  Held(c) /\ req[c] \notin outlived => lease[Key(c)] = [holder |-> req[c], live |-> TRUE]

Abandoned(r) == \E d \in CallsOf(r) : answer[d] \in {"transport", "failed"}

\* Who may have written since the preflight of a put.
Writers(c) == {Expected[req[c]], Foreign, req[c]} \cup outlived \cup {r \in Requests : Abandoned(r)}
Guarded(c) ==
  rpc[c] \in {"send", "gateway"} /\ Kind[req[c]] = "put" /\ req[c] \notin outlived
    => content[Key(c)] \in Writers(c)

LeaseInv ==
  /\ WriteInv
  /\ caller \in [Requests -> Callers] /\ lease \in [Resources -> Leases]
  /\ \A c \in Calls : Abreast(c) /\ Alone(c) /\ Holds(c) /\ Guarded(c)

LEMMA LeaseBegins == Init => LeaseInv
  <1> SUFFICES ASSUME Init PROVE LeaseInv
    OBVIOUS
  <1>1. WriteInv
    BY WriteBegins
  <1>2. caller \in [Requests -> Callers] /\ lease \in [Resources -> Leases]
    BY DEF Init, Callers, Leases
  <1>3. \A c \in Calls : rpc[c] = "unused" /\ cpc[c] = "idle" /\ answer[c] = "none"
    BY DEF Init
  <1> QED  BY <1>1, <1>2, <1>3 DEF LeaseInv, Abreast, Busy, Alone, Open, Holds, Held, Guarded

\* Everything a router's step does, whichever it is.
RouterMoves(c, label) ==
  /\ rpc[c] \in {"start", "preflight", "send", "gateway", "settle"}
  /\ label \in {"preflight", "send", "gateway", "settle", "done", "dead"}
  /\ label \in {"preflight", "send"} => rpc[c] \in {"start", "preflight"}
  /\ label = "done" => rpc[c] \in {"start", "preflight", "settle"}
  /\ rpc' = [rpc EXCEPT ![c] = label]
  /\ UNCHANGED <<req, content, applied, receipts, outlived>>
  /\ label = "done" =>
       \E a \in Answers :
         /\ answer' = [answer EXCEPT ![c] = a]
         /\ caller' = [caller EXCEPT ![req[c]] = IF @ = "waiting" THEN Verdict(req[c], a) ELSE @]
         /\ rpc[c] = "settle" => a \in {reply[c], "failed"} \/ reply[c] = "ok"
  /\ label # "done" => answer' = answer /\ caller' = caller
  /\ label = "settle" => reply'[c] # "none"
  /\ rpc[c] = "settle" => reply' = reply /\ label \in {"done", "dead"}
  /\ \/ reply' = reply
     \/ rpc[c] = "gateway" /\ reply[c] = "none" /\ reply' = [reply EXCEPT ![c] = "transport"]
  /\ \/ cpc' = cpc /\ (label = "gateway" => FALSE)
     \/ rpc[c] = "send" /\ label = "gateway" /\ cpc' = [cpc EXCEPT ![c] = "lookup"]
  /\ \/ lease' = lease /\ (rpc[c] = "start" => label \in {"done", "dead"})
     \/ lease' = LeaseReleased(c) /\ label = "done"
     \/ /\ rpc[c] = "start" /\ LeaseFree(Key(c), req[c]) /\ label \in {"preflight", "send"}
        /\ lease' = [lease EXCEPT ![Key(c)] = [holder |-> req[c], live |-> TRUE]]
  /\ label = "send" /\ Kind[req[c]] = "put" => content[Key(c)] = Expected[req[c]]

LEMMA RouterStepsMove ==
  ASSUME WriteInv, NEW c \in Calls, Router(c)
  PROVE  \E label : RouterMoves(c, label)
  <1> USE DEF RouterMoves, RouterGoes, Respond, Answers, connector, github
  <1>1. CircuitRefuses(c) \/ LeaseBusy(c) \/ PreflightFails(c) => RouterMoves(c, "done")
    <2>1. CircuitRefuses(c) \/ LeaseBusy(c) => RouterMoves(c, "done")
      BY DEF CircuitRefuses, LeaseBusy
    <2>2. PreflightFails(c) => RouterMoves(c, "done")
      BY DEF PreflightFails
    <2> QED  BY <2>1, <2>2
  <1>2. TakeLease(c) => RouterMoves(c, "preflight") \/ RouterMoves(c, "send")
    BY DEF TakeLease
  <1>3. Preflight(c) => RouterMoves(c, "send") \/ RouterMoves(c, "done")
    BY DEF Preflight
  <1>4. CallGateway(c) => RouterMoves(c, "gateway")
    BY DEF CallGateway
  <1>5. GatewayReplies(c) \/ GatewayTimesOut(c) => RouterMoves(c, "settle")
    BY DEF GatewayReplies, GatewayTimesOut, WriteInv, WriteTypeOK
  <1>6. Settle(c) => RouterMoves(c, "done")
    BY DEF Settle, WriteInv, WriteTypeOK
  <1>7. SettleFails(c) => RouterMoves(c, "done")
    BY DEF SettleFails
  <1>8. RouterDies(c) => RouterMoves(c, "dead")
    BY DEF RouterDies
  <1> QED  BY <1>1, <1>2, <1>3, <1>4, <1>5, <1>6, <1>7, <1>8 DEF Router

\* Whom a put must expect to have been overtaken by: no fewer with time.
LEMMA WritersGrow ==
  ASSUME outlived \subseteq outlived', NEW c \in Calls, req'[c] = req[c],
         \A d \in Calls : answer[d] \in {"transport", "failed"} =>
           answer'[d] = answer[d] /\ req'[d] = req[d]
  PROVE  Writers(c) \subseteq Writers(c)'
  BY DEF Writers, Abandoned, CallsOf

\* A release concerns the lease of one resource, and only its holder's.
LEMMA Released ==
  ASSUME lease \in [Resources -> Leases], NEW c, Key(c) \in Resources
  PROVE  /\ LeaseReleased(c) \in [Resources -> Leases]
         /\ \A k \in Resources \ {Key(c)} : LeaseReleased(c)[k] = lease[k]
         /\ lease[Key(c)].holder # req[c] => LeaseReleased(c) = lease
  <1>1. [lease[Key(c)] EXCEPT !.live = FALSE] \in Leases
    BY DEF Leases
  <1>2. LeaseReleased(c) \in {lease, [lease EXCEPT ![Key(c)] = [lease[Key(c)] EXCEPT !.live = FALSE]]}
    BY DEF LeaseReleased
  <1> QED  BY <1>1, <1>2 DEF LeaseReleased

LEMMA RouterKeepsLease ==
  ASSUME LeaseInv, NEW c \in Calls, Router(c)
  PROVE  LeaseInv'
  <1>1. PICK label : RouterMoves(c, label)
    BY RouterStepsMove DEF LeaseInv
  <1>2. WriteInv' /\ WriteInv
    BY RouterSteps DEF LeaseInv
  <1>3. /\ rpc \in [Calls -> {"unused", "start", "preflight", "send", "gateway", "settle",
                              "done", "dead"}]
        /\ cpc \in [Calls -> {"idle", "lookup", "read", "mutate", "verify", "receipt", "done"}]
        /\ reply \in [Calls -> {"none", "ok", "failed", "ambiguous", "transport"}]
        /\ answer \in [Calls -> Answers]
        /\ caller \in [Requests -> Callers] /\ lease \in [Resources -> Leases]
        /\ req[c] \in Requests /\ Key(c) \in Resources
    BY <1>1, <1>2, WriteAssumption DEF RouterMoves, LeaseInv, WriteInv, WriteTypeOK, CallKnown, Key
  <1>4. Open(c) /\ Abreast(c) /\ Alone(c) /\ Holds(c) /\ Guarded(c)
    BY <1>1 DEF RouterMoves, Open, LeaseInv
  <1>5. caller' \in [Requests -> Callers] /\ lease' \in [Resources -> Leases]
    <2>1. \A r, a : Verdict(r, a) \in {"ok", "ambiguous", "retry", "failed"}
      BY DEF Verdict
    <2>2. caller' \in [Requests -> Callers]
      BY <1>1, <1>3, <2>1 DEF RouterMoves, Callers
    <2>3. lease' \in [Resources -> Leases]
      <3>1. [holder |-> req[c], live |-> TRUE] \in Leases
        BY <1>3 DEF Leases
      <3>2. lease' \in {lease, LeaseReleased(c),
                       [lease EXCEPT ![Key(c)] = [holder |-> req[c], live |-> TRUE]]}
        BY <1>1 DEF RouterMoves
      <3>3. [lease EXCEPT ![Key(c)] = [holder |-> req[c], live |-> TRUE]] \in [Resources -> Leases]
        BY <1>3, <3>1
      <3>4. lease \in [Resources -> Leases] /\ LeaseReleased(c) \in [Resources -> Leases]
        BY <1>3, Released
      <3> QED  BY <3>2, <3>3, <3>4
    <2> QED  BY <2>2, <2>3
  <1>6. \A d \in Calls \ {c} :
           /\ rpc'[d] = rpc[d] /\ cpc'[d] = cpc[d] /\ reply'[d] = reply[d] /\ answer'[d] = answer[d]
           /\ Open(d) => req[d] # req[c] /\ caller'[req[d]] = caller[req[d]]
    <2>1. \A d \in Calls \ {c} :
            rpc'[d] = rpc[d] /\ cpc'[d] = cpc[d] /\ reply'[d] = reply[d] /\ answer'[d] = answer[d]
      BY <1>1, <1>3 DEF RouterMoves
    <2>2. \A d \in Calls \ {c} : Open(d) => req[d] # req[c]
      BY <1>4 DEF Alone
    <2>3. \A r \in Requests \ {req[c]} : caller'[r] = caller[r]
      BY <1>1, <1>3 DEF RouterMoves
    <2>4. \A d \in Calls \ {c} : Open(d) => req[d] \in Requests
      BY <1>2 DEF WriteInv, CallKnown, Open
    <2> QED  BY <2>1, <2>2, <2>3, <2>4
  <1>7. rpc'[c] = label /\ req' = req /\ outlived' = outlived /\ content' = content
    BY <1>1, <1>3 DEF RouterMoves
  <1>8. \A d \in Calls : Abreast(d)'
    <2>1. \A d \in Calls \ {c} : Abreast(d)'
      BY <1>6 DEF LeaseInv, Abreast, Busy, Open
    <2>2. Abreast(c)'
      <3>1. /\ cpc[c] # "idle" => rpc[c] \in {"gateway", "settle"}
            /\ rpc[c] \in {"start", "preflight", "send"} => reply[c] = "none"
            /\ Busy(c) => reply[c] \in {"none", "transport"}
            /\ rpc[c] = "settle" => reply[c] # "none"
            /\ answer[c] = "none"
        BY <1>1, <1>4 DEF RouterMoves, Abreast, Open
      <3>2. CASE label = "gateway"
        <4>1. rpc'[c] = "gateway" /\ cpc'[c] = "lookup" /\ reply'[c] = "none" /\ answer'[c] = "none"
          <5>1. reply[c] = "none"
            BY <1>1, <1>4, <3>2 DEF RouterMoves, Abreast
          <5> QED  BY <1>1, <1>3, <3>1, <3>2, <5>1 DEF RouterMoves
        <4> QED  BY <4>1 DEF Abreast, Busy, Open
      <3>3. CASE label = "done"
        <4>1. /\ cpc' = cpc /\ reply' = reply /\ rpc'[c] = "done"
              /\ rpc[c] \in {"start", "preflight", "settle"}
          BY <1>1, <1>7, <3>3 DEF RouterMoves
        <4>2. rpc[c] = "settle" => answer'[c] \in {reply[c], "failed"} \/ reply[c] = "ok"
          BY <1>1, <1>3, <3>3 DEF RouterMoves
        <4> QED  BY <3>1, <4>1, <4>2 DEF Abreast, Busy, Open
      <3>4. CASE label \notin {"gateway", "done"}
        BY <1>1, <1>3, <1>7, <3>1, <3>4 DEF RouterMoves, Abreast, Busy, Open
      <3> QED  BY <3>2, <3>3, <3>4
    <2> QED  BY <2>1, <2>2
  <1>9. \A d \in Calls : Alone(d)'
    <2>1. \A d \in Calls : Open(d)' => Open(d)
      BY <1>4, <1>6 DEF Open
    <2>2. Open(c)' => caller' = caller
      BY <1>1, <1>7 DEF RouterMoves, Open
    <2> QED  BY <1>4, <1>6, <1>7, <2>1, <2>2 DEF LeaseInv, Alone
  <1>10. \A d \in Calls : Holds(d)'
    <2>1. ASSUME NEW d \in Calls \ {c}, Held(d)', req[d] \notin outlived
          PROVE  lease'[Key(d)] = [holder |-> req[d], live |-> TRUE]
      <3>1. Held(d) /\ Open(d) /\ req[d] # req[c]
        BY <1>6, <2>1 DEF Held, Open
      <3>2. lease[Key(d)] = [holder |-> req[d], live |-> TRUE]
        BY <2>1, <3>1 DEF LeaseInv, Holds
      <3>3. CASE Key(d) # Key(c)
        <4>1. Key(d) \in Resources
          BY <1>2, <3>1, WriteAssumption DEF WriteInv, CallKnown, Open, Key
        <4>2. lease' \in {lease, LeaseReleased(c),
                         [lease EXCEPT ![Key(c)] = [holder |-> req[c], live |-> TRUE]]}
          BY <1>1 DEF RouterMoves
        <4>3. lease'[Key(d)] = lease[Key(d)]
          BY <1>3, <3>3, <4>1, <4>2, Released
        <4> QED  BY <3>2, <4>3
      <3>4. CASE Key(d) = Key(c)
        BY <1>1, <3>1, <3>2, <3>4 DEF RouterMoves, LeaseReleased, LeaseFree
      <3> QED  BY <3>3, <3>4
    <2>2. ASSUME Held(c)', req[c] \notin outlived
          PROVE  lease'[Key(c)] = [holder |-> req[c], live |-> TRUE]
      <3>1. label # "done"
        BY <1>7, <2>2 DEF Held
      <3>2. CASE rpc[c] = "start" /\ label \in {"preflight", "send"}
        BY <1>1, <1>3, <3>2 DEF RouterMoves
      <3>3. CASE ~(rpc[c] = "start" /\ label \in {"preflight", "send"})
        <4>1. lease' = lease
          BY <1>1, <3>1, <3>3 DEF RouterMoves
        <4>2. Held(c)
          BY <1>1, <1>4, <1>7, <2>2, <3>1, <3>3, <4>1 DEF RouterMoves, Held, Abreast
        <4> QED  BY <1>4, <2>2, <4>1, <4>2 DEF Holds
      <3> QED  BY <3>2, <3>3
    <2> QED  BY <1>7, <2>1, <2>2 DEF Holds, Key
  <1>11. \A d \in Calls : Guarded(d)'
    <2>1. \A d \in Calls : Writers(d) \subseteq Writers(d)'
      BY <1>4, <1>6, <1>7, WritersGrow DEF Abreast
    <2>2. \A d \in Calls \ {c} : Guarded(d)'
      BY <1>6, <1>7, <2>1 DEF LeaseInv, Guarded, Key
    <2>3. Guarded(c)'
      <3>1. CASE label = "send" /\ Kind[req[c]] = "put"
        BY <1>1, <1>7, <3>1 DEF RouterMoves, Guarded, Key, Writers
      <3>2. CASE label = "gateway"
        <4>1. rpc[c] = "send"
          BY <1>1, <3>2 DEF RouterMoves
        <4> QED  BY <1>4, <1>7, <2>1, <4>1 DEF Guarded, Key
      <3> QED  BY <1>7, <3>1, <3>2 DEF Guarded
    <2> QED  BY <2>2, <2>3
  <1> QED  BY <1>2, <1>5, <1>8, <1>9, <1>10, <1>11 DEF LeaseInv

LEMMA ConnectorKeepsLease ==
  ASSUME LeaseInv, NEW c \in Calls, Connector(c)
  PROVE  LeaseInv'
  <1>1. /\ UNCHANGED <<caller, req, rpc, answer, lease, outlived>> /\ Busy(c)
        /\ \/ content' = content
           \/ cpc[c] = "mutate" /\ content' = [content EXCEPT ![Key(c)] = req[c]]
    BY DEF Connector, Lookup, Read, Mutate, MutateFails, Verify, Record, RecordFails,
           ConnectorFails, Applied, router, github, Busy
  <1>2. \E label \in {"read", "mutate", "verify", "receipt", "done"} :
          /\ cpc' = [cpc EXCEPT ![c] = label]
          /\ \/ reply' = reply
             \/ label = "done" /\ \E a \in {"ok", "failed", "ambiguous"} :
                  reply' = [reply EXCEPT ![c] = IF @ = "none" THEN a ELSE @]
    BY DEF Connector, Lookup, Read, Mutate, MutateFails, Verify, Record, RecordFails,
           ConnectorFails, ConnectorGoes, Reply
  <1>3. WriteInv' /\ WriteInv
    BY ConnectorSteps DEF LeaseInv
  <1>4. /\ cpc'[c] # "idle" /\ (Busy(c)' => reply'[c] = reply[c])
        /\ reply[c] # "none" => reply'[c] = reply[c]
        /\ \A d \in Calls \ {c} : cpc'[d] = cpc[d] /\ reply'[d] = reply[d]
    BY <1>2, <1>3 DEF WriteInv, WriteTypeOK, Busy
  <1>5. cpc[c] # "idle" /\ rpc[c] \in {"gateway", "settle", "done", "dead"} /\ req[c] \in Requests
    BY <1>1, <1>3 DEF LeaseInv, WriteInv, Abreast, Busy, CallKnown
  <1>6. \A d \in Calls : Abreast(d)'
    <2>1. \A d \in Calls \ {c} : Abreast(d)'
      BY <1>1, <1>4 DEF LeaseInv, Abreast, Busy, Open
    <2>2. Abreast(c)'
      BY <1>1, <1>4, <1>5 DEF LeaseInv, Abreast, Busy, Open
    <2> QED  BY <2>1, <2>2
  <1>7. \A d \in Calls : Alone(d)'
    BY <1>1 DEF LeaseInv, Alone, Open
  <1>8. \A d \in Calls : Holds(d)'
    BY <1>1, <1>4, <1>5 DEF LeaseInv, Holds, Held, Key
  <1>9. ASSUME NEW d \in Calls PROVE Guarded(d)'
    <2> SUFFICES ASSUME rpc[d] \in {"send", "gateway"}, Kind[req[d]] = "put", req[d] \notin outlived
                 PROVE  content'[Key(d)] \in Writers(d)'
      BY <1>1 DEF Guarded, Key
    <2>1. content[Key(d)] \in Writers(d) /\ Writers(d) \subseteq Writers(d)'
      BY <1>1, WritersGrow DEF LeaseInv, Guarded
    <2>2. CASE content'[Key(d)] = content[Key(d)]
      BY <2>1, <2>2
    <2>3. CASE content'[Key(d)] # content[Key(d)]
      <3>0. Key(d) \in Resources
        BY <1>3, WriteAssumption DEF WriteInv, CallKnown, Key
      <3>1. Key(d) = Key(c) /\ content'[Key(d)] = req[c]
        BY <1>1, <1>3, <2>3, <3>0 DEF WriteInv, WriteTypeOK
      <3>2. CASE req[d] = req[c]
        BY <3>1, <3>2, <2>1 DEF Writers
      <3>3. CASE req[d] # req[c] /\ rpc[c] = "done"
        BY <1>1, <1>5, <3>1, <3>3, <2>1 DEF LeaseInv, Abreast, Writers, Abandoned, CallsOf
      <3>4. CASE req[d] # req[c] /\ rpc[c] # "done"
        <4>1. Held(c) /\ Held(d)
          BY <1>5, <3>4 DEF Held
        <4>2. req[c] \in outlived
          <5>0. Holds(c) /\ Holds(d)
            BY DEF LeaseInv
          <5>1. lease[Key(d)].holder = req[d]
            BY <4>1, <5>0 DEF Holds
          <5>2. req[c] \notin outlived => lease[Key(c)].holder = req[c]
            BY <4>1, <5>0 DEF Holds
          <5> QED  BY <3>1, <3>4, <5>1, <5>2
        <4> QED  BY <3>1, <4>2, <2>1 DEF Writers
      <3> QED  BY <3>2, <3>3, <3>4
    <2> QED  BY <2>2, <2>3
  <1>10. caller' \in [Requests -> Callers] /\ lease' \in [Resources -> Leases]
    BY <1>1 DEF LeaseInv
  <1> QED  BY <1>3, <1>6, <1>7, <1>8, <1>9, <1>10 DEF LeaseInv

LEMMA SendKeepsLease ==
  ASSUME LeaseInv, NEW r \in Requests, NEW c \in Calls, Send(r, c)
  PROVE  LeaseInv'
  <1>1. /\ rpc[c] = "unused" /\ req' = [req EXCEPT ![c] = r] /\ rpc' = [rpc EXCEPT ![c] = "start"]
        /\ caller[r] \in {"new", "retry"} /\ caller' = [caller EXCEPT ![r] = "waiting"]
        /\ UNCHANGED <<answer, cpc, reply, lease, content, outlived>>
    BY DEF Send, connector, github
  <1>2. WriteInv' /\ WriteInv
    BY SendSteps DEF LeaseInv
  <1>3. /\ cpc[c] = "idle" /\ reply[c] = "none" /\ answer[c] = "none"
        /\ req'[c] = r /\ rpc'[c] = "start"
        /\ \A d \in Calls \ {c} : req'[d] = req[d] /\ rpc'[d] = rpc[d]
    BY <1>1, <1>2 DEF WriteInv, WriteTypeOK, CallKnown
  <1>4. \A d \in Calls : Open(d) => req[d] # r /\ req[d] \in Requests
    BY <1>1, <1>2 DEF LeaseInv, Alone, WriteInv, CallKnown, Open
  <1>5. /\ caller' \in [Requests -> Callers] /\ caller'[r] = "waiting"
        /\ \A q \in Requests \ {r} : caller'[q] = caller[q]
    BY <1>1 DEF LeaseInv, Callers
  <1>6. \A d \in Calls : Abreast(d)'
    BY <1>1, <1>3 DEF LeaseInv, Abreast, Busy, Open
  <1>7. \A d \in Calls : Alone(d)'
    BY <1>3, <1>4, <1>5 DEF LeaseInv, Alone, Open
  <1>8. \A d \in Calls : Holds(d)'
    BY <1>1, <1>3 DEF LeaseInv, Holds, Held, Key
  <1>9. ASSUME NEW d \in Calls PROVE Guarded(d)'
    <2>1. CASE d = c
      BY <1>3, <2>1 DEF Guarded
    <2>2. CASE d # c
      <3>1. Writers(d) \subseteq Writers(d)'
        BY <1>1, <1>3, <2>2, WritersGrow
      <3> QED  BY <1>1, <1>3, <2>2, <3>1 DEF LeaseInv, Guarded, Key
    <2> QED  BY <2>1, <2>2
  <1> QED  BY <1>1, <1>2, <1>5, <1>6, <1>7, <1>8, <1>9 DEF LeaseInv

\* Time and others: nobody gains a lease by them.
LEMMA OthersKeepLease ==
  ASSUME LeaseInv, WriteInv',
         \/ UNCHANGED vars
         \/ \E r \in Requests : WorkerGivesUp(r)
         \/ \E k \in Resources : LeaseLapses(k) \/ ForeignPush(k)
  PROVE  LeaseInv'
  <1>1. UNCHANGED <<req, rpc, cpc, reply, answer>>
    BY DEF vars, WorkerGivesUp, LeaseLapses, ForeignPush, router, connector
  <1>2. \A d \in Calls : Abreast(d)'
    BY <1>1 DEF LeaseInv, Abreast, Busy, Open
  <1>3. /\ caller' \in [Requests -> Callers]
        /\ \A q \in Requests : caller[q] \in {"waiting", "failed"} => caller'[q] \in {"waiting", "failed"}
    BY DEF LeaseInv, Callers, vars, WorkerGivesUp, LeaseLapses, ForeignPush
  <1>4. \A d \in Calls : Open(d) => req[d] \in Requests
    BY DEF LeaseInv, WriteInv, CallKnown, Open
  <1>5. \A d \in Calls : Alone(d)'
    BY <1>1, <1>3, <1>4 DEF LeaseInv, Alone, Open
  <1>6. /\ lease' \in [Resources -> Leases] /\ outlived \subseteq outlived'
        /\ \A k \in Resources : lease'[k] = lease[k] \/ lease[k].holder \in outlived'
    <2>1. CASE lease' = lease /\ outlived' = outlived
      BY <2>1 DEF LeaseInv
    <2>2. ASSUME NEW k \in Resources, LeaseLapses(k)
          PROVE  /\ lease' \in [Resources -> Leases] /\ outlived \subseteq outlived'
                 /\ \A l \in Resources : lease'[l] = lease[l] \/ lease[l].holder \in outlived'
      <3>1. /\ lease' = [lease EXCEPT ![k] = [lease[k] EXCEPT !.live = FALSE]]
            /\ outlived' = outlived \cup {lease[k].holder}
        BY <2>2 DEF LeaseLapses
      <3>2. [lease[k] EXCEPT !.live = FALSE] \in Leases
        BY DEF LeaseInv, Leases
      <3> QED  BY <3>1, <3>2 DEF LeaseInv
    <2> QED  BY <2>1, <2>2 DEF vars, WorkerGivesUp, ForeignPush
  <1>7. ASSUME NEW d \in Calls PROVE Holds(d)'
    <2> SUFFICES ASSUME Held(d), req[d] \notin outlived'
                 PROVE  lease'[Key(d)] = [holder |-> req[d], live |-> TRUE]
      BY <1>1 DEF Holds, Held, Key
    <2>1. lease[Key(d)] = [holder |-> req[d], live |-> TRUE]
      BY <1>6 DEF LeaseInv, Holds
    <2>2. Key(d) \in Resources
      BY <1>4, WriteAssumption DEF Held, Open, Key
    <2> QED  BY <1>6, <2>1, <2>2
  <1>8. \A k \in Resources : content'[k] \in {content[k], Foreign}
    BY DEF LeaseInv, WriteInv, WriteTypeOK, vars, github, WorkerGivesUp, LeaseLapses, ForeignPush
  <1>9. ASSUME NEW d \in Calls PROVE Guarded(d)'
    <2>1. Writers(d) \subseteq Writers(d)'
      BY <1>1, <1>6, WritersGrow
    <2>2. Open(d) => Key(d) \in Resources
      BY <1>4, WriteAssumption DEF Key
    <2> QED  BY <1>1, <1>6, <1>8, <2>1, <2>2 DEF LeaseInv, Guarded, Open, Key, Writers
  <1> QED  BY <1>2, <1>3, <1>5, <1>6, <1>7, <1>9 DEF LeaseInv

\* For any requests, calls and lapses: a put replaces a version it did not expect
\* only if its write was abandoned, or a lease lapsed under one of the two.
THEOREM LeaseClosesTheGap == Spec => LostUpdatesAreAbandoned
  <1>1. LeaseInv /\ [Next]_vars => LeaseInv'
    <2> SUFFICES ASSUME LeaseInv, [Next]_vars PROVE LeaseInv'
      OBVIOUS
    <2>1. WriteInv'
      BY WriteStep DEF LeaseInv
    <2> QED  BY <2>1, SendKeepsLease, RouterKeepsLease, ConnectorKeepsLease, OthersKeepLease DEF Next
  <1>2. LeaseInv =>
          \A c \in Calls :
            LET lost == content[Key(c)] IN
            /\ cpc[c] = "mutate" /\ cpc'[c] = "verify" /\ Kind[req[c]] = "put"
            /\ rpc[c] = "gateway"
            /\ lost \in Requests \ {req[c], Expected[req[c]]}
            => \/ \E d \in CallsOf(lost) : answer[d] \in {"transport", "failed"}
               \/ {lost, req[c]} \cap outlived # {}
    BY WriteAssumption DEF LeaseInv, Guarded, Writers, Abandoned
  <1> QED  BY <1>1, <1>2, LeaseBegins, PTL DEF Spec, LostUpdatesAreAbandoned
=============================================================================
