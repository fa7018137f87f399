------------------------- MODULE ApprovedOperation -------------------------
(***************************************************************************)
(* What it takes to act on an outside provider, and to have it recorded:   *)
(* the catalog, an operator's approval or a source-bound envelope, the     *)
(* readiness of the evidence, the plan handed to the host and the receipts *)
(* handed back.  Everything here is a judgement of one document;           *)
(* ProviderAdmission keeps the state.  A document is a record of the facts *)
(* the judgements look at: `complete` says that the texts, objects, lists  *)
(* and zoned times the parser asks for are there and that its lists repeat *)
(* nothing.                                                                *)
(***************************************************************************)
EXTENDS Integers, FiniteSets

-----------------------------------------------------------------------------
(* Readiness.                                                              *)
Certainty == {"observed", "inferred", "hypothesized", "unknown"}
Proofs == {"source", "dependencies", "checkpoint", "procedure", "rehearsed", "staged", "irrevocably"}

\* radius: one object, several, the estate.  reversible: yes, conditionally, no.
Evidence == [state: Certainty, radius: 1..3, reversible: 1..3, novel: BOOLEAN, has: SUBSET Proofs]

ResearchNeeded(e) ==
    \/ "source" \notin e.has
    \/ /\ e.radius >= 2
       /\ \/ "dependencies" \notin e.has
          \/ e.state \in {"hypothesized", "unknown"}
          \/ e.novel /\ "rehearsed" \notin e.has

Blocked(e) ==
    \/ e.radius = 3 /\ ~({"checkpoint", "procedure", "staged"} \subseteq e.has)
    \/ e.radius >= 2 /\ e.novel /\ "staged" \notin e.has
    \/ e.reversible = 3 /\ ~({"irrevocably", "checkpoint"} \subseteq e.has)

Readiness(e) ==
    IF Blocked(e) THEN "block" ELSE IF ResearchNeeded(e) THEN "research_required" ELSE "allow"

CompletionErrors(c) ==
    {x \in {"receipt", "readback", "verified"} : ~c[x]}
      \cup (IF c.active > 0 THEN {"active"} ELSE {})
      \cup (IF c.failed /\ ~c.recovered THEN {"recovery"} ELSE {})

-----------------------------------------------------------------------------
(* The catalog: which operations a connector reads and writes.             *)
WellFormed(document) == document.complete

Rules == [enabled: BOOLEAN, authorized: BOOLEAN, idempotent: BOOLEAN, readback: BOOLEAN]

CatalogSound(c) ==
    /\ WellFormed(c)
    /\ c.security = [credentials |-> FALSE, receipts |-> TRUE, sourceBound |-> TRUE]
    /\ \A op \in DOMAIN c.writes :
         c.writes[op].authorized /\ c.writes[op].idempotent /\ c.writes[op].readback
    /\ \A p \in DOMAIN c.profiles : c.profiles[p] # {} /\ c.profiles[p] \subseteq c.connectors

ReadAllowed(c, r) ==
    /\ r.connector \in c.connectors
    /\ r.profile \in DOMAIN c.profiles /\ r.connector \in c.profiles[r.profile]
    /\ r.operation \in c.reads

\* A request for a read names an object of the provider.
ReadRequest(c, r) == ReadAllowed(c, r) /\ r.target

\* age is the distance of a time from now: more than five minutes ahead of it,
\* within the catalog's maximum, or beyond it.
ReadReceiptValid(c, r, age) ==
    /\ WellFormed(r) /\ r.success /\ ~r.authorizes
    /\ ReadAllowed(c, r)
    /\ age = "current"

ActionCatalogued(c, a) ==
    /\ WellFormed(a)
    /\ a.operation \in DOMAIN c.writes
    /\ c.writes[a.operation].enabled /\ c.writes[a.operation].authorized

-----------------------------------------------------------------------------
(* An operator's exact approval.                                           *)
\* The digest of a scope tells different scopes apart; so does the scope.
Scope(a) == [operation |-> a.operation, content |-> a.content, key |-> a.key]

EvidenceSupported(e) == e \in Evidence

ExactlyApproved(c, a, age) ==
    /\ ActionCatalogued(c, a)
    /\ c.writes[a.operation].idempotent /\ c.writes[a.operation].readback
    /\ EvidenceSupported(a.evidence)
    /\ a.approved = Scope(a)
    /\ age = "current"
    /\ Readiness(a.evidence) = "allow" /\ a.rehearsedFor = a.operation

-----------------------------------------------------------------------------
(* A source-bound envelope: one word of the operator for several actions.  *)
Envelopes == [kind: {"explicit_action", "plan_batch", "action_class"}, source: STRING, plan: BOOLEAN,
              operations: SUBSET STRING, contents: SUBSET STRING, allows: SUBSET {"destructive", "delta"}]

EnvelopeParses(e) == e.operations # {} /\ (e.kind = "plan_batch" => e.plan)

EnvelopeCovers(e, a) ==
    /\ a.operation \in e.operations
    /\ a.content \in e.contents
    /\ a.marks \subseteq e.allows

\* The legacy digest is made up for the action that the envelope covers.
Adapted(a) == [a EXCEPT !.approved = Scope(a)]

Authorized(c, a, age) ==
    IF a.envelope = {} THEN ExactlyApproved(c, a, age)
    ELSE \A e \in a.envelope :
            /\ EnvelopeParses(e) /\ EnvelopeCovers(e, a)
            /\ a.reference = e.source
            /\ ExactlyApproved(c, Adapted(a), age)

-----------------------------------------------------------------------------
(* Plans for the authenticated host.                                       *)
McpWrites == {"mem.note.create", "mem.note.update", "mem.collection.create", "mem.collection.update",
              "supabase.row.insert", "supabase.row.update", "postman.collection.create",
              "postman.collection.update", "postman.spec.create", "postman.monitor.create"}
WorkspaceWrites == {"google_workspace.document.create", "google_workspace.document.update"}
GithubWrites == {"github.issue.create", "github.pull_request.create"}

StatementAllowed(a) ==
    /\ a.operation \in {"supabase.row.insert", "supabase.row.update"} => a.statement.single
    /\ a.operation = "supabase.row.insert" => a.statement.verb = "insert"
    /\ a.operation = "supabase.row.update" => a.statement.verb = "update" /\ a.statement.where

ProviderKind(op) ==
    CASE op \in GithubWrites -> "browser_session"
      [] op \in WorkspaceWrites -> "gws"
      [] op \in McpWrites -> "mcp"

Plan(a) == [action |-> a.id, key |-> a.key, scope |-> Scope(a), kind |-> ProviderKind(a.operation)]

Plannable(c, a, age) ==
    /\ Authorized(c, a, age)
    /\ StatementAllowed(a)
    /\ a.operation \in McpWrites \cup WorkspaceWrites \cup GithubWrites

\* prepare_approved_connector_action: the exact approval is asked for first.
Prepared(c, a, age) == ExactlyApproved(c, a, age) /\ Plannable(c, a, age)

-----------------------------------------------------------------------------
(* Receipts.                                                               *)
\* A read is receipted as it was seen: validated against its own time.
ReadReceiptBuilt(c, r) ==
    ReadRequest(c, r) /\ ~r.authorizes /\ ReadReceiptValid(c, [r EXCEPT !.success = TRUE], "current")

\* An outcome says how the action ended, when it was read back (before the
\* action is possible for a confused host), and whether that verified it.
BuiltReceipt(a, rid, o) ==
    [id |-> rid, action |-> a.id, operation |-> a.operation, key |-> a.key, scope |-> a.approved,
     state |-> o.state, readback |-> o.readback, verified |-> o.verified]

ReceiptBuildable(o) == o.state = "success" => o.readback # "none" /\ o.verified

ReceiptMatches(rc, a) ==
    /\ rc.action = a.id /\ rc.operation = a.operation /\ rc.key = a.key /\ rc.scope = a.approved
    /\ rc.state = "success" => rc.readback # "none" /\ rc.verified
    /\ rc.readback # "before"
    /\ rc.state = "success" =>
         CompletionErrors([receipt |-> TRUE, readback |-> TRUE, verified |-> rc.verified,
                           active |-> 0, failed |-> FALSE, recovered |-> TRUE]) = {}

\* The transport of a host belongs to exactly one contract of the registry.
TransportAdmitted(registry, transport) ==
    Cardinality({k \in DOMAIN registry : registry[k] = transport}) = 1
=============================================================================
