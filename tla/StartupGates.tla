----------------------------- MODULE StartupGates -----------------------------
(***************************************************************************)
(* The gates of a starting interpreter: model_attractor_defense and        *)
(* notion_continuity_gate, each with its own proof kept in the process,    *)
(* and the continuation records of startup_continuation on the disk that   *)
(* every interpreter shares.  A gate reads a policy, then the receipt,     *)
(* then (model_attractor_defense) for every role the file the receipt      *)
(* cites for it, each time anew, and an agent may replace any of those     *)
(* files in between.                                                       *)
(***************************************************************************)
EXTENDS Integers, FiniteSets

CONSTANTS
    Boots,       \* interpreters started in one environment
    ConfigFiles, \* files under config/ that a receipt may cite
    PolicyFile,  \* one of them, model_attractor_defense_policy.json
    Stances,     \* what they may hold
    RoleKeys,    \* SOURCE_ROLE_SEMANTIC_KEYS
    Topologies,  \* what notion_continuity_policy.json may hold
    Filings,     \* boot receipts an agent may put in place
    MaxRefilings, \* bound on the files replaced
    MaxRecordings \* bound on the records written

ASSUME PolicyFileAssumption == PolicyFile \in ConfigFiles

VARIABLES
    config, topology,  \* those files and Notion's policy, as they are now
    filing,            \* what receipt_from_environment finds now
    refilings, recordings,
    hands,             \* what each interpreter is doing
    bootMode,          \* CASEY_AUTO_BOOT_MODE, the same for all
    seals,             \* the proofs each keeps (_IN_PROCESS), by gate
    gateStatus,        \* GLACIEREQ_*_STATUS of each, by gate
    disk,              \* the continuation directory, by file name
    durable            \* records somebody was told are durable

bootVars == <<config, topology, filing, refilings, recordings, hands, bootMode, seals, gateStatus, disk, durable>>

Gates == {"attractor", "notion"}
NoSeal == [receipt |-> "none"]
Resting == [at |-> "idle"]

\* receipt_from_environment: unset; inline and path both set, or not JSON.
Unfiled == [form |-> "none"]
Unusable == [form |-> "unusable"]

StartupInit ==
    /\ config \in [ConfigFiles -> Stances] /\ topology \in Topologies
    /\ filing \in {Unfiled, Unusable} \cup Filings /\ refilings = 0 /\ recordings = 0
    /\ hands = [p \in Boots |-> Resting]
    /\ bootMode \in {"strict", "request", "off"}
    /\ seals = [p \in Boots |-> [g \in Gates |-> NoSeal]]
    /\ gateStatus = [p \in Boots |-> [g \in Gates |-> "unset"]]
    /\ disk = [name \in {} |-> Resting] /\ durable = {}

-----------------------------------------------------------------------------
(* model_attractor_defense.                                                *)

\* load_model_attractor_policy: approved role keys, no more and no fewer.
AttractorLoads(policy) == policy.failClosed /\ DOMAIN policy.roles = RoleKeys

\* _resolve_frontier_source and the frontier authority read elsewhere: either.
FrontierVerdicts == BOOLEAN

\* _resolve_local_source: the cited file, as it is when it is read.
Resolved(evidence) == config[evidence.file]

\* Mutant of EvidenceStands: that the bytes say what is asserted goes unread.
EvidenceHashes(policy, bytes, evidence, key) == evidence.traced /\ evidence.cited = bytes

\* _validate_source_role_bindings: the hash cited for the role is that of the
\* bytes just read, and they support the value the policy read earlier wants.
EvidenceStands(policy, bytes, evidence, key) ==
    /\ evidence.traced /\ evidence.cited = bytes
    /\ key \in DOMAIN bytes.roles /\ bytes.roles[key] = policy.roles[key]

\* _validate_frontier_alignment, given the verdict of the frontier authority.
Aligned(row, frontier, authorized) ==
    authorized /\ row.identity = frontier.identity /\ frontier.refs \subseteq row.refs

ContinuityErrors(policy, r, authorized) ==
    LET row == r.attractor IN
    {<<"continuity", f>> : f \in policy.continuity \ row.held}
      \cup {<<e>> : e \in {e \in {"partial", "frontier"} :
              \/ e = "partial" /\ row.blocked /\ ~row.partial
              \/ e = "frontier" /\ ~Aligned(row, r.frontier, authorized)}}

\* What of a receipt needs no file: the roles it asserts among it.
StatedErrors(policy, r, authorized) ==
    LET row == r.attractor IN
    {<<"field", f>> : f \in policy.fields \ row.fields}
      \cup {<<"role", k>> : k \in {k \in RoleKeys : row.roles[k] # policy.roles[k]}}
      \cup (IF row.continuity = "yes" THEN ContinuityErrors(policy, r, authorized)
            ELSE IF row.continuity = "no" THEN {} ELSE {<<"continuity">>})

-----------------------------------------------------------------------------
(* notion_continuity_gate.                                                 *)
\* load_notion_policy: relationships that are discovered only inform.
NotionLoads(policy) == policy.observes

\* _tool: used under an allowed alias, and in the receipt's own inventory.
ToolErrors(policy, row, stages) ==
    {<<"tool", s>> : s \in {s \in stages : row.tool[s] \notin policy.aliases[s] \cap row.loaded}}

PageErrors(policy, row) ==
    LET ids == {page[1] : page \in row.pages} IN
    {<<"page", page>> : page \in policy.pages \ row.pages}
      \cup ToolErrors(policy, row, {"search", "fetch"})
      \cup (IF row.analysed /\ Cardinality(ids) >= policy.minPages THEN {} ELSE {<<"analysis">>})

DiscoveryErrors(policy, row) ==
    ToolErrors(policy, row, {"work"}) \cup {<<e>> : e \in {e \in {"systems", "found", "decision"} :
       \/ e = "systems" /\ ("notion" \notin row.systems \/ Cardinality(row.systems) < policy.minSystems)
       \/ e = "found" /\ ~(row.found = (row.owner # "nobody") /\ row.found = row.candidates)
       \/ e = "decision" /\ row.decision \notin
             (IF row.found THEN policy.foundDecisions ELSE {"map_none_found"})}}

MapErrors(row) ==
    LET map == row.map IN
    {<<e>> : e \in {e \in {"relations", "kept", "owner", "override", "root"} :
       \/ e = "relations" /\ ~({"owner", "consumer", "dependency", "overlap"} \subseteq map.relations)
       \/ e = "kept" /\ ~map.kept
       \/ e = "owner" /\ row.found /\ row.owner # "nobody" /\ map.owner # "nobody" /\ map.owner # row.owner
       \/ e = "override" /\ map.decision # (IF map.override THEN "operator_override" ELSE "map_only")
       \/ e = "root" /\ map.newRoot /\ ~map.override}}

NotionErrors(policy, r) ==
    PageErrors(policy, r.notion) \cup DiscoveryErrors(policy, r.notion) \cup MapErrors(r.notion)

-----------------------------------------------------------------------------
(* One call of a gate.                                                     *)
Others == <<config, topology, filing, refilings, bootMode>>
Policy(gate) == IF gate = "attractor" THEN config[PolicyFile] ELSE topology
Loads(gate) == IF gate = "attractor" THEN AttractorLoads(config[PolicyFile]) ELSE NotionLoads(topology)

\* With one name more, or with another entry under that name.
Placed(files, name, file) ==
    [n \in DOMAIN files \cup {name} |-> IF n = name THEN file ELSE files[n]]

IsAt(p, step) == hands[p].at = step
Moves(p, to) == hands' = [hands EXCEPT ![p] = to]
Status(p, gate, value) == gateStatus' = [gateStatus EXCEPT ![p][gate] = value]

\* A kept proof answers at once; a policy that does not load raises.
CallGate(p, gate) ==
    /\ IsAt(p, "idle") /\ seals[p][gate] = NoSeal
    /\ IF bootMode = "off" THEN Status(p, gate, "off") /\ UNCHANGED hands
       ELSE /\ Loads(gate) /\ UNCHANGED gateStatus
            /\ Moves(p, [at |-> "policy", gate |-> gate, policy |-> Policy(gate)])
    /\ UNCHANGED <<Others, recordings, seals, disk, durable>>

\* build_model_attractor_request: what it asks for follows from the policy.
Request(policy, errors) == [policy |-> policy, errors |-> errors]

\* What is recorded is identified by its contents, not by who records it.
Continuation(request) == [kind |-> "uplift_required", gate |-> "attractor", request |-> request]
Enrichment == [kind |-> "enrichment_pending", gate |-> "startup", request |-> "none"]
Recording(id) == [at |-> "record", id |-> id]

Seal(p, gate, proof) ==
    /\ seals' = [seals EXCEPT ![p][gate] = proof]
    /\ Status(p, gate, "complete") /\ Moves(p, Resting)

\* In strict mode a receipt with errors ends the process; no receipt does not.
NotionConcludes(p, policy) ==
    LET strict == bootMode = "strict" IN
    IF filing # Unfiled /\ NotionErrors(policy, filing) = {}
    THEN Seal(p, "notion", [receipt |-> filing, policy |-> policy])
    ELSE /\ Status(p, "notion", IF strict THEN "blocked" ELSE "degraded")
         /\ Moves(p, IF strict /\ filing # Unfiled THEN [at |-> "exited"] ELSE Resting)
         /\ UNCHANGED seals

ReadReceipt(p) ==
    LET h == hands[p] IN
    /\ IsAt(p, "policy")
    /\ IF filing = Unusable THEN Moves(p, Resting) /\ UNCHANGED <<seals, gateStatus>>
       ELSE IF h.gate = "notion" THEN NotionConcludes(p, h.policy)
       ELSE /\ UNCHANGED <<seals, gateStatus>>
            /\ Moves(p, IF filing = Unfiled
                       THEN Recording(Continuation(Request(h.policy, {<<"unfiled">>})))
                       ELSE [at |-> "receipt", policy |-> h.policy, receipt |-> filing,
                             left |-> RoleKeys, errors |-> {}, read |-> [k \in {} |-> h.policy]])
    /\ UNCHANGED <<Others, recordings, disk, durable>>

\* One role after the other, its cited file is read; `read' is history.
VerifyRole(p, key) ==
    LET h == hands[p]
        evidence == h.receipt.attractor.evidence[key]
        bytes == Resolved(evidence)
    IN  /\ IsAt(p, "receipt") /\ key \in h.left
        /\ Moves(p, [at |-> "receipt", policy |-> h.policy, receipt |-> h.receipt,
                     left |-> h.left \ {key}, read |-> Placed(h.read, key, bytes),
                     errors |-> IF EvidenceStands(h.policy, bytes, evidence, key) THEN h.errors
                                ELSE h.errors \cup {<<"evidence", key>>}])
        /\ UNCHANGED <<Others, recordings, seals, gateStatus, disk, durable>>

ConcludeAttractor(p) ==
    LET h == hands[p] IN
    /\ IsAt(p, "receipt") /\ h.left = {}
    /\ \E authorized \in FrontierVerdicts :
         LET errors == h.errors \cup StatedErrors(h.policy, h.receipt, authorized) IN
         IF errors = {}
         THEN Seal(p, "attractor", [receipt |-> h.receipt, policy |-> h.policy, read |-> h.read])
         ELSE Moves(p, Recording(Continuation(Request(h.policy, errors)))) /\ UNCHANGED <<seals, gateStatus>>
    /\ UNCHANGED <<Others, recordings, disk, durable>>

-----------------------------------------------------------------------------
(* startup_continuation: write a temporary file, rename it into place.     *)
(* The temporary file has the record's name, not the process's.            *)
Final(id) == <<id, "json">>

\* Mutant of Temporary: the record is written where it stays.
InPlace(id) == <<id, "json">>

Temporary(id) == <<id, "tmp">>

Writing(p, id) == hands[p].at \in {"opened", "flushed"} /\ hands[p].id = id

\* record_startup_enrichment, which no gate calls.
Enrich(p) ==
    /\ IsAt(p, "idle")
    /\ Moves(p, Recording(Enrichment))
    /\ UNCHANGED <<Others, recordings, seals, gateStatus, disk, durable>>

\* The environment is told the same whether or not the record was persisted.
Told(p, id) ==
    IF id.kind = "uplift_required" THEN Status(p, id.gate, "uplift_required")
    ELSE UNCHANGED gateStatus

\* Opening truncates the file another interpreter may be writing.
OpenTemporary(p) ==
    LET h == hands[p] IN
    /\ IsAt(p, "record") /\ recordings < MaxRecordings /\ recordings' = recordings + 1
    /\ disk' = Placed(disk, Temporary(h.id),
                      [content |-> "empty", shared |-> \E q \in Boots \ {p} : Writing(q, h.id)])
    /\ Moves(p, [at |-> "opened", id |-> h.id, name |-> Temporary(h.id)])
    /\ UNCHANGED <<Others, seals, gateStatus, durable>>

\* An OSError leaves the record in memory.
CannotOpen(p) ==
    /\ IsAt(p, "record") /\ Moves(p, Resting) /\ Told(p, hands[p].id)
    /\ UNCHANGED <<Others, recordings, seals, disk, durable>>

\* Over another's text of another length, the two may be mixed.  The file may
\* have been renamed since it was opened, or have no name left.
Flush(p) ==
    LET h == hands[p] IN
    /\ IsAt(p, "opened")
    /\ IF h.name \notin DOMAIN disk THEN UNCHANGED disk
       ELSE \E content \in IF disk[h.name].content = "empty" THEN {"whole"} ELSE {"whole", "mixed"} :
              disk' = [disk EXCEPT ![h.name].content = content]
    /\ Moves(p, [h EXCEPT !.at = "flushed"])
    /\ UNCHANGED <<Others, recordings, seals, gateStatus, durable>>

\* What the others have open keeps its file under its new name.
KeepsOpen(q, id) ==
    IF hands[q].at = "opened" /\ hands[q].id = id
    THEN [hands[q] EXCEPT !.name = IF @ = Temporary(id) THEN Final(id) ELSE <<id, "unlinked">>]
    ELSE hands[q]

Replace(p) ==
    LET h == hands[p]
        there == Temporary(h.id) \in DOMAIN disk
    IN  /\ IsAt(p, "flushed")
        /\ IF there
           THEN /\ disk' = Placed([name \in DOMAIN disk \ {Temporary(h.id)} |-> disk[name]],
                                  Final(h.id), disk[Temporary(h.id)])
                /\ durable' = durable \cup {h.id}
                /\ hands' = [q \in Boots |-> IF q = p THEN Resting ELSE KeepsOpen(q, h.id)]
           ELSE /\ UNCHANGED <<disk, durable>>
                /\ Moves(p, Resting)
        /\ Told(p, h.id)
        /\ UNCHANGED <<Others, recordings, seals>>

-----------------------------------------------------------------------------
Refile ==
    /\ refilings < MaxRefilings /\ refilings' = refilings + 1
    /\ \/ /\ \E file \in ConfigFiles, stance \in Stances : config' = [config EXCEPT ![file] = stance]
          /\ UNCHANGED <<topology, filing>>
       \/ topology' \in Topologies /\ UNCHANGED <<config, filing>>
       \/ filing' \in Filings /\ UNCHANGED <<config, topology>>
    /\ UNCHANGED <<recordings, hands, bootMode, seals, gateStatus, disk, durable>>

BootNext(p) ==
    \/ \E gate \in Gates : CallGate(p, gate)
    \/ \E key \in RoleKeys : VerifyRole(p, key)
    \/ ReadReceipt(p) \/ ConcludeAttractor(p) \/ Enrich(p)
    \/ OpenTemporary(p) \/ CannotOpen(p) \/ Flush(p) \/ Replace(p)

StartupSpec == StartupInit /\ [][Refile \/ \E p \in Boots : BootNext(p)]_bootVars

-----------------------------------------------------------------------------
\* A proof an interpreter keeps vouches, for each role the gate knows, for the
\* value that the policy read first asks for, that the receipt asserts, and that
\* the file the receipt cites held when it was read for that role, under the
\* hash cited for it, whatever was replaced meanwhile: two roles may have been
\* read from two versions of a file, but none from one that says otherwise.  A
\* frontier it continues is the one authorized, what Notion's policy asked to
\* load was loaded, and nothing the interpreter does later takes its status back.
SealsStand ==
    \A p \in Boots :
      /\ \A gate \in Gates : seals[p][gate] # NoSeal => gateStatus[p][gate] = "complete"
      /\ LET proof == seals[p]["attractor"] IN
           proof # NoSeal =>
             LET row == proof.receipt.attractor IN
             /\ \A key \in RoleKeys :
                  /\ row.roles[key] = proof.policy.roles[key]
                  /\ row.roles[key] = proof.read[key].roles[key]
                  /\ row.evidence[key].cited = proof.read[key]
             /\ row.continuity = "yes" => row.identity = proof.receipt.frontier.identity
      /\ LET proof == seals[p]["notion"] IN
           proof # NoSeal => proof.policy.pages \subseteq proof.receipt.notion.pages

\* A record reported durable is on the disk, whole, and stays so while others
\* record the same thing, unless two of them had its file open at once.
DurableIsOnDisk ==
    \A id \in durable :
      /\ Final(id) \in DOMAIN disk
      /\ disk[Final(id)].content = "whole" \/ disk[Final(id)].shared
=============================================================================
