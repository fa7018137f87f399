------------------------------ MODULE MCPlanes ------------------------------
(* Instances of the in-process planes, which share no state: one to a      *)
(* behaviour, named by focus.                                              *)
EXTENDS ProviderAdmission, CaseIntake, ConnectorRuntime,
        MissionResume, DurableMutation, CaptureHandoff,
        LocalExecution, Frontier, Reconciliation,
        MCExecutionFabric,
        CasePursuit,
        StartupGates,
        OperatorSource, TLC

VARIABLE focus

-----------------------------------------------------------------------------
(* ProviderAdmission: two actions approved exactly, of one key and two     *)
(* contents; one more with a key of its own; one under an envelope only;   *)
(* one whose evidence calls for research.                                  *)
Rule == [enabled |-> TRUE, authorized |-> TRUE, idempotent |-> TRUE, readback |-> TRUE]
MCCatalog ==
    [complete |-> TRUE,
     security |-> [credentials |-> FALSE, receipts |-> TRUE, sourceBound |-> TRUE],
     connectors |-> {"mem", "supabase", "gmail"},
     profiles |-> [knowledge |-> {"mem"}],
     reads |-> {"mem.record.read"},
     writes |-> [op \in {"mem.note.create", "supabase.row.update", "gmail.message.send"} |-> Rule]]
MCTransports == [direct |-> "authenticated_chatgpt_connectors",
                 session |-> "authenticated_session_provider_bridge"]
Ready == [state |-> "observed", radius |-> 1, reversible |-> 1, novel |-> FALSE, has |-> {"source"}]
Act(id, op, content, key, approved, envelope, evidence) ==
    [id |-> id, operation |-> op, content |-> content, key |-> key, complete |-> TRUE,
     approved |-> approved, envelope |-> envelope, reference |-> "plan", marks |-> {},
     evidence |-> evidence, rehearsedFor |-> op,
     statement |-> [single |-> TRUE, verb |-> "update", where |-> TRUE]]
Of(op, content, key) == [operation |-> op, content |-> content, key |-> key]
MCEnvelope == [kind |-> "plan_batch", source |-> "plan", plan |-> TRUE,
               operations |-> {"supabase.row.update"}, contents |-> {"c2"}, allows |-> {}]
MCActions ==
    {Act("a1", "mem.note.create", "c1", "k1", Of("mem.note.create", "c1", "k1"), {}, Ready),
     Act("a2", "mem.note.create", "c2", "k1", Of("mem.note.create", "c2", "k1"), {}, Ready),
     Act("a3", "supabase.row.update", "c2", "k2", Of("", "", ""), {MCEnvelope}, Ready),
     Act("a4", "mem.note.create", "c3", "k2", Of("mem.note.create", "c3", "k2"), {},
         [Ready EXCEPT !.radius = 2])}
Seen(id, op) == [id |-> id, connector |-> "mem", profile |-> "knowledge", operation |-> op,
                 target |-> TRUE, complete |-> TRUE, success |-> TRUE, authorizes |-> FALSE,
                 mapped |-> TRUE, select |-> FALSE]
MCReads == {Seen("r1", "mem.record.read"), Seen("r2", "mem.record.read"), Seen("r3", "mem.record.drop")}
Outcome(state, readback, verified) == [state |-> state, readback |-> readback, verified |-> verified]
MCOutcomes == {Outcome("success", "after", TRUE), Outcome("success", "before", TRUE),
               Outcome("success", "none", TRUE), Outcome("failure", "after", FALSE)}

(* CaseIntake: an allegation and a fact that differ, indicators that are   *)
(* mild, alarming or broken.                                               *)
Says(class, status, deadline) ==
    [sourced |-> TRUE, class |-> class, status |-> status, deadline |-> deadline]
MCContents == {Says("allegation", "unverified", NoDeadline), Says("verified_fact", "verified", 7),
               Says("model_inference", "pending_review", 8), Says("verified_fact", "rejected", 1)}
Hint(weight, corroboration, urgency, parses) ==
    [weight |-> weight, corroboration |-> corroboration, urgency |-> urgency, parses |-> parses]
MCThreats == {{}, {Hint(30, 5, 0, TRUE)}, {Hint(30, 9, -1, TRUE), Hint(10, -1, 0, TRUE)},
              {Hint(35, 9, 80, TRUE)}, {Hint(10, 0, 0, FALSE)}}

(* ConnectorRuntime: a small worker and a larger one that can do more.     *)
MCCapacity == <<1, 3>>
MCSkills == <<{}, {"render"}>>

(* MissionResume: two steps, the second of which waits for the first and   *)
(* has a provider that refuses repeats.                                   *)
MCDeps == <<{}, {1}>>

(* CaptureHandoff: a dated action, one without authority for tasks, a note. *)
Note(kind, offset, authority) ==
    [kind |-> kind, offset |-> offset, portable |-> TRUE, authority |-> authority]
MCCaptures == {Note("action", 3, {"ingest", "task"}), Note("action", 0, {"ingest"}),
               Note("decision", 0, {"ingest", "task"})}

(* Frontier: a full account of one claim; another that has none; one that  *)
(* keeps the claim to itself; one that leaves out an input and vouches for *)
(* itself.                                                                 *)
Account(claims, inputs, first, implementation, independent) ==
    [claims |-> claims, inputs |-> inputs, named |-> [n1 |-> first, n2 |-> {}],
     implementation |-> implementation, independent |-> independent]
MCProfiles == {Account({"x"}, {"n1", "n2"}, {"x"}, "v1", TRUE), Account({}, {"n1", "n2"}, {}, "v2", TRUE),
               Account({}, {"n1", "n2"}, {"x"}, "v1", TRUE), Account({}, {"n2"}, {"x"}, "v1", FALSE)}

(* StartupGates: a policy with two roles, one that asks for more, one that  *)
(* turns a role round, two that do not load: a role is missing, or is one   *)
(* too many; receipts that cite the policy as one of these, or as a         *)
(* different one for each role, or another file; one that continues a       *)
(* frontier.                                                                *)
Stance(fields, roles) ==
    [fields |-> fields, continuity |-> {"held"}, failClosed |-> TRUE, roles |-> roles]
Peers(value) == [peers |-> value, operator |-> TRUE]
MCCrowded == Stance({"f1"}, [peers |-> TRUE, operator |-> TRUE, guests |-> FALSE])
MCStances == {Stance({"f1"}, Peers(TRUE)), Stance({"f1", "f2"}, Peers(TRUE)),
              Stance({"f1"}, Peers(FALSE)), Stance({"f1"}, [operator |-> TRUE]), MCCrowded}
Aliases == [search |-> {"notion.search"}, fetch |-> {"notion.fetch"}, work |-> {"github.search"}]
Pages(pages) == [observes |-> TRUE, aliases |-> Aliases, pages |-> pages, minPages |-> 1, minSystems |-> 2,
                 foundDecisions |-> {"map_existing"}]
MCTopologies == {Pages({<<"n1", "identity">>}), Pages({<<"n1", "identity">>, <<"n2", "state">>})}
Cites(name, cited) == [traced |-> TRUE, file |-> name, cited |-> cited]
Stands(peers, operator, continuity, identity) ==
    [fields |-> {"f1", "f2"}, roles |-> Peers(TRUE), evidence |-> [peers |-> peers, operator |-> operator],
     continuity |-> continuity, held |-> {"held"}, blocked |-> FALSE,
     partial |-> FALSE, identity |-> identity, refs |-> {"src"}]
AllCite(cited, continuity, identity) ==
    Stands(Cites("policy", cited), Cites("policy", cited), continuity, identity)
Mapped(pages, found, owner, mapOwner, override, newRoot) ==
    [analysed |-> TRUE, loaded |-> {"notion.search", "notion.fetch", "github.search"},
     tool |-> [search |-> "notion.search", fetch |-> "notion.fetch", work |-> "github.search"], pages |-> pages, systems |-> {"notion", "github"}, found |-> found,
     candidates |-> found, owner |-> owner, decision |-> IF found THEN "map_existing" ELSE "map_none_found",
     map |-> [relations |-> {"owner", "consumer", "dependency", "overlap"}, kept |-> TRUE, owner |-> mapOwner,
              override |-> override, decision |-> IF override THEN "operator_override" ELSE "map_only",
              newRoot |-> newRoot]]
Filed(stands, notion) == [form |-> "receipt", attractor |-> stands, notion |-> notion,
                       frontier |-> [identity |-> "fr1", refs |-> {"src"}]]
OnePage == {<<"n1", "identity">>}
TwoPages == {<<"n1", "identity">>, <<"n2", "state">>}
MCPlain == Stance({"f1"}, Peers(TRUE))
MCWider == Stance({"f1", "f2"}, Peers(TRUE))
MCFilings ==
    {Filed(AllCite(MCPlain, "no", "none"), Mapped(TwoPages, TRUE, "o1", "o1", FALSE, FALSE)),
     Filed(Stands(Cites("policy", MCPlain), Cites("policy", MCWider), "no", "none"),
           Mapped(OnePage, FALSE, "nobody", "nobody", TRUE, TRUE)),
     Filed(Stands(Cites("other", Stance({"f1"}, Peers(FALSE))), Cites("policy", MCPlain), "no", "none"),
           Mapped(OnePage, FALSE, "nobody", "nobody", TRUE, TRUE)),
     Filed(AllCite(MCWider, "yes", "fr1"), Mapped(OnePage, TRUE, "o1", "o2", FALSE, FALSE)),
     Filed(AllCite(MCPlain, "yes", "fr2"), Mapped(OnePage, FALSE, "nobody", "nobody", FALSE, TRUE)),
     Filed(AllCite(MCCrowded, "no", "none"), Mapped(TwoPages, TRUE, "o1", "o1", FALSE, FALSE))}

(* OperatorSource: a source that grows at either end; a model's summary.    *)
MCTexts == {<<"w1">>, <<"w1", "w2">>, <<"w0", "w1", "w2">>}
Material(origin, use, adopted, scope) ==
    [origin |-> origin, use |-> use, source |-> "s1", adopted |-> adopted, scope |-> scope]
MCMaterials == {Material("EXTERNAL_AI", "ADOPT", "s2", "part"), Material("EXTERNAL_AI", "ADOPT", "s1", "part"),
                Material("OPERATOR_AUTHORED", "DIRECT", "", "")}

(* CasePursuit: lanes between the evidence and the acknowledgement.          *)
MCLaneStates == {"EVIDENCE_TRIGGERED", "REFERRAL_READY", "TRANSMITTED", "ACK_PENDING", "QUARANTINED"}

-----------------------------------------------------------------------------
PlanesInit ==
    /\ focus \in {"admission", "intake", "router", "connector", "steps",
                  "changeset", "ledger", "lifecycle", "capture", "core", "direct", "command",
                  "frontier", "reconcile", "fabric", "lanes", "pursuit", "gates", "records", "operator"}
    /\ AdmissionInit /\ IntakeInit /\ RuntimeInit
    /\ StepsInit /\ EffectsInit /\ ChangesetInit /\ LedgerInit /\ LifecycleInit
    /\ LanesInit /\ PursuitInit /\ DirectInit
    /\ CaptureInit /\ (focus # "capture" => capture = Note("decision", 0, {"ingest", "task"}))
    /\ CoreInit /\ (focus # "core" => ~idempotent)
    /\ CommandInit /\ (focus # "command" => file = 0)
    /\ ReconcileInit /\ (focus # "reconcile" => \A r \in Repositories : pipelines[r] = "none")
    /\ FabricInit /\ (focus # "fabric" => ~workload.receipts)
    /\ StartupInit
    /\ config["other"] = Stance({"f1"}, Peers(FALSE)) /\ topology = Pages(OnePage)
    /\ config["policy"] \in {MCPlain, MCWider}
    /\ focus # "gates" => config["policy"] = MCPlain /\ filing = Unfiled /\ bootMode = "strict"
    /\ OperatorInit /\ lapsed = {} /\ (focus # "operator" => spoken = <<"w1">>)
    /\ FrontierInit
    /\ focus # "frontier" => receipt.overtaken = "no" /\ receipt.enumerated
                              /\ \A d \in Documents : \E p \in {CHOOSE q \in Profiles : TRUE} :
                                    sources[d] = Document(d, p)

planeVars == <<operatorVars, bootVars, caseVars, fabricVars, reconcileVars, admissionVars, intakeVars, runtimeVars, missionVars, durableVars, captureVars,
               localVars, frontierVars>>

\* Only the variables of the component in focus change.
Alone(component) ==
    /\ IF component = "admission" THEN TRUE ELSE UNCHANGED admissionVars
    /\ IF component = "intake" THEN TRUE ELSE UNCHANGED intakeVars
    /\ IF component = "runtime" THEN TRUE ELSE UNCHANGED runtimeVars
    /\ IF component = "mission" THEN TRUE ELSE UNCHANGED missionVars
    /\ IF component = "durable" THEN TRUE ELSE UNCHANGED durableVars
    /\ IF component = "capture" THEN TRUE ELSE UNCHANGED captureVars
    /\ IF component = "local" THEN TRUE ELSE UNCHANGED localVars
    /\ IF component = "frontier" THEN TRUE ELSE UNCHANGED frontierVars
    /\ IF component = "reconcile" THEN TRUE ELSE UNCHANGED reconcileVars
    /\ IF component = "fabric" THEN TRUE ELSE UNCHANGED fabricVars
    /\ IF component = "case" THEN TRUE ELSE UNCHANGED caseVars
    /\ IF component = "startup" THEN TRUE ELSE UNCHANGED bootVars
    /\ IF component = "operator" THEN TRUE ELSE UNCHANGED operatorVars

PlanesNext ==
    /\ UNCHANGED focus
    /\ \/ focus = "admission" /\ AdmissionNext /\ Alone("admission")
       \/ focus = "intake" /\ IntakeNext /\ Alone("intake")
       \/ focus = "router" /\ RouterNext /\ Alone("runtime")
       \/ focus = "connector" /\ ConnectorNext /\ Alone("runtime")
       \/ focus = "steps" /\ StepsNext /\ Alone("mission")
       \/ focus = "changeset" /\ ChangesetNext /\ Alone("durable")
       \/ focus = "ledger" /\ LedgerNext /\ Alone("durable")
       \/ focus = "lifecycle" /\ LifecycleNext /\ Alone("durable")
       \/ focus = "capture" /\ CaptureNext /\ Alone("capture")
       \/ focus = "core" /\ CoreNext /\ Alone("local")
       \/ focus = "direct" /\ DirectNext /\ Alone("local")
       \/ focus = "command" /\ CommandNext /\ Alone("local")
       \/ focus = "frontier" /\ FrontierNext /\ Alone("frontier")
       \/ focus = "reconcile" /\ ReconcileNext /\ Alone("reconcile")
       \/ focus = "fabric" /\ FabricNext /\ Alone("fabric")
       \/ focus = "lanes" /\ LanesNext /\ Alone("case") /\ \A l \in Lanes : lanes'[l].state \in MCLaneStates
       \/ focus = "pursuit" /\ PursuitNext /\ Alone("case")
       \/ focus = "gates" /\ (BootNext(1) \/ Refile) /\ Alone("startup") /\ recordings' < 2
       \/ focus = "records" /\ (\E p \in Boots : BootNext(p)) /\ Alone("startup")
       \/ focus = "operator" /\ OperatorNext /\ Alone("operator")

PlanesSpec == PlanesInit /\ [][PlanesNext]_<<planeVars, focus>>
=============================================================================
