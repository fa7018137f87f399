------------------------------- MODULE Frontier -------------------------------
(***************************************************************************)
(* Authorization of an executable frontier                                 *)
(* (strict_executable_frontier_authority and the five authorities it       *)
(* calls).  A receipt names documents and the hashes they must have; the   *)
(* documents themselves are read from their sources, again and again, and  *)
(* can be edited or go offline between two of the five validations.  A     *)
(* hash stands for the content it is of.                                   *)
(***************************************************************************)
EXTENDS Integers, FiniteSets

CONSTANTS
    Claims,      \* execution claims
    Inputs,      \* material inputs, each a document that names claims
    Profiles,    \* what documents may say: [claims, inputs, named, implementation, independent]
    Gone,        \* what is read of a document that cannot be resolved
    MaxEdits     \* bound on edits of the sources

VARIABLES
    receipt,     \* the frontier receipt of the turn
    sources,     \* every document, as it is now
    validation,  \* which validation is next, or the verdict
    discovered,  \* the claims that discovery derived
    providerSaid,  \* history: the provider's record when the lineage was checked
    edits

frontierVars == <<receipt, sources, validation, discovered, providerSaid, edits>>

-----------------------------------------------------------------------------
(* Documents.                                                              *)
Artifacts == {"enumeration", "completeness", "entailment", "collector", "identity", "execution"}
Documents == Artifacts \cup Inputs
               \cup {"manifest", "basis", "direction", "provider", "implementation", "readback", "output"}

\* derive_frontier_id: direction and propositions are the same throughout.
FrontierOf(claims) == <<"frontier", claims>>
VerifierOf(implementation) == <<"verifier", implementation>>

Document(d, p) ==
    LET frontier == FrontierOf(p.claims)
        manifest == [frontier |-> frontier, collector |-> "collector", inputs |-> p.inputs]
        verifier == VerifierOf(p.implementation)
        ran == [frontier |-> frontier, verifier |-> verifier,
                implementation |-> p.implementation, output |-> p.claims]
    IN  CASE d = "manifest"     -> manifest
          [] d = "enumeration"  -> [frontier |-> frontier, independent |-> p.independent,
                                    manifest |-> manifest, inputs |-> p.inputs,
                                    hashes |-> [i \in p.inputs |-> p.named[i]],
                                    candidates |-> p.claims]
          [] d = "completeness" -> [frontier |-> frontier, independent |-> p.independent,
                                    basis |-> p.named, required |-> p.claims]
          [] d = "entailment"   -> [frontier |-> frontier, independent |-> p.independent,
                                    claims |-> p.claims]
          [] d = "collector"    -> [frontier |-> frontier, collector |-> "collector",
                                    manifest |-> manifest, inputs |-> p.inputs,
                                    verifier |-> verifier]
          [] d = "identity"     -> [frontier |-> frontier, verifier |-> verifier,
                                    implementation |-> p.implementation]
          [] d \in {"execution", "readback"} -> ran
          [] d = "provider"     -> [claims |-> p.claims, verified |-> p.independent]
          [] d = "output"       -> p.claims
          [] d = "basis"        -> p.named
          [] d = "direction"    -> "direction"
          [] d = "implementation" -> p.implementation
          [] d \in Inputs       -> p.named[d]

\* A receipt can quote documents that do not agree: the enumeration of one
\* profile, the frontier of another, the attestations of a third.  A claim it
\* carries over from earlier may have been contradicted or superseded since.
Attestations == {"collector", "identity", "execution", "implementation", "readback", "output"}
Quoted(d, p, q, r) ==
    IF d \in Attestations THEN Document(d, r)
    ELSE IF d \in Inputs \cup {"enumeration", "manifest"} THEN Document(d, p)
    ELSE Document(d, q)

FrontierInit ==
    /\ \E p, q, r \in Profiles : \E enumerated \in BOOLEAN :
       \E overtaken \in {"no", "contradicted", "superseded"} :
         /\ receipt = [enumerated |-> enumerated, frontier |-> FrontierOf(q.claims),
                       pins |-> [d \in Artifacts |-> Quoted(d, p, q, r)],
                       direction |-> "direction", overtaken |-> overtaken,
                       lineage |-> {[claim |-> c, evidence |-> Document("provider", q)] : c \in q.claims}]
         /\ sources = [d \in Documents |-> Quoted(d, p, q, r)]
    /\ validation = "discover" /\ discovered = {}
    /\ providerSaid = Gone /\ edits = 0

\* A document is edited or goes offline at any time.
EditSource ==
    /\ edits < MaxEdits /\ edits' = edits + 1
    /\ validation \notin {"authorized", "refused"}
    /\ \E d \in Documents : \E p \in Profiles : \E content \in {Document(d, p), Gone} :
         content # sources[d] /\ sources' = [sources EXCEPT ![d] = content]
    /\ UNCHANGED <<receipt, validation, discovered, providerSaid>>

Pinned(d) == sources[d] # Gone /\ sources[d] = receipt.pins[d]
Onward(holds, next) == validation' = IF holds THEN next ELSE "refused"

-----------------------------------------------------------------------------
(* Discovery: the runtime derives the claims from the material inputs.     *)
NamedIn(inputs) == UNION {sources[i] : i \in {j \in inputs : sources[j] # Gone}}

ManifestValid(e) ==
    LET m == sources["manifest"]
    IN  /\ m # Gone /\ e.manifest = m
        /\ m.frontier = receipt.frontier /\ m.inputs = e.inputs /\ m.inputs # {}

InputsAsHashed(e) == \A i \in e.inputs : sources[i] # Gone /\ e.hashes[i] = sources[i]

EnumerationValid ==
    LET e == sources["enumeration"]
    IN  /\ Pinned("enumeration")
        /\ e.frontier = receipt.frontier /\ e.independent
        /\ ManifestValid(e) /\ InputsAsHashed(e)
        /\ e.candidates = NamedIn(e.inputs)

\* Without an enumeration the claims named by whatever the receipt refers to
\* are taken; the collector's validation then has nothing to go on.
Referred == {"direction", "provider", "collector", "identity", "execution"}

Discover ==
    /\ validation = "discover"
    /\ IF receipt.enumerated
       THEN /\ Onward(EnumerationValid, "base")
            /\ discovered' = IF EnumerationValid THEN NamedIn(sources["enumeration"].inputs) ELSE {}
       ELSE /\ Onward(\A d \in Referred : sources[d] # Gone, "base")
            /\ discovered' = IF sources["provider"] = Gone THEN {} ELSE sources["provider"].claims
    /\ UNCHANGED <<receipt, sources, providerSaid, edits>>

-----------------------------------------------------------------------------
(* The base authority, for the derived claims.                             *)
DirectionBound == sources["direction"] # Gone /\ sources["direction"] = receipt.direction

\* Mutant of EvidenceVerified: the record is taken as the receipt quotes it.
EvidenceAsQuoted(record) ==
    record.claim \in record.evidence.claims /\ record.evidence.verified

\* Each claim is of the provider's own record, read again now.
EvidenceVerified(record) ==
    /\ sources["provider"] # Gone /\ sources["provider"] = record.evidence
    /\ record.claim \in record.evidence.claims /\ record.evidence.verified

LineageCurrent ==
    /\ {record.claim : record \in receipt.lineage} = discovered
    /\ \A record \in receipt.lineage : receipt.overtaken = "no" /\ EvidenceVerified(record)

BasisAuthoritative(c) == sources["basis"] # Gone /\ sources["basis"] = c.basis

CompletenessProven ==
    LET c == sources["completeness"]
    IN  /\ Pinned("completeness") /\ BasisAuthoritative(c)
        /\ c.frontier = receipt.frontier /\ c.required = discovered /\ c.independent

Entailed ==
    LET t == sources["entailment"]
    IN  /\ Pinned("entailment")
        /\ t.frontier = receipt.frontier /\ t.claims = discovered /\ t.independent

AuthorizeBase ==
    /\ validation = "base"
    /\ Onward(/\ receipt.frontier = FrontierOf(discovered)
              /\ DirectionBound /\ LineageCurrent /\ CompletenessProven /\ Entailed, "collector")
    /\ providerSaid' = sources["provider"]
    /\ UNCHANGED <<receipt, sources, discovered, edits>>

-----------------------------------------------------------------------------
(* Collector, verifier and the verifier's run.                             *)
\* The enumeration is read again here, and not hashed again.
CollectorAttested ==
    LET e == sources["enumeration"]
        m == sources["manifest"]
        a == sources["collector"]
    IN  /\ receipt.enumerated /\ e # Gone /\ m # Gone
        /\ e.manifest = m /\ m.frontier = receipt.frontier /\ m.inputs # {}
        /\ Pinned("collector")
        /\ a.frontier = receipt.frontier /\ a.collector = m.collector
        /\ a.manifest = e.manifest /\ a.inputs = m.inputs /\ a.verifier # m.collector

AuthorizeCollector ==
    /\ validation = "collector" /\ Onward(CollectorAttested, "identity")
    /\ UNCHANGED <<receipt, sources, discovered, providerSaid, edits>>

VerifierIdentified ==
    LET i == sources["identity"]
    IN  /\ Pinned("collector") /\ Pinned("identity") /\ sources["implementation"] # Gone
        /\ i.frontier = receipt.frontier
        /\ i.implementation = sources["implementation"]
        /\ i.verifier = VerifierOf(sources["implementation"])
        /\ sources["collector"].verifier = i.verifier

AuthorizeVerifier ==
    /\ validation = "identity" /\ Onward(VerifierIdentified, "execution")
    /\ UNCHANGED <<receipt, sources, discovered, providerSaid, edits>>

\* The identity is read again here, and not hashed again.
VerifierExecuted ==
    LET i == sources["identity"]
        x == sources["execution"]
    IN  /\ i # Gone /\ Pinned("execution")
        /\ x.frontier = receipt.frontier
        /\ x.verifier = i.verifier /\ x.implementation = i.implementation
        /\ sources["readback"] = x
        /\ sources["output"] # Gone /\ sources["output"] = x.output

AuthorizeExecution ==
    /\ validation = "execution" /\ Onward(VerifierExecuted, "authorized")
    /\ UNCHANGED <<receipt, sources, discovered, providerSaid, edits>>

FrontierNext ==
    \/ EditSource \/ Discover \/ AuthorizeBase
    \/ AuthorizeCollector \/ AuthorizeVerifier \/ AuthorizeExecution

FrontierSpec == FrontierInit /\ [][FrontierNext]_frontierVars

-----------------------------------------------------------------------------
(* Property.                                                               *)
\* A frontier is authorized only for the claims that the inputs, as the
\* receipt's enumeration hashed them, really name; of these none was overtaken,
\* and the provider's own record, as it was read while the lineage was checked,
\* verified each of them and was what the receipt quotes of it, whatever is
\* edited while the five validations run.  (The record is read once: an edit
\* after that goes unseen.)  (validate_strict_executable_frontier_authority)
AuthorizedIsComplete ==
    validation = "authorized" =>
        LET e == receipt.pins["enumeration"]
            named == UNION {e.hashes[i] : i \in e.inputs}
        IN  /\ receipt.frontier = FrontierOf(named)
            /\ named = {record.claim : record \in receipt.lineage}
            /\ named = receipt.pins["completeness"].required
            /\ named # {} => receipt.overtaken = "no"
            /\ \A record \in receipt.lineage :
                 /\ providerSaid # Gone /\ providerSaid = record.evidence
                 /\ record.claim \in providerSaid.claims /\ providerSaid.verified
=============================================================================
