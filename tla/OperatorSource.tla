---------------------------- MODULE OperatorSource ----------------------------
(***************************************************************************)
(* Quotations of the Operator: operator_source_binding_contract binds a    *)
(* span of a source by hashes, operator_source_authority accepts a         *)
(* verbatim quote of it.  The source, its standing and the contract file   *)
(* change between binding, enforcing and reading back.  A hash stands for  *)
(* what it is of; a source is a sequence of words.                         *)
(***************************************************************************)
EXTENDS Integers, Sequences

CONSTANTS
    Sections,   \* the sections of the contract file, each with its invariants
    Texts,      \* what the source may say
    Kinds,      \* source kinds a binding may claim
    Materials,  \* supplied material put to triage: [origin, use, adopted, scope]
    Literals,   \* number of literal constraints of a receipt
    MaxRewrites \* bound on the changes of source and contract

VARIABLES
    spoken,    \* the source, or Silent when it cannot be resolved
    lapsed,    \* sections of the contract file that lack one of their invariants
    rewrites,
    claim,     \* the binding a caller holds
    request,   \* a verbatim response under check
    emitted,   \* the last quote accepted, with the bytes it was checked against
    triaged    \* the last verdict on supplied material and on literal constraints

operatorVars == <<spoken, lapsed, rewrites, claim, request, emitted, triaged>>

Silent == <<>>
NoClaim == [form |-> "none"]
NoRequest == [form |-> "none"]

Slice(text, from, to) == SubSeq(text, from + 1, to)

OperatorInit ==
    /\ spoken \in Texts /\ lapsed \in SUBSET Sections /\ rewrites = 0
    /\ claim = NoClaim /\ request = NoRequest /\ emitted = NoRequest /\ triaged = "none"

-----------------------------------------------------------------------------
(* Bindings.                                                               *)
Allowed == {"operator_message", "operator_file", "operator_record"}
Derivative == {"assistant_summary", "checkpoint", "index", "manifest", "memory_summary", "profile", "working_model"}

\* validate_source_span_binding_shape, for an active source.
WellShaped(b) ==
    /\ b.kind \in Allowed \ Derivative
    /\ 0 <= b.from /\ b.from < b.to
    /\ b.standing = "active" /\ ~b.superseded

\* Mutant of HashesAgree: the span is there, so the source is not compared.
SpanAgrees(b, text) == b.span = Slice(text, b.from, b.to)

HashesAgree(b, text) == b.source = text /\ b.span = Slice(text, b.from, b.to)

\* verify_source_span_binding: a source that cannot be read is no evidence.
ReadbackHolds(b, text) ==
    /\ WellShaped(b) /\ text # Silent
    /\ b.to <= Len(text) /\ HashesAgree(b, text)

\* A caller hashes the source, then, in another reading, the span.
Bind(kind, from, to) ==
    /\ claim = NoClaim
    /\ claim' = [form |-> "hashed", kind |-> kind, source |-> spoken, from |-> from, to |-> to]
    /\ UNCHANGED <<spoken, lapsed, rewrites, request, emitted, triaged>>

BindSpan ==
    /\ claim.form = "hashed" /\ claim.to <= Len(spoken)
    /\ claim' = [form |-> "bound", kind |-> claim.kind, source |-> claim.source,
                 from |-> claim.from, to |-> claim.to, span |-> Slice(spoken, claim.from, claim.to),
                 standing |-> "active", superseded |-> FALSE]
    /\ UNCHANGED <<spoken, lapsed, rewrites, request, emitted, triaged>>

Overtaken ==
    /\ claim.form = "bound"
    /\ \/ claim' = [claim EXCEPT !.standing = "conflicted"]
       \/ claim' = [claim EXCEPT !.superseded = TRUE]
    /\ UNCHANGED <<spoken, lapsed, rewrites, request, emitted, triaged>>

-----------------------------------------------------------------------------
(* enforce_operator_source_authority reads the file anew at each call and  *)
(* raises at the first section that is missing or weaker.                  *)
EnforceAuthority == lapsed = {}

(* enforce_verbatim_response_fidelity: the contract is read first, then    *)
(* the source; either may refuse, and a refusal raises.                    *)
AskVerbatim(quote) ==
    /\ request = NoRequest
    /\ EnforceAuthority /\ claim.form = "bound" /\ quote # <<>>
    /\ request' = [form |-> "asked", quote |-> quote, binding |-> claim]
    /\ UNCHANGED <<spoken, lapsed, rewrites, claim, emitted, triaged>>

ReadBack ==
    LET b == request.binding IN
    /\ request.form = "asked" /\ request' = NoRequest
    /\ emitted' = IF ReadbackHolds(b, spoken) /\ request.quote = Slice(spoken, b.from, b.to)
                  THEN [form |-> "emitted", quote |-> request.quote, binding |-> b, bytes |-> spoken]
                  ELSE emitted
    /\ UNCHANGED <<spoken, lapsed, rewrites, claim, triaged>>

-----------------------------------------------------------------------------
(* validate_operator_source_binding_shape: indexes are counted from zero.  *)
CoversLiterals(indexes) ==
    /\ Len(indexes) = Literals
    /\ \A k \in 1..Len(indexes) : indexes[k] \in 0..(Literals - 1)
    /\ \A j, k \in 1..Len(indexes) : indexes[j] = indexes[k] => j = k

CheckLiterals ==
    /\ claim.form = "bound" /\ WellShaped(claim)
    /\ \E indexes \in [1..Literals -> 0..Literals] :
         triaged' = IF CoversLiterals(indexes) THEN "LITERALS_COVERED" ELSE "LITERALS_REFUSED"
    /\ UNCHANGED <<spoken, lapsed, rewrites, claim, request, emitted>>

\* assess_supplied_material: an adoption names a source of its own and a scope.
Attributable(m) ==
    IF m.use = "ADOPT" THEN m.adopted \notin {"", m.source} /\ m.scope # ""
    ELSE m.adopted = "" /\ m.scope = ""

TriageOf(m) ==
    CASE m.use = "ADOPT" -> "ADOPTION_CLAIM_PENDING_SOURCE_VERIFICATION"
      [] m.use = "DIRECT" /\ m.origin = "OPERATOR_AUTHORED" ->
           "DECLARED_OPERATOR_DIRECTION_PENDING_SOURCE_VERIFICATION"
      [] m.use # "ADOPT" /\ m.origin = "EXTERNAL_AI" -> "PROPOSAL_FOR_REVIEW"
      [] m.use = "EVALUATE" /\ m.origin = "OPERATOR_AUTHORED" -> "OPERATOR_TEXT_FOR_EVALUATION"
      [] m.use # "ADOPT" /\ m.origin = "UNKNOWN" -> "ORIGIN_UNVERIFIED_REVIEW"

Assess(m) ==
    /\ EnforceAuthority /\ Attributable(m)
    /\ triaged' = TriageOf(m)
    /\ UNCHANGED <<spoken, lapsed, rewrites, claim, request, emitted>>

-----------------------------------------------------------------------------
Rewrite ==
    /\ rewrites < MaxRewrites /\ rewrites' = rewrites + 1
    /\ \/ \E text \in Texts \cup {Silent} : spoken' = text /\ UNCHANGED lapsed
       \/ \E s \in Sections : lapsed' = (IF s \in lapsed THEN lapsed \ {s} ELSE lapsed \cup {s}) /\ UNCHANGED spoken
    /\ UNCHANGED <<claim, request, emitted, triaged>>

OperatorNext ==
    \/ \E kind \in Kinds : \E from \in 0..1 : \E to \in 1..2 : Bind(kind, from, to)
    \/ BindSpan \/ Overtaken \/ ReadBack \/ CheckLiterals \/ Rewrite
    \/ \E text \in Texts : \E from \in 0..Len(text) : AskVerbatim(Slice(text, from, Len(text)))
    \/ \E m \in Materials : Assess(m)

OperatorSpec == OperatorInit /\ [][OperatorNext]_operatorVars

-----------------------------------------------------------------------------
\* A quote that was accepted stands, word for word, where its binding says in
\* a source that is still the one the caller hashed, however often either of
\* the two was read or changed in between; and it is no summary's.
QuotesAreTheOperators ==
    emitted # NoRequest =>
      /\ emitted.quote = Slice(emitted.bytes, emitted.binding.from, emitted.binding.to)
      /\ emitted.bytes = emitted.binding.source /\ emitted.binding.kind \notin Derivative
=============================================================================
