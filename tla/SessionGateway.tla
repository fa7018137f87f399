--------------------------- MODULE SessionGateway ---------------------------
(***************************************************************************)
(* The session gateway (src/src/apex_session_gateway.py) over its SQLite   *)
(* store (apex_session_gateway_store.py): hosts, which may share a turn,   *)
(* recover the context of its mission, reserve the turn, invoke the model, *)
(* check what it returned, persist the continuation and read it back.      *)
(*                                                                         *)
(* Each use of the store is one transaction, which may commit and yet      *)
(* raise; between two of them a host may die, another may work on the same *)
(* turn, and the journal goes on.  The operation key                       *)
(* mission:model:session:turn is the turn itself: the components may not   *)
(* hold a colon, so no two turns have one key.  A digest stands for what   *)
(* it digests.  The host's own obligations (an authentic journal and       *)
(* resolver) are taken as met; file ownership checks are left out.         *)
(***************************************************************************)
EXTENDS Naturals, FiniteSets

CONSTANTS Hosts,
          Turns,
          Missions,
          MissionOf,    \* the mission a turn belongs to
          Corrections,  \* what journals hold
          Speaker,      \* the author of each original source
          Outputs,      \* what models may return
          NoOutput

ProposalKinds == {"user_instruction", "user_correction", "source_quote", "assistant_inference"}
Speakers == {"user", "assistant", "other"}
Sources == DOMAIN Speaker

\* A memory proposal asserts that a source has this author and these words;
\* user_instruction stands for the three kinds the gateway always refuses.
Proposal == [kind: ProposalKinds, source: Sources, speaker: Speakers, exact: BOOLEAN]

ASSUME GatewayAssumption ==
    /\ MissionOf \in [Turns -> Missions]
    /\ Speaker \in [Sources -> Speakers]
    /\ \A o \in Outputs : o.applied \subseteq Corrections /\ o.proposals \subseteq Proposal
    /\ NoOutput \notin Outputs

VARIABLES journal,   \* the corrections each mission's journal holds
          turnRow,   \* apex_session_gateway_continuations
          host,      \* what each host is doing
          invoked,   \* history: invocations of the model
          returned   \* history: what the gateway returned for a turn

gatewayVars == <<journal, turnRow, host, invoked, returned>>

\* A continuation envelope: what was returned, under which corrections.
Envelope == [corrections: SUBSET Corrections, output: Outputs]
NoEnvelope == [corrections |-> {}, output |-> NoOutput]
HostState == [at: {"away", "reserve", "invoke", "persist", "readback"},
              turn: Turns \cup {NoOutput}, recovered: SUBSET Corrections,
              output: Outputs \cup {NoOutput}]
Away == [at |-> "away", turn |-> NoOutput, recovered |-> {}, output |-> NoOutput]

GatewayTypeOK ==
    /\ journal \in [Missions -> SUBSET Corrections]
    /\ turnRow \in [Turns -> [state: {"free", "RESERVED", "CHECKPOINTED"},
                              envelope: Envelope \cup {NoEnvelope}]]
    /\ host \in [Hosts -> HostState]
    /\ invoked \in [Turns -> Nat]
    /\ returned \in [Turns -> Outputs \cup {NoOutput}]

GatewayInit ==
    /\ journal = [m \in Missions |-> {}]
    /\ turnRow = [t \in Turns |-> [state |-> "free", envelope |-> NoEnvelope]]
    /\ host = [h \in Hosts |-> Away]
    /\ invoked = [t \in Turns |-> 0]
    /\ returned = [t \in Turns |-> NoOutput]

-----------------------------------------------------------------------------
\* The operator corrects a mission: the journal grows.
Correct(m, c) ==
    /\ c \notin journal[m]
    /\ journal' = [journal EXCEPT ![m] = @ \cup {c}]
    /\ UNCHANGED <<turnRow, host, invoked, returned>>

Leave(h) == host' = [host EXCEPT ![h] = Away]
Goes(h, at) == host' = [host EXCEPT ![h].at = at]

\* execute_with_recovered_context: a recovery of another mission is refused,
\* and so is an application of the context that differs from it.
Recover(h, t) ==
    /\ host[h].at = "away"
    /\ host' = [host EXCEPT ![h] =
         [Away EXCEPT !.at = "reserve", !.turn = t, !.recovered = journal[MissionOf[t]]]]
    /\ UNCHANGED <<journal, turnRow, invoked, returned>>

\* Mutant of Reserve: INSERT OR REPLACE.
ReserveReplacing(h) ==
    /\ host[h].at = "reserve"
    /\ turnRow' = [turnRow EXCEPT ![host[h].turn].state = "RESERVED"]
    /\ Goes(h, "invoke") \/ Leave(h)
    /\ UNCHANGED <<journal, invoked, returned>>

\* reserve: INSERT OR IGNORE.
Reserve(h) ==
    LET t == host[h].turn IN
    /\ host[h].at = "reserve"
    /\ IF turnRow[t].state = "free"
       THEN /\ turnRow' = [turnRow EXCEPT ![t].state = "RESERVED"]
            /\ Goes(h, "invoke") \/ Leave(h)
       ELSE Leave(h) /\ UNCHANGED turnRow
    /\ UNCHANGED <<journal, invoked, returned>>

\* The rules of _validate_output for the kind of a proposal.
Permitted(p) ==
    /\ p.kind # "user_instruction"
    /\ p.kind = "user_correction" => p.speaker = "user"
    /\ p.kind = "assistant_inference" => p.speaker = "assistant"

\* _verify_assertion reads the original source again.
Sourced(p) == p.exact /\ Speaker[p.source] = p.speaker /\ Permitted(p)

Valid(o, recovered) == o.applied = recovered /\ \A p \in o.proposals : Sourced(p)

\* The model is invoked and its output checked.
Invoke(h) ==
    LET t == host[h].turn IN
    /\ host[h].at = "invoke"
    /\ invoked' = [invoked EXCEPT ![t] = @ + 1]
    /\ \E o \in Outputs :
         IF Valid(o, host[h].recovered)
         THEN host' = [host EXCEPT ![h].at = "persist", ![h].output = o]
         ELSE Leave(h)
    /\ UNCHANGED <<journal, turnRow, returned>>

\* Mutant of EnvelopeOf: the corrections known when the envelope is built.
EnvelopeOfNow(h) ==
    [corrections |-> journal[MissionOf[host[h].turn]], output |-> host[h].output]

EnvelopeOf(h) == [corrections |-> host[h].recovered, output |-> host[h].output]

Persist(h) ==
    LET t == host[h].turn IN
    /\ host[h].at = "persist"
    /\ IF turnRow[t].state = "RESERVED"
       THEN /\ turnRow' = [turnRow EXCEPT ![t] =
                 [state |-> "CHECKPOINTED", envelope |-> EnvelopeOf(h)]]
            /\ Goes(h, "readback") \/ Leave(h)
       ELSE Leave(h) /\ UNCHANGED turnRow
    /\ UNCHANGED <<journal, invoked, returned>>

Readback(h) ==
    LET t == host[h].turn IN
    /\ host[h].at = "readback"
    /\ returned' = IF turnRow[t] = [state |-> "CHECKPOINTED", envelope |-> EnvelopeOf(h)]
                   THEN [returned EXCEPT ![t] = host[h].output] ELSE returned
    /\ Leave(h)
    /\ UNCHANGED <<journal, turnRow, invoked>>

\* A callback raises, or the host dies: the reservation stays.
GiveUp(h) ==
    /\ host[h].at # "away"
    /\ Leave(h)
    /\ UNCHANGED <<journal, turnRow, invoked, returned>>

-----------------------------------------------------------------------------
HostStep(h) ==
    \/ \E t \in Turns : Recover(h, t)
    \/ Reserve(h) \/ Invoke(h) \/ Persist(h) \/ Readback(h) \/ GiveUp(h)

GatewayNext ==
    \/ \E h \in Hosts : HostStep(h)
    \/ \E m \in Missions, c \in Corrections : Correct(m, c)

GatewaySpec == GatewayInit /\ [][GatewayNext]_gatewayVars

-----------------------------------------------------------------------------
(* Properties.                                                             *)

\* However many hosts are given a turn, and wherever they fail, its model is
\* invoked at most once.
InvokedOnce == \A t \in Turns : invoked[t] <= 1

\* What the gateway returned for a turn is what the store holds for it, and
\* holds the corrections that the model was given, all of which the mission's
\* journal contains.
ReturnedIsStored ==
    \A t \in Turns : returned[t] # NoOutput =>
        /\ turnRow[t].state = "CHECKPOINTED"
        /\ turnRow[t].envelope.output = returned[t]
        /\ turnRow[t].envelope.corrections = returned[t].applied
        /\ returned[t].applied \subseteq journal[MissionOf[t]]

\* No user direction is stored, and what is stored as a user's correction is
\* the user's own words.
StoredIsSourced ==
    \A t \in Turns : turnRow[t].state = "CHECKPOINTED" =>
        \A p \in turnRow[t].envelope.output.proposals :
            /\ p.kind # "user_instruction"
            /\ p.kind = "user_correction" => p.exact /\ Speaker[p.source] = "user"

\* The gateway implements OneShot: a turn is running while some host that
\* reserved it has not let go.
Holds(h, t, at) == host[h].turn = t /\ host[h].at = at
Progress(t) ==
    IF turnRow[t].state = "free" THEN "open"
    ELSE IF turnRow[t].state = "CHECKPOINTED" THEN "answered"
    ELSE IF \E h \in Hosts : Holds(h, t, "invoke") THEN "claimed"
    ELSE IF \E h \in Hosts : Holds(h, t, "persist") THEN "running"
    ELSE "lost"

Shots == INSTANCE OneShot WITH turn <- [t \in Turns |-> Progress(t)], runs <- invoked
ImplementsOneShot == Shots!OneShotSpec
=============================================================================
