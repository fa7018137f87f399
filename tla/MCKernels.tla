----------------------------- MODULE MCKernels -----------------------------
(* Instances of the components that share no state with each other, one    *)
(* component to a behaviour: focus is the one that runs.                   *)
EXTENDS ContinuousControl, RuntimeKernel, SessionGateway, GithubCircuit, MissionResume, TLC

CONSTANTS local, outside, localEvent, outsideEvent,
          turn1, turn2, mission1, mission2, mine, yours

VARIABLE focus

(* ContinuousControl: one local item and one external, each of an event.   *)
(* What operators, deaths and sweeps can do is bounded together.           *)
MCRoutes == localEvent :> {local} @@ outsideEvent :> {outside}
MCRequired == local :> {"execution", "verification"} @@ outside :> {"verification"}
Scope(e, deaths, sweeps, moves) ==
    [offered |-> {e}, deaths |-> deaths, sweeps |-> sweeps, moves |-> moves]
MCScopes == {Scope(localEvent, 1, 0, 0), Scope(localEvent, 0, 0, 1),
             Scope(outsideEvent, 1, 1, 1), Scope(outsideEvent, 0, 0, 6)}

(* SessionGateway: two turns of different missions; outputs that apply any *)
(* corrections, with proposals that are in order, misattributed or refused.*)
MCMissionOf == turn1 :> mission1 @@ turn2 :> mission2
MCSpeaker == mine :> "user" @@ yours :> "assistant"
Proposes(kind, source, speaker) ==
    [kind |-> kind, source |-> source, speaker |-> speaker, exact |-> TRUE]
MCOutputs ==
    [applied: SUBSET Corrections,
     proposals: {{}, {Proposes("user_correction", mine, "user")},
                 {Proposes("user_correction", yours, "user"),
                  Proposes("assistant_inference", yours, "assistant")},
                 {Proposes("user_instruction", mine, "user")}}]

(* MissionResume without steps: the connector effects alone.               *)
MCNoDeps == [t \in Steps |-> {}]

-----------------------------------------------------------------------------
MCInit ==
    /\ focus \in {"control", "kernel", "gateway", "circuit", "effects"}
    /\ ControlInit /\ KernelInit /\ GatewayInit /\ CircuitInit /\ StepsInit /\ EffectsInit
    /\ focus # "control" => scope = Scope(localEvent, 0, 0, 1)

Control(A) ==
    focus = "control" /\ A /\ UNCHANGED <<kernelVars, gatewayVars, circuitVars, missionVars, focus>>
Kernel(A) ==
    focus = "kernel" /\ A /\ UNCHANGED <<controlVars, gatewayVars, circuitVars, missionVars, focus>>
Gateway(A) ==
    focus = "gateway" /\ A /\ UNCHANGED <<controlVars, kernelVars, circuitVars, missionVars, focus>>
Circuit(A) ==
    focus = "circuit" /\ A /\ UNCHANGED <<controlVars, kernelVars, gatewayVars, missionVars, focus>>
Effects(A) ==
    focus = "effects" /\ A /\ UNCHANGED <<controlVars, kernelVars, gatewayVars, circuitVars, focus>>

MCNext ==
    \/ Control(ControlNext) \/ Kernel(KernelNext) \/ Gateway(GatewayNext)
    \/ Circuit(CircuitNext) \/ Effects(EffectsNext)

allVars == <<controlVars, kernelVars, gatewayVars, circuitVars, missionVars, focus>>
MCSpec == MCInit /\ [][MCNext]_allVars

\* With the fairness of FairCircuit: nothing is assumed of the others.
MCFairSpec == MCSpec /\ \A c \in Calls : WF_allVars(Circuit(CircuitCall(c)))
=============================================================================
