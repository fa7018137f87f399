------------------------------ MODULE OneShot ------------------------------
(***************************************************************************)
(* What the session gateway promises of each model turn, and the mission   *)
(* router of each connector effect: it is claimed once, runs once, and is  *)
(* then answered once or lost for good.  Nothing leads back: a turn whose  *)
(* outcome is in doubt never runs again.                                   *)
(***************************************************************************)
EXTENDS Naturals

CONSTANT Turns

VARIABLES turn,   \* how far each turn has come
          runs    \* how often its model was invoked

oneShotVars == <<turn, runs>>

OneShotInit ==
    /\ turn = [t \in Turns |-> "open"]
    /\ runs = [t \in Turns |-> 0]

Goes(t, from, to) == turn[t] \in from /\ turn' = [turn EXCEPT ![t] = to]

\* A claim may be lost at once: whoever made it never learns of it.
Claimed(t) == \E to \in {"claimed", "lost"} : Goes(t, {"open"}, to) /\ UNCHANGED runs

\* What the model returns may be refused at once.
Runs(t) ==
    /\ \E to \in {"running", "lost"} : Goes(t, {"claimed"}, to)
    /\ runs' = [runs EXCEPT ![t] = @ + 1]

Answered(t) == Goes(t, {"running"}, "answered") /\ UNCHANGED runs
Lost(t) == Goes(t, {"claimed", "running"}, "lost") /\ UNCHANGED runs

OneShotNext == \E t \in Turns : Claimed(t) \/ Runs(t) \/ Answered(t) \/ Lost(t)

OneShotSpec == OneShotInit /\ [][OneShotNext]_oneShotVars
=============================================================================
