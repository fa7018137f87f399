---------------------------- MODULE BoundedWork ----------------------------
(***************************************************************************)
(* What every retrying work queue of the control plane promises its        *)
(* callers, with the queue, the workers and their leases left out: a piece *)
(* of work waits, is worked on by one attempt at a time, is attempted at   *)
(* most as often as it may be, and once settled is never touched again.    *)
(*                                                                         *)
(* The module stands for no code of its own; the queues are shown to       *)
(* implement it.                                                           *)
(***************************************************************************)
EXTENDS Naturals

CONSTANTS
  Work,      \* identities of the pieces of work
  MaxTries   \* attempts each piece of work may use, [Work -> Nat]

VARIABLES
  phase,     \* where each piece of work is
  tries      \* attempts started so far

vars == <<phase, tries>>

Phase == {"absent", "waiting", "working", "settled"}

TypeOK ==
  /\ phase \in [Work -> Phase]
  /\ tries \in [Work -> Nat]
  /\ \A i \in Work : tries[i] <= MaxTries[i]

Init ==
  /\ phase = [i \in Work |-> "absent"]
  /\ tries = [i \in Work |-> 0]

\* A set of new pieces of work is accepted together.
Accept(S) ==
  /\ S # {}
  /\ \A i \in S : phase[i] = "absent"
  /\ phase' = [i \in Work |-> IF i \in S THEN "waiting" ELSE phase[i]]
  /\ UNCHANGED tries

\* One claim starts an attempt at each piece of work of S.
Begin(S) ==
  /\ S # {}
  /\ \A i \in S : phase[i] = "waiting" /\ tries[i] < MaxTries[i]
  /\ phase' = [i \in Work |-> IF i \in S THEN "working" ELSE phase[i]]
  /\ tries' = [i \in Work |-> IF i \in S THEN tries[i] + 1 ELSE tries[i]]

\* A failed attempt goes back to waiting only while tries are left.
GiveBack(i) ==
  /\ phase[i] = "working"
  /\ tries[i] < MaxTries[i]
  /\ phase' = [phase EXCEPT ![i] = "waiting"]
  /\ UNCHANGED tries

Settle(i) ==
  /\ phase[i] = "working"
  /\ phase' = [phase EXCEPT ![i] = "settled"]
  /\ UNCHANGED tries

\* Work nobody is working on may be withdrawn.
Withdraw(S) ==
  /\ S # {}
  /\ \A i \in S : phase[i] = "waiting"
  /\ phase' = [i \in Work |-> IF i \in S THEN "settled" ELSE phase[i]]
  /\ UNCHANGED tries

Next ==
  \/ \E S \in SUBSET Work : Accept(S) \/ Begin(S) \/ Withdraw(S)
  \/ \E i \in Work : GiveBack(i) \/ Settle(i)

Spec == Init /\ [][Next]_vars

=============================================================================
