------------------------ MODULE MCDesktopCommander ------------------------
(* Instances of DesktopCommander with two devices and two read jobs: one   *)
(* that any device may claim and that may be tried twice, and one for the  *)
(* first device, tried once.                                               *)
EXTENDS DesktopCommander

CONSTANTS d1, d2, read, local

MCTarget == [j \in Jobs |-> IF j = local THEN d1 ELSE Nobody]
MCMaxAttempts == [j \in Jobs |-> IF j = read THEN 2 ELSE 1]

===========================================================================
