-------------------------- MODULE MCOutboundPermit --------------------------
(* Two messages to one recipient; a shared plan row covers both, another one *)
(* only the first.                                                           *)
EXTENDS OutboundPermit

CONSTANTS a1, a2, shared, own, w1, w2, h1, h2, recipient

\* Two racing messages without permits; one message with two permits while two
\* generations of the frontier come and go; two plan rows and two adapters at one
\* permit; two permits under two frontiers.
MCScopes ==
  {[keys |-> {a1, a2}, plans |-> {shared}, permits |-> 0, gens |-> {},
    outcomes |-> Outcomes, calls |-> {}],
   [keys |-> {a1}, plans |-> {shared}, permits |-> 2, gens |-> {1, 2},
    outcomes |-> {"cancelled"}, calls |-> {<<w1, TRUE>>}],
   [keys |-> {a1}, plans |-> {shared, own}, permits |-> 1, gens |-> {1},
    outcomes |-> {"sent"}, calls |-> {<<w1, TRUE>>, <<w2, FALSE>>}],
   [keys |-> {a1}, plans |-> {shared}, permits |-> 2, gens |-> {1, 3},
    outcomes |-> {}, calls |-> {}]}

MCRecipient == [a \in Actions |-> recipient]
MCCovers == [pa \in PlanActions |-> IF pa = own THEN {a1} ELSE Actions]

\* The first two generations of the frontier have one hash: only the watermark
\* tells them apart.
MCHash == <<h1, h1, h2>>
=============================================================================
