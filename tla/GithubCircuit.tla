--------------------------- MODULE GithubCircuit ---------------------------
(***************************************************************************)
(* The circuit breaker of apex-github-router for one operation: a row of   *)
(* github_connector_circuit_v2 that every call reads before it calls the   *)
(* gateway, and reads again and then overwrites with its result.  Neither  *)
(* pair of steps is a transaction, so results of calls that overlap may be *)
(* lost or come back.                                                      *)
(***************************************************************************)
EXTENDS Naturals

CONSTANTS
  Calls,      \* router invocations of the operation that may overlap
  Threshold   \* CIRCUIT_THRESHOLD

ASSUME ThresholdAssumption == Threshold \in Nat \ {0}

VARIABLES
  row,        \* consecutive_failures (up to Threshold) and opened_until
  pc,         \* where each call is
  outcome,    \* what the gateway answered it
  snapshot,   \* the row it read to record its result
  down        \* GitHub is out for good

circuitVars == <<row, pc, outcome, snapshot, down>>

Counts == 0..Threshold
Row == [failures : Counts, opened : {"never", "future", "past"}]

Closed == [failures |-> 0, opened |-> "never"]

CircuitTypeOK ==
  /\ row \in Row
  /\ pc \in [Calls -> {"idle", "sent", "read", "write"}]
  /\ outcome \in [Calls -> {"none", "success", "failure"}]
  /\ snapshot \in [Calls -> Row]
  /\ down \in BOOLEAN

CircuitInit ==
  /\ row = Closed
  /\ pc = [c \in Calls |-> "idle"]
  /\ outcome = [c \in Calls |-> "none"]
  /\ snapshot = [c \in Calls |-> Closed]
  /\ down = FALSE

\* Counts up to Threshold: the code asks nothing more of the count.
Up(n) == IF n < Threshold THEN n + 1 ELSE n

-----------------------------------------------------------------------------
\* A call is let through unless the circuit is open.
Start(c) ==
  /\ pc[c] = "idle"
  /\ row.opened # "future"
  /\ pc' = [pc EXCEPT ![c] = "sent"]
  /\ UNCHANGED <<row, outcome, snapshot, down>>

\* gatewayCall returns; a failure of any status is one to the circuit.
Return(c) ==
  /\ pc[c] = "sent"
  /\ \E r \in {"failure"} \cup (IF down THEN {} ELSE {"success"}) :
       outcome' = [outcome EXCEPT ![c] = r]
  /\ pc' = [pc EXCEPT ![c] = "read"]
  /\ UNCHANGED <<row, snapshot, down>>

\* recordCircuit reads the row again.
ReadRow(c) ==
  /\ pc[c] = "read"
  /\ snapshot' = [snapshot EXCEPT ![c] = row]
  /\ pc' = [pc EXCEPT ![c] = "write"]
  /\ UNCHANGED <<row, outcome, down>>

\* Mutant of RowAfter: a failure starts counting anew.
NeverCounts(r, seen) ==
  IF r = "success" THEN Closed
  ELSE LET n == Up(0) IN
       [failures |-> n, opened |-> IF n >= Threshold THEN "future" ELSE "never"]

\* The row written for an outcome, from the row read.
RowAfter(r, seen) ==
  IF r = "success" THEN Closed
  ELSE LET n == Up(seen.failures) IN
       [failures |-> n, opened |-> IF n >= Threshold THEN "future" ELSE seen.opened]

\* The call is over, and what it remembers with it.
Ends(c) ==
  /\ pc' = [pc EXCEPT ![c] = "idle"]
  /\ outcome' = [outcome EXCEPT ![c] = "none"]
  /\ snapshot' = [snapshot EXCEPT ![c] = Closed]

WriteRow(c) ==
  /\ pc[c] = "write"
  /\ row' = RowAfter(outcome[c], snapshot[c])
  /\ Ends(c)
  /\ UNCHANGED down

\* circuit_read_failed or circuit_write_failed, or the router dies.
RecordLost(c) ==
  /\ pc[c] \in {"sent", "read", "write"}
  /\ ~down
  /\ Ends(c)
  /\ UNCHANGED <<row, down>>

\* The 60 seconds are over.
Late(r) == IF r.opened = "future" THEN [r EXCEPT !.opened = "past"] ELSE r

OpenElapses ==
  /\ row.opened = "future"
  /\ row' = Late(row)
  /\ snapshot' = [c \in Calls |-> Late(snapshot[c])]
  /\ UNCHANGED <<pc, outcome, down>>

Outage ==
  /\ ~down
  /\ down' = TRUE
  /\ UNCHANGED <<row, pc, outcome, snapshot>>

CircuitCall(c) == Start(c) \/ Return(c) \/ ReadRow(c) \/ WriteRow(c)

CircuitNext ==
  \/ \E c \in Calls : CircuitCall(c) \/ RecordLost(c)
  \/ OpenElapses \/ Outage

CircuitSpec == CircuitInit /\ [][CircuitNext]_circuitVars

\* Calls keep coming (the batch and webhook workers are woken every minute)
\* and each runs on; the row is writable during an outage of GitHub.
FairCircuit == CircuitSpec /\ \A c \in Calls : WF_circuitVars(CircuitCall(c))

-----------------------------------------------------------------------------
\* However the results of overlapping calls overwrite each other, count and
\* opening time agree: the circuit has been opened exactly when the count has
\* reached the threshold.
OpenedAtThreshold == row.opened # "never" <=> row.failures = Threshold

\* Lost results cannot keep the circuit closed for ever: when GitHub stays
\* down and calls keep coming, it opens.
OutageOpens == down ~> row.opened = "future"
=============================================================================
