--------------------------- MODULE GatewayProofs ---------------------------
(* Proofs about SessionGateway, for any hosts, turns, missions and outputs, *)
(* and about DesktopCommander: the binding of its plane stands, all rows    *)
(* agree on it, it is not stolen, and its jobs are bounded work, for any    *)
(* number of devices, jobs, attempts and withdrawals.                       *)
EXTENDS SessionGateway, DesktopCommander, TLAPS

USE GatewayAssumption

\* A host past its reservation works on a reserved turn, alone, and the model
\* of that turn ran only if it is past the invocation.
Busy(h) == host[h].at \in {"invoke", "persist"}

HostHolds(h) ==
    /\ host[h].at # "away" => host[h].turn \in Turns
    /\ Busy(h) => turnRow[host[h].turn].state = "RESERVED"
    /\ host[h].at = "invoke" => invoked[host[h].turn] = 0

HoldsAlone ==
    \A g, h \in Hosts : Busy(g) /\ Busy(h) /\ host[g].turn = host[h].turn => g = h

\* What a host recovered is in the journal, and its output was checked
\* against it.
HostKnows(h) ==
    /\ host[h].at # "away" => host[h].recovered \subseteq journal[MissionOf[host[h].turn]]
    /\ host[h].at \in {"persist", "readback"} =>
         host[h].output \in Outputs /\ Valid(host[h].output, host[h].recovered)

\* A free turn never ran; a checkpoint is a valid output under corrections of
\* the journal; what was returned is the checkpoint.
RowRuns(t) ==
    /\ invoked[t] <= 1
    /\ turnRow[t].state = "free" => invoked[t] = 0

RowStores(t) ==
    /\ turnRow[t].state = "CHECKPOINTED" =>
         /\ turnRow[t].envelope \in Envelope
         /\ Valid(turnRow[t].envelope.output, turnRow[t].envelope.corrections)
         /\ turnRow[t].envelope.corrections \subseteq journal[MissionOf[t]]
    /\ returned[t] # NoOutput =>
         turnRow[t].state = "CHECKPOINTED" /\ turnRow[t].envelope.output = returned[t]

GatewayInv ==
    /\ GatewayTypeOK
    /\ \A h \in Hosts : HostHolds(h) /\ HostKnows(h)
    /\ HoldsAlone
    /\ \A t \in Turns : RowRuns(t) /\ RowStores(t)

-----------------------------------------------------------------------------
LEMMA AwayIsAway ==
    Away.at = "away" /\ Away.recovered = {} /\ Away.turn = NoOutput /\ Away.output = NoOutput
  BY DEF Away

\* What a host does to its own record keeps the type of all.
LEMMA HostsTyped ==
    ASSUME GatewayTypeOK, NEW h \in Hosts
    PROVE  /\ Leave(h) => host' \in [Hosts -> HostState]
           /\ \A at \in {"invoke", "readback"} : Goes(h, at) => host' \in [Hosts -> HostState]
           /\ \A o \in Outputs :
                host' = [host EXCEPT ![h].at = "persist", ![h].output = o]
                  => host' \in [Hosts -> HostState]
  <1> USE DEF GatewayTypeOK
  <1>1. Away \in HostState
    BY DEF Away, HostState
  <1>2. \A at \in {"invoke", "readback"} : [host[h] EXCEPT !.at = at] \in HostState
    BY DEF HostState
  <1>3. \A o \in Outputs : [host[h] EXCEPT !.at = "persist", !.output = o] \in HostState
    BY DEF HostState
  <1>4. ASSUME NEW r \in HostState, host' = [host EXCEPT ![h] = r]
        PROVE  host' \in [Hosts -> HostState]
    BY <1>4
  <1>5. Leave(h) => host' \in [Hosts -> HostState]
    BY <1>1, <1>4 DEF Leave
  <1>6. \A at \in {"invoke", "readback"} : Goes(h, at) => host' \in [Hosts -> HostState]
    BY <1>2, <1>4 DEF Goes
  <1>7. ASSUME NEW o \in Outputs,
               host' = [host EXCEPT ![h].at = "persist", ![h].output = o]
        PROVE  host' \in [Hosts -> HostState]
    <2>1. host' = [host EXCEPT ![h] = [host[h] EXCEPT !.at = "persist", !.output = o]]
      BY <1>7
    <2>2. QED
      BY <1>3, <1>4, <2>1
  <1>8. QED
    BY <1>5, <1>6, <1>7

LEMMA InitHolds == GatewayInit => GatewayInv
  <1> SUFFICES ASSUME GatewayInit PROVE GatewayInv
    OBVIOUS
  <1> USE DEF GatewayInit
  <1>1. GatewayTypeOK
    BY DEF GatewayTypeOK, Away, HostState
  <1>2. \A h \in Hosts : host[h].at = "away"
    BY AwayIsAway
  <1>3. \A t \in Turns : RowRuns(t) /\ RowStores(t)
    BY DEF RowRuns, RowStores
  <1>4. QED
    BY <1>1, <1>2, <1>3 DEF GatewayInv, HostHolds, HostKnows, HoldsAlone, Busy

\* A host may leave at any time.
LEMMA Leaving ==
    ASSUME GatewayInv, NEW h \in Hosts, Leave(h),
           UNCHANGED <<journal, turnRow, invoked, returned>>
    PROVE  GatewayInv'
  <1>1. \A g \in Hosts : host'[g] = IF g = h THEN Away ELSE host[g]
    BY DEF Leave, GatewayInv, GatewayTypeOK
  <1>2. GatewayTypeOK'
    BY HostsTyped DEF GatewayInv, GatewayTypeOK
  <1>3. ASSUME NEW g \in Hosts PROVE HostHolds(g)' /\ HostKnows(g)'
    BY <1>1, AwayIsAway DEF GatewayInv, HostHolds, HostKnows, Busy
  <1>4. HoldsAlone'
    BY <1>1, AwayIsAway DEF GatewayInv, HoldsAlone, Busy
  <1>5. \A t \in Turns : RowRuns(t)' /\ RowStores(t)'
    BY DEF GatewayInv, RowRuns, RowStores
  <1>6. QED
    BY <1>2, <1>3, <1>4, <1>5 DEF GatewayInv

LEMMA CorrectHolds ==
    ASSUME GatewayInv, NEW m \in Missions, NEW c \in Corrections, Correct(m, c)
    PROVE  GatewayInv'
  <1>1. \A n \in Missions : journal[n] \subseteq journal'[n]
    BY DEF Correct, GatewayInv, GatewayTypeOK
  <1>2. GatewayTypeOK'
    BY DEF Correct, GatewayInv, GatewayTypeOK
  <1>3. ASSUME NEW g \in Hosts PROVE HostHolds(g)' /\ HostKnows(g)'
    BY <1>1 DEF Correct, GatewayInv, HostHolds, HostKnows, Busy
  <1>4. HoldsAlone'
    BY DEF Correct, GatewayInv, HoldsAlone, Busy
  <1>5. \A t \in Turns : RowRuns(t)' /\ RowStores(t)'
    BY <1>1 DEF Correct, GatewayInv, RowRuns, RowStores
  <1>6. QED
    BY <1>2, <1>3, <1>4, <1>5 DEF GatewayInv

LEMMA RecoverHolds ==
    ASSUME GatewayInv, NEW h \in Hosts, NEW t \in Turns, Recover(h, t)
    PROVE  GatewayInv'
  <1> DEFINE r == [Away EXCEPT !.at = "reserve", !.turn = t,
                               !.recovered = journal[MissionOf[t]]]
  <1>1. /\ r.at = "reserve" /\ r.turn = t /\ r.recovered = journal[MissionOf[t]]
        /\ r \in HostState
    BY DEF Away, HostState, GatewayInv, GatewayTypeOK
  <1>2. host' = [host EXCEPT ![h] = r] /\ UNCHANGED <<journal, turnRow, invoked, returned>>
    BY DEF Recover
  <1> HIDE DEF r
  <1>3. \A g \in Hosts : host'[g] = IF g = h THEN r ELSE host[g]
    BY <1>2 DEF GatewayInv, GatewayTypeOK
  <1>4. GatewayTypeOK'
    BY <1>1, <1>2 DEF GatewayInv, GatewayTypeOK
  <1>5. ASSUME NEW g \in Hosts PROVE HostHolds(g)' /\ HostKnows(g)'
    BY <1>1, <1>2, <1>3 DEF GatewayInv, HostHolds, HostKnows, Busy
  <1>6. HoldsAlone'
    BY <1>1, <1>3 DEF GatewayInv, HoldsAlone, Busy
  <1>7. \A u \in Turns : RowRuns(u)' /\ RowStores(u)'
    BY <1>2 DEF GatewayInv, RowRuns, RowStores
  <1>8. QED
    BY <1>4, <1>5, <1>6, <1>7 DEF GatewayInv

LEMMA ReserveHolds ==
    ASSUME GatewayInv, NEW h \in Hosts, Reserve(h)
    PROVE  GatewayInv'
  <1>1. PICK t \in Turns : t = host[h].turn
    BY DEF Reserve, GatewayInv, HostHolds
  <1>2. CASE turnRow[t].state # "free"
    BY <1>1, <1>2, Leaving DEF Reserve
  <1>3. CASE turnRow[t].state = "free"
    <2>1. /\ turnRow' = [turnRow EXCEPT ![t].state = "RESERVED"]
          /\ Goes(h, "invoke") \/ Leave(h)
          /\ UNCHANGED <<journal, invoked, returned>>
          /\ host[h].at = "reserve"
      BY <1>1, <1>3 DEF Reserve
    <2>2. \A u \in Turns :
            /\ u # t => turnRow'[u] = turnRow[u]
            /\ u = t => turnRow'[u].state = "RESERVED"
      BY <2>1 DEF GatewayInv, GatewayTypeOK
    <2>3. \A g \in Hosts :
            /\ g # h => host'[g] = host[g]
            /\ g = h => \/ host'[g] = Away
                        \/ /\ host'[g].at = "invoke" /\ host'[g].turn = t
                           /\ host'[g].recovered = host[g].recovered
      BY <1>1, <2>1 DEF Goes, Leave, GatewayInv, GatewayTypeOK, HostState
    <2>4. GatewayTypeOK'
      <3>1. turnRow' \in [Turns -> [state: {"free", "RESERVED", "CHECKPOINTED"},
                                    envelope: Envelope \cup {NoEnvelope}]]
        BY <2>1 DEF GatewayInv, GatewayTypeOK
      <3>2. host' \in [Hosts -> HostState]
        BY <2>1, HostsTyped DEF GatewayInv
      <3>3. QED
        BY <2>1, <3>1, <3>2 DEF GatewayInv, GatewayTypeOK
    <2>5. invoked[t] = 0 /\ returned[t] = NoOutput
      BY <1>3 DEF GatewayInv, RowRuns, RowStores
    <2>6. \A g \in Hosts : Busy(g) => host[g].turn # t
      BY <1>3 DEF GatewayInv, HostHolds
    <2>7. ASSUME NEW g \in Hosts PROVE HostHolds(g)' /\ HostKnows(g)'
      BY <1>1, <2>1, <2>2, <2>3, <2>5, <2>6, AwayIsAway
         DEF GatewayInv, HostHolds, HostKnows, Busy
    <2>8. HoldsAlone'
      BY <2>3, <2>6, AwayIsAway DEF GatewayInv, HoldsAlone, Busy
    <2>9. ASSUME NEW u \in Turns PROVE RowRuns(u)' /\ RowStores(u)'
      BY <2>1, <2>2, <2>5 DEF GatewayInv, RowRuns, RowStores
    <2>10. QED
      BY <2>4, <2>7, <2>8, <2>9 DEF GatewayInv
  <1>4. QED
    BY <1>2, <1>3

LEMMA InvokeHolds ==
    ASSUME GatewayInv, NEW h \in Hosts, Invoke(h)
    PROVE  GatewayInv'
  <1>1. PICK t \in Turns : t = host[h].turn
    BY DEF Invoke, GatewayInv, HostHolds
  <1>2. PICK o \in Outputs :
          IF Valid(o, host[h].recovered)
          THEN host' = [host EXCEPT ![h].at = "persist", ![h].output = o]
          ELSE Leave(h)
    BY DEF Invoke
  <1>3. /\ invoked' = [invoked EXCEPT ![t] = @ + 1] /\ invoked[t] = 0
        /\ turnRow[t].state = "RESERVED" /\ host[h].at = "invoke"
        /\ UNCHANGED <<journal, turnRow, returned>>
    BY <1>1 DEF Invoke, GatewayInv, HostHolds, Busy
  <1>4. \A g \in Hosts :
          /\ g # h => host'[g] = host[g]
          /\ g = h => \/ host'[g] = Away
                      \/ /\ host'[g].at = "persist" /\ host'[g].turn = t
                         /\ host'[g].recovered = host[g].recovered
                         /\ host'[g].output \in Outputs
                         /\ Valid(host'[g].output, host'[g].recovered)
    BY <1>1, <1>2 DEF Leave, GatewayInv, GatewayTypeOK, HostState
  <1>5. \A u \in Turns : invoked'[u] = IF u = t THEN 1 ELSE invoked[u]
    BY <1>3 DEF GatewayInv, GatewayTypeOK
  <1>6. GatewayTypeOK'
    <2>1. host' \in [Hosts -> HostState]
      BY <1>2, HostsTyped DEF GatewayInv
    <2>2. QED
      BY <1>3, <2>1 DEF GatewayInv, GatewayTypeOK
  <1>7. \A g \in Hosts : Busy(g) /\ g # h => host[g].turn # t
    BY <1>1, <1>3 DEF GatewayInv, HoldsAlone, Busy
  <1>8. ASSUME NEW g \in Hosts PROVE HostHolds(g)' /\ HostKnows(g)'
    BY <1>1, <1>3, <1>4, <1>5, <1>7, AwayIsAway
       DEF GatewayInv, GatewayTypeOK, HostHolds, HostKnows, Busy
  <1>9. HoldsAlone'
    BY <1>4, <1>7, AwayIsAway DEF GatewayInv, HoldsAlone, Busy
  <1>10. ASSUME NEW u \in Turns PROVE RowRuns(u)' /\ RowStores(u)'
    BY <1>3, <1>5 DEF GatewayInv, RowRuns, RowStores
  <1>11. QED
    BY <1>6, <1>8, <1>9, <1>10 DEF GatewayInv

LEMMA PersistHolds ==
    ASSUME GatewayInv, NEW h \in Hosts, Persist(h)
    PROVE  GatewayInv'
  <1>1. PICK t \in Turns : t = host[h].turn
    BY DEF Persist, GatewayInv, HostHolds
  <1>2. PICK e \in Envelope : /\ e = EnvelopeOf(h) /\ Valid(e.output, e.corrections)
                              /\ e.corrections \subseteq journal[MissionOf[t]]
    BY <1>1 DEF Persist, EnvelopeOf, Envelope, GatewayInv, GatewayTypeOK, HostKnows
  <1>3. /\ turnRow' = [turnRow EXCEPT ![t] = [state |-> "CHECKPOINTED", envelope |-> e]]
        /\ Goes(h, "readback") \/ Leave(h)
        /\ UNCHANGED <<journal, invoked, returned>>
        /\ host[h].at = "persist" /\ turnRow[t].state = "RESERVED"
    BY <1>1, <1>2 DEF Persist, GatewayInv, HostHolds, Busy
  <1>4. \A u \in Turns :
          /\ u # t => turnRow'[u] = turnRow[u]
          /\ u = t => turnRow'[u].state = "CHECKPOINTED" /\ turnRow'[u].envelope = e
    BY <1>3 DEF GatewayInv, GatewayTypeOK
  <1>5. \A g \in Hosts :
          /\ g # h => host'[g] = host[g]
          /\ g = h => \/ host'[g] = Away
                      \/ /\ host'[g].at = "readback" /\ host'[g].turn = t
                         /\ host'[g].recovered = host[g].recovered
                         /\ host'[g].output = host[g].output
    BY <1>1, <1>3 DEF Goes, Leave, GatewayInv, GatewayTypeOK, HostState
  <1>6. GatewayTypeOK'
    <2>1. turnRow' \in [Turns -> [state: {"free", "RESERVED", "CHECKPOINTED"},
                                  envelope: Envelope \cup {NoEnvelope}]]
      BY <1>3 DEF GatewayInv, GatewayTypeOK
    <2>2. host' \in [Hosts -> HostState]
      BY <1>3, HostsTyped DEF GatewayInv
    <2>3. QED
      BY <1>3, <2>1, <2>2 DEF GatewayInv, GatewayTypeOK
  <1>7. \A g \in Hosts : Busy(g) /\ g # h => host[g].turn # t
    BY <1>1, <1>3 DEF GatewayInv, HoldsAlone, Busy
  <1>8. ASSUME NEW g \in Hosts PROVE HostHolds(g)' /\ HostKnows(g)'
    BY <1>1, <1>3, <1>4, <1>5, <1>7, AwayIsAway DEF GatewayInv, HostHolds, HostKnows, Busy
  <1>9. HoldsAlone'
    BY <1>5, AwayIsAway DEF GatewayInv, HoldsAlone, Busy
  <1>10. ASSUME NEW u \in Turns PROVE RowRuns(u)' /\ RowStores(u)'
    BY <1>2, <1>3, <1>4 DEF GatewayInv, RowRuns, RowStores
  <1>11. QED
    BY <1>6, <1>8, <1>9, <1>10 DEF GatewayInv

LEMMA ReadbackHolds ==
    ASSUME GatewayInv, NEW h \in Hosts, Readback(h)
    PROVE  GatewayInv'
  <1>1. PICK t \in Turns : t = host[h].turn
    BY DEF Readback, GatewayInv, HostHolds
  <1>2. CASE turnRow[t] # [state |-> "CHECKPOINTED", envelope |-> EnvelopeOf(h)]
    BY <1>1, <1>2, Leaving DEF Readback
  <1>3. CASE turnRow[t] = [state |-> "CHECKPOINTED", envelope |-> EnvelopeOf(h)]
    <2>1. /\ returned' = [returned EXCEPT ![t] = host[h].output] /\ host[h].output \in Outputs
          /\ Leave(h) /\ UNCHANGED <<journal, turnRow, invoked>>
      BY <1>1, <1>3 DEF Readback, GatewayInv, HostKnows
    <2>2. \A g \in Hosts : host'[g] = IF g = h THEN Away ELSE host[g]
      BY <2>1 DEF Leave, GatewayInv, GatewayTypeOK
    <2>3. turnRow[t].state = "CHECKPOINTED" /\ turnRow[t].envelope.output = host[h].output
      BY <1>3 DEF EnvelopeOf
    <2>4. GatewayTypeOK'
      BY <2>1, HostsTyped DEF GatewayInv, GatewayTypeOK
    <2>5. ASSUME NEW g \in Hosts PROVE HostHolds(g)' /\ HostKnows(g)'
      BY <2>1, <2>2, AwayIsAway DEF GatewayInv, HostHolds, HostKnows, Busy
    <2>6. HoldsAlone'
      BY <2>2, AwayIsAway DEF GatewayInv, HoldsAlone, Busy
    <2>7. ASSUME NEW u \in Turns PROVE RowRuns(u)' /\ RowStores(u)'
      BY <2>1, <2>3 DEF GatewayInv, GatewayTypeOK, RowRuns, RowStores
    <2>8. QED
      BY <2>4, <2>5, <2>6, <2>7 DEF GatewayInv
  <1>4. QED
    BY <1>2, <1>3

-----------------------------------------------------------------------------
\* Whatever hosts do and wherever they fail, the invariant holds.
THEOREM GatewayInvHolds == GatewaySpec => []GatewayInv
  <1>1. GatewayInv /\ [GatewayNext]_gatewayVars => GatewayInv'
    <2> SUFFICES ASSUME GatewayInv, [GatewayNext]_gatewayVars PROVE GatewayInv'
      OBVIOUS
    <2>1. ASSUME NEW h \in Hosts, NEW t \in Turns, Recover(h, t) PROVE GatewayInv'
      BY <2>1, RecoverHolds
    <2>2. ASSUME NEW h \in Hosts, Reserve(h) PROVE GatewayInv'
      BY <2>2, ReserveHolds
    <2>3. ASSUME NEW h \in Hosts, Invoke(h) PROVE GatewayInv'
      BY <2>3, InvokeHolds
    <2>4. ASSUME NEW h \in Hosts, Persist(h) PROVE GatewayInv'
      BY <2>4, PersistHolds
    <2>5. ASSUME NEW h \in Hosts, Readback(h) PROVE GatewayInv'
      BY <2>5, ReadbackHolds
    <2>6. ASSUME NEW h \in Hosts, GiveUp(h) PROVE GatewayInv'
      BY <2>6, Leaving DEF GiveUp
    <2>7. ASSUME NEW m \in Missions, NEW c \in Corrections, Correct(m, c) PROVE GatewayInv'
      BY <2>7, CorrectHolds
    <2>8. CASE UNCHANGED gatewayVars
      BY <2>8 DEF gatewayVars, GatewayInv, GatewayTypeOK, HostHolds, HostKnows, HoldsAlone,
                  Busy, RowRuns, RowStores
    <2>9. QED
      BY <2>1, <2>2, <2>3, <2>4, <2>5, <2>6, <2>7, <2>8 DEF GatewayNext, HostStep
  <1>2. QED
    BY <1>1, InitHolds, PTL DEF GatewaySpec

\* However many hosts are given a turn, its model is invoked at most once.
THEOREM TurnRunsOnce == GatewaySpec => []InvokedOnce
  <1>1. GatewayInv => InvokedOnce
    BY DEF GatewayInv, InvokedOnce, RowRuns
  <1>2. QED
    BY <1>1, GatewayInvHolds, PTL

\* What the gateway returned is in the store, under the corrections given to
\* the model.
THEOREM ReturnsTheStored == GatewaySpec => []ReturnedIsStored
  <1>1. GatewayInv => ReturnedIsStored
    BY DEF GatewayInv, ReturnedIsStored, RowStores, Valid
  <1>2. QED
    BY <1>1, GatewayInvHolds, PTL

\* What is stored as the user's is the user's own words.
THEOREM MemoryIsSourced == GatewaySpec => []StoredIsSourced
  <1>1. GatewayInv => StoredIsSourced
    BY DEF GatewayInv, StoredIsSourced, RowStores, Valid, Sourced, Permitted
  <1>2. QED
    BY <1>1, GatewayInvHolds, PTL

THEOREM GatewayTyped == GatewaySpec => []GatewayTypeOK
  <1>1. GatewayInv => GatewayTypeOK
    BY DEF GatewayInv
  <1>2. QED
    BY <1>1, GatewayInvHolds, PTL

-----------------------------------------------------------------------------
(* The gateway implements OneShot.                                         *)

\* Only host h moved, and it was working on t, if on any turn.
Alone(h, t) ==
    /\ \A g \in Hosts \ {h} : host'[g] = host[g]
    /\ \A u \in Turns \ {t} : /\ ~Busy(h) \/ host[h].turn # u
                              /\ ~Busy(h)' \/ host'[h].turn # u
                              /\ turnRow'[u] = turnRow[u]

LEMMA OthersStay ==
    ASSUME NEW h \in Hosts, NEW t \in Turns, Alone(h, t), NEW u \in Turns \ {t}
    PROVE  Progress(u)' = Progress(u)
  <1>1. \A at \in {"invoke", "persist"} :
          (\E g \in Hosts : Holds(g, u, at)') <=> (\E g \in Hosts : Holds(g, u, at))
    BY DEF Alone, Holds, Busy
  <1>2. QED
    BY <1>1 DEF Progress, Alone

\* A move of one turn is a step of OneShot if it is one of these.
LEMMA TurnMoves ==
    ASSUME NEW t \in Turns, \A u \in Turns \ {t} : Progress(u)' = Progress(u),
           \/ Progress(t)' = Progress(t) /\ invoked' = invoked
           \/ Progress(t) = "open" /\ Progress(t)' \in {"claimed", "lost"} /\ invoked' = invoked
           \/ Progress(t) = "claimed" /\ Progress(t)' \in {"running", "lost"}
              /\ invoked' = [invoked EXCEPT ![t] = @ + 1]
           \/ Progress(t) = "running" /\ Progress(t)' = "answered" /\ invoked' = invoked
           \/ Progress(t) \in {"claimed", "running"} /\ Progress(t)' = "lost" /\ invoked' = invoked
    PROVE  [Shots!OneShotNext]_(Shots!oneShotVars)
  <1> DEFINE P == [u \in Turns |-> Progress(u)]
  <1>1. P[t] = Progress(t) /\ P' = [P EXCEPT ![t] = Progress(t)']
    OBVIOUS
  <1>2. CASE Progress(t)' = Progress(t) /\ invoked' = invoked
    <2>1. P' = P
      BY <1>2
    <2>2. QED
      BY <1>2, <2>1 DEF Shots!oneShotVars
  <1>3. CASE Progress(t) = "open" /\ Progress(t)' \in {"claimed", "lost"} /\ invoked' = invoked
    BY <1>1, <1>3 DEF Shots!OneShotNext, Shots!Claimed, Shots!Goes
  <1>4. CASE Progress(t) = "claimed" /\ Progress(t)' \in {"running", "lost"}
             /\ invoked' = [invoked EXCEPT ![t] = @ + 1]
    BY <1>1, <1>4 DEF Shots!OneShotNext, Shots!Runs, Shots!Goes
  <1>5. CASE Progress(t) = "running" /\ Progress(t)' = "answered" /\ invoked' = invoked
    BY <1>1, <1>5 DEF Shots!OneShotNext, Shots!Answered, Shots!Goes
  <1>6. CASE Progress(t) \in {"claimed", "running"} /\ Progress(t)' = "lost" /\ invoked' = invoked
    BY <1>1, <1>6 DEF Shots!OneShotNext, Shots!Lost, Shots!Goes
  <1>7. QED
    BY <1>2, <1>3, <1>4, <1>5, <1>6

\* What a reserved turn is, from the one host that may hold it.
LEMMA HeldTurns ==
    ASSUME GatewayInv, NEW t \in Turns
    PROVE  /\ turnRow[t].state = "free" => \A h \in Hosts : ~(Busy(h) /\ host[h].turn = t)
           /\ \A h \in Hosts : Holds(h, t, "invoke") => Progress(t) = "claimed"
           /\ \A h \in Hosts : Holds(h, t, "persist") => Progress(t) = "running"
  BY DEF GatewayInv, HostHolds, HoldsAlone, Busy, Holds, Progress

\* When a host lets go, the turn it held is lost, and nothing else changes.
LEMMA LettingGo ==
    ASSUME GatewayInv, NEW h \in Hosts, Leave(h), turnRow' = turnRow,
           NEW t \in Turns, host[h].turn = t \/ ~Busy(h)
    PROVE  /\ \A u \in Turns \ {t} : Progress(u)' = Progress(u)
           /\ Busy(h) => Progress(t)' = "lost"
           /\ ~Busy(h) => Progress(t)' = Progress(t)
  <1>1. /\ \A g \in Hosts : host'[g] = IF g = h THEN Away ELSE host[g]
        /\ ~Busy(h)'
    BY AwayIsAway DEF Leave, Busy, GatewayInv, GatewayTypeOK
  <1>2. Alone(h, t)
    BY <1>1 DEF Alone
  <1>3. CASE Busy(h)
    <2>1. \A g \in Hosts \ {h} : ~(Busy(g) /\ host[g].turn = t)
      BY <1>3 DEF GatewayInv, HoldsAlone
    <2>2. \A g \in Hosts : ~Holds(g, t, "invoke")' /\ ~Holds(g, t, "persist")'
      BY <1>1, <2>1 DEF Holds, Busy
    <2>3. turnRow'[t].state = "RESERVED"
      BY <1>3 DEF GatewayInv, HostHolds
    <2>4. QED
      BY <1>2, <1>3, <2>2, <2>3, OthersStay DEF Progress
  <1>4. CASE ~Busy(h)
    <2>1. \A at \in {"invoke", "persist"} :
            (\E g \in Hosts : Holds(g, t, at)') <=> (\E g \in Hosts : Holds(g, t, at))
      BY <1>1, <1>4 DEF Holds, Busy
    <2>2. QED
      BY <1>2, <1>4, <2>1, OthersStay DEF Progress
  <1>5. QED
    BY <1>3, <1>4

\* The result of a host's step on its turn, when it goes on.
LEMMA GoingOn ==
    ASSUME GatewayInv, GatewayInv', NEW h \in Hosts, NEW t \in Turns,
           host[h].at # "away", host[h].turn = t, host'[h].turn = t,
           \A g \in Hosts \ {h} : host'[g] = host[g],
           \A u \in Turns \ {t} : turnRow'[u] = turnRow[u]
    PROVE  /\ \A u \in Turns \ {t} : Progress(u)' = Progress(u)
           /\ host'[h].at = "invoke" => Progress(t)' = "claimed"
           /\ host'[h].at = "persist" => Progress(t)' = "running"
  <1>1. Alone(h, t)
    BY DEF Alone
  <1>2. /\ Holds(h, t, "invoke")' => Progress(t)' = "claimed"
        /\ Holds(h, t, "persist")' => Progress(t)' = "running"
    BY DEF GatewayInv, HostHolds, HoldsAlone, Busy, Holds, Progress
  <1>3. QED
    BY <1>1, <1>2, OthersStay DEF Holds

LEMMA ReserveMoves ==
    ASSUME GatewayInv, GatewayInv', NEW h \in Hosts, Reserve(h)
    PROVE  [Shots!OneShotNext]_(Shots!oneShotVars)
  <1>1. PICK t \in Turns : t = host[h].turn
    BY DEF Reserve, GatewayInv, HostHolds
  <1>2. ~Busy(h) /\ invoked' = invoked /\ host[h].at = "reserve"
    BY DEF Reserve, Busy
  <1>3. CASE turnRow[t].state # "free"
    <2>1. Leave(h) /\ turnRow' = turnRow
      BY <1>1, <1>3 DEF Reserve
    <2>2. QED
      BY <1>1, <1>2, <2>1, LettingGo, TurnMoves
  <1>4. CASE turnRow[t].state = "free"
    <2>1. /\ turnRow' = [turnRow EXCEPT ![t].state = "RESERVED"]
          /\ Goes(h, "invoke") \/ Leave(h)
      BY <1>1, <1>4 DEF Reserve
    <2>2. /\ \A u \in Turns \ {t} : turnRow'[u] = turnRow[u]
          /\ turnRow'[t].state = "RESERVED"
      BY <2>1 DEF GatewayInv, GatewayTypeOK
    <2>3. Progress(t) = "open"
      BY <1>4 DEF Progress
    <2>4. CASE Goes(h, "invoke")
      <3>1. /\ host'[h].turn = t /\ host'[h].at = "invoke"
            /\ \A g \in Hosts \ {h} : host'[g] = host[g]
        BY <1>1, <2>4 DEF Goes, GatewayInv, GatewayTypeOK, HostState
      <3>2. (\A u \in Turns \ {t} : Progress(u)' = Progress(u)) /\ Progress(t)' = "claimed"
        BY <1>1, <1>2, <2>2, <3>1, GoingOn
      <3>3. QED
        BY <1>2, <2>3, <3>2, TurnMoves
    <2>5. CASE Leave(h)
      <3>1. \A g \in Hosts : host'[g] = IF g = h THEN Away ELSE host[g]
        BY <2>5 DEF Leave, GatewayInv, GatewayTypeOK
      <3>2. Alone(h, t)
        BY <1>2, <2>2, <3>1, AwayIsAway DEF Alone, Busy
      <3>3. \A g \in Hosts : ~Holds(g, t, "invoke")' /\ ~Holds(g, t, "persist")'
        BY <1>4, <3>1, HeldTurns, AwayIsAway DEF Holds, Busy
      <3>4. Progress(t)' = "lost"
        BY <2>2, <3>3 DEF Progress
      <3>5. QED
        BY <1>2, <2>3, <3>2, <3>4, OthersStay, TurnMoves
    <2>6. QED
      BY <2>1, <2>4, <2>5
  <1>5. QED
    BY <1>3, <1>4

LEMMA InvokeMoves ==
    ASSUME GatewayInv, GatewayInv', NEW h \in Hosts, Invoke(h)
    PROVE  [Shots!OneShotNext]_(Shots!oneShotVars)
  <1>1. PICK t \in Turns : t = host[h].turn
    BY DEF Invoke, GatewayInv, HostHolds
  <1>2. /\ invoked' = [invoked EXCEPT ![t] = @ + 1] /\ turnRow' = turnRow
        /\ host[h].at = "invoke" /\ Busy(h)
    BY <1>1 DEF Invoke, Busy
  <1>3. PICK o \in Outputs :
          IF Valid(o, host[h].recovered)
          THEN host' = [host EXCEPT ![h].at = "persist", ![h].output = o]
          ELSE Leave(h)
    BY DEF Invoke
  <1>4. Progress(t) = "claimed"
    BY <1>1, <1>2, HeldTurns DEF Holds
  <1>5. CASE Leave(h)
    BY <1>1, <1>2, <1>4, <1>5, LettingGo, TurnMoves
  <1>6. CASE host' = [host EXCEPT ![h].at = "persist", ![h].output = o]
    <2>1. /\ host'[h].turn = t /\ host'[h].at = "persist"
          /\ \A g \in Hosts \ {h} : host'[g] = host[g]
      BY <1>1, <1>6 DEF GatewayInv, GatewayTypeOK, HostState
    <2>2. (\A u \in Turns \ {t} : Progress(u)' = Progress(u)) /\ Progress(t)' = "running"
      BY <1>1, <1>2, <2>1, GoingOn
    <2>3. QED
      BY <1>2, <1>4, <2>2, TurnMoves
  <1>7. QED
    BY <1>3, <1>5, <1>6

LEMMA PersistMoves ==
    ASSUME GatewayInv, GatewayInv', NEW h \in Hosts, Persist(h)
    PROVE  [Shots!OneShotNext]_(Shots!oneShotVars)
  <1>1. PICK t \in Turns : t = host[h].turn
    BY DEF Persist, GatewayInv, HostHolds
  <1>2. host[h].at = "persist" /\ invoked' = invoked /\ turnRow[t].state = "RESERVED"
    BY <1>1 DEF Persist, GatewayInv, HostHolds, Busy
  <1>3. /\ turnRow' = [turnRow EXCEPT ![t] =
             [state |-> "CHECKPOINTED", envelope |-> EnvelopeOf(h)]]
        /\ Goes(h, "readback") \/ Leave(h)
    BY <1>1, <1>2 DEF Persist
  <1>4. /\ \A u \in Turns \ {t} : turnRow'[u] = turnRow[u]
        /\ turnRow'[t].state = "CHECKPOINTED"
    BY <1>3 DEF GatewayInv, GatewayTypeOK
  <1>5. /\ \A g \in Hosts \ {h} : host'[g] = host[g]
        /\ ~Busy(h)'
    BY <1>3, AwayIsAway DEF Goes, Leave, Busy, GatewayInv, GatewayTypeOK, HostState
  <1>6. Alone(h, t)
    BY <1>1, <1>4, <1>5 DEF Alone
  <1>7. Progress(t) = "running" /\ Progress(t)' = "answered"
    BY <1>1, <1>2, <1>4, HeldTurns DEF Holds, Progress
  <1>8. QED
    BY <1>2, <1>6, <1>7, OthersStay, TurnMoves

\* A host that does not hold a turn changes none.
LEMMA IdleMoves ==
    ASSUME NEW h \in Hosts, ~Busy(h), ~Busy(h)', UNCHANGED <<turnRow, invoked>>,
           \A g \in Hosts \ {h} : host'[g] = host[g]
    PROVE  [Shots!OneShotNext]_(Shots!oneShotVars)
  <1>1. ASSUME NEW u \in Turns PROVE Progress(u)' = Progress(u)
    <2>1. \A at \in {"invoke", "persist"} :
            (\E g \in Hosts : Holds(g, u, at)') <=> (\E g \in Hosts : Holds(g, u, at))
      BY DEF Holds, Busy
    <2>2. QED
      BY <2>1 DEF Progress
  <1>2. [u \in Turns |-> Progress(u)]' = [u \in Turns |-> Progress(u)]
    BY <1>1
  <1>3. QED
    BY <1>2 DEF Shots!oneShotVars

LEMMA GiveUpMoves ==
    ASSUME GatewayInv, GatewayInv', NEW h \in Hosts, GiveUp(h)
    PROVE  [Shots!OneShotNext]_(Shots!oneShotVars)
  <1>1. PICK t \in Turns : t = host[h].turn
    BY DEF GiveUp, GatewayInv, HostHolds
  <1>2. Leave(h) /\ turnRow' = turnRow /\ invoked' = invoked
    BY DEF GiveUp
  <1>3. Busy(h) => Progress(t) \in {"claimed", "running"}
    BY <1>1, HeldTurns DEF Holds, Busy
  <1>4. QED
    BY <1>1, <1>2, <1>3, LettingGo, TurnMoves

\* The gateway implements OneShot: for any hosts and failures, every turn is
\* claimed once, runs once, and is answered or lost for good.
THEOREM GatewayIsOneShot == GatewaySpec => ImplementsOneShot
  <1>1. GatewayInit => Shots!OneShotInit
    BY DEF GatewayInit, Shots!OneShotInit, Progress
  <1>2. GatewayInv /\ GatewayInv' /\ [GatewayNext]_gatewayVars
          => [Shots!OneShotNext]_(Shots!oneShotVars)
    <2> SUFFICES ASSUME GatewayInv, GatewayInv', [GatewayNext]_gatewayVars
                 PROVE  [Shots!OneShotNext]_(Shots!oneShotVars)
      OBVIOUS
    <2>1. ASSUME NEW h \in Hosts, NEW t \in Turns, Recover(h, t)
          PROVE  [Shots!OneShotNext]_(Shots!oneShotVars)
      <3>1. ~Busy(h) /\ ~Busy(h)' /\ \A g \in Hosts \ {h} : host'[g] = host[g]
        BY <2>1 DEF Recover, Busy, Away, GatewayInv, GatewayTypeOK
      <3>2. QED
        BY <2>1, <3>1, IdleMoves DEF Recover
    <2>2. ASSUME NEW h \in Hosts, Reserve(h) PROVE [Shots!OneShotNext]_(Shots!oneShotVars)
      BY <2>2, ReserveMoves
    <2>3. ASSUME NEW h \in Hosts, Invoke(h) PROVE [Shots!OneShotNext]_(Shots!oneShotVars)
      BY <2>3, InvokeMoves
    <2>4. ASSUME NEW h \in Hosts, Persist(h) PROVE [Shots!OneShotNext]_(Shots!oneShotVars)
      BY <2>4, PersistMoves
    <2>5. ASSUME NEW h \in Hosts, Readback(h) PROVE [Shots!OneShotNext]_(Shots!oneShotVars)
      <3>1. ~Busy(h) /\ ~Busy(h)' /\ \A g \in Hosts \ {h} : host'[g] = host[g]
        BY <2>5 DEF Readback, Leave, Busy, Away, GatewayInv, GatewayTypeOK
      <3>2. QED
        BY <2>5, <3>1, IdleMoves DEF Readback
    <2>6. ASSUME NEW h \in Hosts, GiveUp(h) PROVE [Shots!OneShotNext]_(Shots!oneShotVars)
      BY <2>6, GiveUpMoves
    <2>7. CASE UNCHANGED <<turnRow, host, invoked>>
      BY <2>7 DEF Shots!oneShotVars, Progress, Holds
    <2>8. QED
      BY <2>1, <2>2, <2>3, <2>4, <2>5, <2>6, <2>7
         DEF GatewayNext, HostStep, Correct, gatewayVars
  <1>3. QED
    BY <1>1, <1>2, GatewayInvHolds, PTL DEF GatewaySpec, ImplementsOneShot, Shots!OneShotSpec

-----------------------------------------------------------------------------
(* The desktop commander plane.                                             *)
(* The rows the argument reads have their types.                           *)
RowsTyped ==
  /\ device \in [Devices -> Device]
  /\ bound \in Someone
  /\ proof \in Proof
  /\ worker \in WorkerRow
  /\ registry \in RegistryRow
  /\ txn \in [Devices -> Txn]

(* What a transaction that holds the lock of its device row read about its *)
(* own binding is still true: the guard cannot fire under that lock.  A    *)
(* transaction that saw nobody, or another device, may be stale.           *)
SeenHolds == \A d \in Devices : txn[d].seen = d => bound = d

Inv ==
  /\ RowsTyped
  /\ SeenHolds
  /\ BindingStands
  /\ RegistryAgrees
  /\ SelectionIsBound

-----------------------------------------------------------------------------

LEMMA InitInv == Init => Inv
<1> SUFFICES ASSUME Init PROVE Inv
  OBVIOUS
<1> USE CommanderAssumption
<1>1. RowsTyped
  BY DEF Init, RowsTyped, Device, Someone, Proof, NoProof, WorkerRow, RegistryRow, Txn, Idle
<1>2. SeenHolds
  BY DEF Init, SeenHolds, Idle
<1>3. BindingStands /\ RegistryAgrees /\ SelectionIsBound
  BY DEF Init, BindingStands, RegistryAgrees, SelectionIsBound
<1> QED
  BY <1>1, <1>2, <1>3 DEF Inv

(* An update of a device row keeps the invariant, whatever it changes:     *)
(* what could break it makes the guard unbind the device.                  *)
LEMMA ChangeKeepsInv ==
  ASSUME Inv, NEW d \in Devices, NEW new \in Device, ChangeDevice(d, new)
  PROVE  Inv' /\ (bound' \in {bound, Nobody})
<1> USE CommanderAssumption
<1>1. /\ txn[d] = Idle /\ txn' = txn
      /\ device' = [device EXCEPT ![d] = new]
      /\ ExecutionGuard(d, new)
  BY DEF ChangeDevice
<1>2. device' \in [Devices -> Device] /\ txn' \in [Devices -> Txn]
  BY <1>1 DEF Inv, RowsTyped
<1>3. CASE Invalidates(device[d], new) /\ bound = d
  <2>1. /\ bound' = Nobody /\ proof' = NoProof /\ worker' = WorkerUnbound
        /\ registry' = [device |-> Nobody, verified |-> FALSE]
    BY <1>1, <1>3 DEF ExecutionGuard
  <2>2. RowsTyped'
    BY <1>2, <2>1 DEF RowsTyped, Someone, Proof, WorkerRow, WorkerUnbound, RegistryRow
  <2>3. SeenHolds'
    <3> SUFFICES ASSUME NEW e \in Devices, txn[e].seen = e PROVE FALSE
      BY <1>1 DEF SeenHolds
    <3>1. bound = e
      BY DEF Inv, SeenHolds
    <3>2. e = d
      BY <1>3, <3>1
    <3> QED
      BY <1>1, <3>2 DEF Idle
  <2>4. (BindingStands /\ RegistryAgrees /\ SelectionIsBound)'
    BY <2>1 DEF BindingStands, RegistryAgrees, SelectionIsBound, WorkerUnbound
  <2> QED
    BY <2>1, <2>2, <2>3, <2>4 DEF Inv
<1>4. CASE ~(Invalidates(device[d], new) /\ bound = d)
  <2>1. bound' = bound /\ proof' = proof /\ worker' = worker /\ registry' = registry
    BY <1>1, <1>4 DEF ExecutionGuard
  <2>2. RowsTyped'
    BY <1>2, <2>1 DEF Inv, RowsTyped
  <2>3. SeenHolds' /\ RegistryAgrees' /\ SelectionIsBound'
    BY <1>1, <2>1 DEF Inv, SeenHolds, RegistryAgrees, SelectionIsBound
  <2>4. BindingStands'
    <3>1. CASE bound = d
      BY <1>1, <1>4, <2>1, <3>1 DEF Invalidates, Inv, RowsTyped, BindingStands, Device
    <3>2. CASE bound # d
      BY <1>1, <2>1, <3>2 DEF Inv, RowsTyped, BindingStands, Someone
    <3> QED
      BY <3>1, <3>2
  <2> QED
    BY <2>1, <2>2, <2>3, <2>4 DEF Inv
<1> QED
  BY <1>3, <1>4

(* The four ways a device row changes are updates to well-typed rows.      *)
LEMMA DeviceActions ==
  ASSUME Inv, NEW d \in Devices,
         Enrol(d) \/ Reenrol(d) \/ Approve(d) \/ Withdraw(d)
  PROVE  Inv' /\ (bound' \in {bound, Nobody})
<1>1. device[d] \in Device
  BY DEF Inv, RowsTyped
<1>2. PICK new \in Device : ChangeDevice(d, new)
  <2>1. CASE Enrol(d)
    BY <2>1 DEF Enrol, Device
  <2>2. CASE Reenrol(d)
    <3>1. device[d].identity + 1 \in Nat
      BY <1>1 DEF Device
    <3>2. [status |-> "pending", identity |-> device[d].identity + 1, rooted |-> FALSE]
            \in Device
      BY <3>1 DEF Device
    <3> QED
      BY <2>2, <3>2 DEF Reenrol
  <2>3. CASE Approve(d)
    BY <1>1, <2>3 DEF Approve, Device
  <2>4. CASE Withdraw(d)
    BY <1>1, <2>4 DEF Withdraw, Device
  <2> QED
    BY <2>1, <2>2, <2>3, <2>4
<1> QED
  BY <1>2, ChangeKeepsInv

(* A transaction that only opens, or a claim that commits, leaves the rows *)
(* alone.                                                                  *)
LEMMA TransactionActions ==
  ASSUME Inv, NEW d \in Devices,
         BeginClaim(d) \/ CommitClaim(d) \/ BeginHeartbeat(d)
  PROVE  Inv' /\ bound' = bound
<1> USE CommanderAssumption
<1>1. /\ UNCHANGED <<device, bound, proof, worker, registry>>
      /\ txn' \in {[txn EXCEPT ![d] = t] :
                   t \in {Idle, [kind |-> "claim", seen |-> bound],
                         [kind |-> "heartbeat", seen |-> bound]}}
  BY DEF BeginClaim, CommitClaim, BeginHeartbeat
<1>a. PICK t \in {Idle, [kind |-> "claim", seen |-> bound],
                  [kind |-> "heartbeat", seen |-> bound]} : txn' = [txn EXCEPT ![d] = t]
  BY <1>1
<1>b. t \in Txn /\ (t.seen = d => bound = d)
  BY <1>a DEF Txn, Idle, Inv, RowsTyped
<1>2. RowsTyped' /\ SeenHolds'
  BY <1>1, <1>a, <1>b DEF Inv, RowsTyped, SeenHolds
<1>3. (BindingStands /\ RegistryAgrees /\ SelectionIsBound)'
  BY <1>1 DEF Inv, BindingStands, RegistryAgrees, SelectionIsBound
<1> QED
  BY <1>1, <1>2, <1>3 DEF Inv

(* The late part of a heartbeat writes rows that agree with the binding:   *)
(* by the lock if it saw itself bound, by the trigger if it saw nobody.    *)
LEMMA CommitHeartbeatKeepsInv ==
  ASSUME Inv, NEW d \in Devices, CommitHeartbeat(d)
  PROVE  Inv' /\ bound' = bound
<1> USE CommanderAssumption
<1>1. /\ txn' = [txn EXCEPT ![d] = Idle]
      /\ UNCHANGED <<device, bound, proof>>
  BY DEF CommitHeartbeat
<1>2. SeenHolds'
  BY <1>1 DEF Inv, RowsTyped, SeenHolds, Idle
<1>3. BindingStands'
  BY <1>1 DEF Inv, BindingStands
<1>4. txn' \in [Devices -> Txn]
  BY <1>1 DEF Inv, RowsTyped, Txn
<1>5. CASE txn[d].seen \notin {Nobody, d}
  <2>1. worker' = worker /\ registry' = registry
    BY <1>5 DEF CommitHeartbeat
  <2> QED
    BY <1>1, <1>2, <1>3, <1>4, <2>1 DEF Inv, RowsTyped, RegistryAgrees, SelectionIsBound
<1>6. CASE txn[d].seen = d
  <2>1. bound = d /\ device[d].status = "approved"
    BY <1>6 DEF Inv, SeenHolds, BindingStands
  <2>2. /\ worker' = [status |-> "online", device |-> d, selected |-> TRUE]
        /\ registry' = [device |-> d, verified |-> TRUE]
    BY <1>6, <2>1 DEF CommitHeartbeat, Selects, Preserved
  <2> QED
    BY <1>1, <1>2, <1>3, <1>4, <2>1, <2>2
    DEF Inv, RowsTyped, RegistryAgrees, SelectionIsBound, WorkerRow, RegistryRow, Someone
<1>7. CASE txn[d].seen = Nobody
  <2>a. Nobody # d /\ Selects(d, Nobody) = FALSE
    BY DEF Selects
  <2>b. /\ worker' = [status |-> IF device[d].status = "approved" THEN "online"
                                 ELSE "source_ready",
                      device |-> d, selected |-> FALSE]
        /\ \/ registry' = registry
           \/ registry' = Preserved([device |-> d, verified |-> FALSE])
    BY <1>7, <2>a DEF CommitHeartbeat
  <2>1. worker' \in WorkerRow /\ ~worker'.selected
    BY <2>b DEF WorkerRow, Someone
  <2>c. registry \in RegistryRow /\ RegistryAgrees
    BY DEF Inv, RowsTyped
  <2>2. registry' \in RegistryRow /\ RegistryAgrees'
    <3>1. CASE registry' = registry
      BY <1>1, <2>c, <3>1 DEF RegistryAgrees
    <3>2. CASE registry' = [device |-> d, verified |-> FALSE] /\ ~(registry.verified /\ bound # Nobody)
      BY <1>1, <2>c, <3>2 DEF RegistryAgrees, RegistryRow, Someone
    <3> QED
      BY <2>b, <3>1, <3>2 DEF Preserved
  <2>3. SelectionIsBound'
    BY <2>1 DEF SelectionIsBound
  <2> QED
    BY <1>1, <1>2, <1>3, <1>4, <2>1, <2>2, <2>3 DEF Inv, RowsTyped
<1> QED
  BY <1>5, <1>6, <1>7

LEMMA FinishKeepsInv ==
  ASSUME Inv, NEW d \in Devices, NEW j \in Jobs, NEW outcome \in Terminal,
         NEW hashed \in BOOLEAN, Finish(d, j, outcome, hashed)
  PROVE  Inv' /\ (bound # Nobody => bound' = bound)
<1> USE CommanderAssumption
<1>1. /\ UNCHANGED <<device, txn>> /\ txn[d] = Idle
      /\ device[d].status = "approved" /\ device[d] \in Device
  BY DEF Finish, Inv, RowsTyped
<1>2. CASE Proves(d, j, outcome, hashed)
  <2>1. /\ bound' = d /\ bound \in {Nobody, d}
        /\ proof' = [job |-> j, identity |-> device[d].identity, rooted |-> device[d].rooted]
        /\ worker' = [status |-> "online", device |-> d, selected |-> TRUE]
        /\ registry' = [device |-> d, verified |-> TRUE]
    BY <1>2 DEF Finish, Proves
  <2>2. proof' \in Proof
    BY <1>1, <2>1 DEF Proof, Device
  <2>3. RowsTyped'
    BY <1>1, <2>1, <2>2 DEF Inv, RowsTyped, Someone, WorkerRow, RegistryRow
  <2>4. SeenHolds'
    BY <1>1, <2>1 DEF Inv, SeenHolds
  <2>5. (BindingStands /\ RegistryAgrees /\ SelectionIsBound)'
    BY <1>1, <2>1 DEF BindingStands, RegistryAgrees, SelectionIsBound
  <2> QED
    BY <2>1, <2>3, <2>4, <2>5 DEF Inv
<1>3. CASE ~Proves(d, j, outcome, hashed)
  <2>1. UNCHANGED <<bound, proof, worker, registry>>
    BY <1>3 DEF Finish
  <2> QED
    BY <1>1, <2>1
    DEF Inv, RowsTyped, SeenHolds, BindingStands, RegistryAgrees, SelectionIsBound
<1> QED
  BY <1>2, <1>3

(* Every step keeps the invariant and at most drops the binding.           *)
LEMMA StepKeepsInv ==
  ASSUME Inv, [Next]_vars
  PROVE  Inv' /\ (bound # Nobody => bound' \in {bound, Nobody})
<1>1. ASSUME NEW d \in Devices, Enrol(d) \/ Reenrol(d) \/ Approve(d) \/ Withdraw(d)
      PROVE  Inv' /\ (bound # Nobody => bound' \in {bound, Nobody})
  BY <1>1, DeviceActions
<1>2. ASSUME NEW d \in Devices, BeginClaim(d) \/ CommitClaim(d) \/ BeginHeartbeat(d)
      PROVE  Inv' /\ (bound # Nobody => bound' \in {bound, Nobody})
  BY <1>2, TransactionActions
<1>3. ASSUME NEW d \in Devices, CommitHeartbeat(d)
      PROVE  Inv' /\ (bound # Nobody => bound' \in {bound, Nobody})
  BY <1>3, CommitHeartbeatKeepsInv
<1>4. ASSUME NEW j \in Jobs, Enqueue(j) \/ Lapse(j)
      PROVE  Inv' /\ (bound # Nobody => bound' \in {bound, Nobody})
  BY <1>4 DEF Enqueue, Lapse, Inv, RowsTyped, SeenHolds, BindingStands, RegistryAgrees,
       SelectionIsBound
<1>5. ASSUME NEW d \in Devices, NEW j \in Jobs, NEW outcome \in Terminal,
             NEW hashed \in BOOLEAN, Finish(d, j, outcome, hashed)
      PROVE  Inv' /\ (bound # Nobody => bound' \in {bound, Nobody})
  BY <1>5, FinishKeepsInv
<1>6. CASE UNCHANGED vars
  BY <1>6 DEF vars, Inv, RowsTyped, SeenHolds, BindingStands, RegistryAgrees, SelectionIsBound
<1> QED
  BY <1>1, <1>2, <1>3, <1>4, <1>5, <1>6 DEF Next

-----------------------------------------------------------------------------

THEOREM InvariantHolds == Spec => []Inv
<1>1. Inv /\ [Next]_vars => Inv'
  BY StepKeepsInv
<1> QED
  BY InitInv, <1>1, PTL DEF Spec

(* The bound device is approved and is the key, host and roots that earned *)
(* the binding: no sequence of re-enrolments, withdrawals and approvals    *)
(* leaves a binding behind that its device no longer deserves.             *)
THEOREM BindingHolds == Spec => []BindingStands
<1>1. Inv => BindingStands
  BY DEF Inv
<1> QED
  BY InvariantHolds, <1>1, PTL

(* The registry agrees with the binding, and only the bound device is ever *)
(* offered for selection, after any interleaving of heartbeats that act on *)
(* stale reads with proofs and invalidations.                              *)
THEOREM RowsAreRight == Spec => []RowsFollowBinding
<1>1. Inv => RowsFollowBinding
  BY DEF Inv, RowsFollowBinding
<1> QED
  BY InvariantHolds, <1>1, PTL

(* A binding passes from one device to another only through nobody.        *)
THEOREM BindingIsKept == Spec => BindingNotStolen
<1>1. Inv /\ [Next]_vars => [bound # Nobody => bound' \in {bound, Nobody}]_vars
  BY StepKeepsInv
<1> QED
  BY InvariantHolds, <1>1, PTL DEF Spec, BindingNotStolen

-------------------------------------------------------------------------
(* The jobs of the plane implement BoundedWork.                             *)

(* What was never claimed has used no attempt.                             *)
JobInv ==
  /\ job \in [Jobs -> Job]
  /\ \A j \in Jobs : job[j].status \in {"absent", "queued"} => job[j].attempts = 0

(* The jobs of S go from one phase to another, no other job changes its    *)
(* phase, and no job its attempts, unless they begin one.                  *)
JobsTurn(S, from, to) ==
  /\ S # {} /\ S \in SUBSET Jobs
  /\ \A j \in S : JobPhase(j) = from /\ JobPhase(j)' = to
  /\ \A j \in Jobs \ S : JobPhase(j)' = JobPhase(j)

SameAttempts == \A j \in Jobs : job'[j].attempts = job[j].attempts

LEMMA JobsTurned ==
  ASSUME NEW S, NEW from, NEW to, JobsTurn(S, from, to)
  PROVE  /\ \A j \in S : [i \in Jobs |-> JobPhase(i)][j] = from
         /\ [j \in Jobs |-> JobPhase(j)]'
              = [j \in Jobs |-> IF j \in S THEN to ELSE [i \in Jobs |-> JobPhase(i)][j]]
BY DEF JobsTurn

LEMMA OneJobTurned ==
  ASSUME NEW j \in Jobs, NEW from, NEW to, JobsTurn({j}, from, to)
  PROVE  /\ [i \in Jobs |-> JobPhase(i)][j] = from
         /\ [i \in Jobs |-> JobPhase(i)]' = [[i \in Jobs |-> JobPhase(i)] EXCEPT ![j] = to]
BY DEF JobsTurn

LEMMA AttemptsStay ==
  SameAttempts => [j \in Jobs |-> job[j].attempts]' = [j \in Jobs |-> job[j].attempts]
BY DEF SameAttempts

LEMMA JobsUnseen ==
  ASSUME SameAttempts, \A j \in Jobs : JobPhase(j)' = JobPhase(j)
  PROVE  UNCHANGED JobQueue!vars
<1>1. [j \in Jobs |-> JobPhase(j)]' = [j \in Jobs |-> JobPhase(j)]
  OBVIOUS
<1> QED
  BY <1>1, AttemptsStay DEF JobQueue!vars

(* A new job is accepted.                                                  *)
LEMMA EnqueueAccepts ==
  ASSUME JobInv, NEW j \in Jobs, Enqueue(j)
  PROVE  JobInv' /\ JobQueue!Next
<1>1. job[j].status = "absent" /\ job' = [job EXCEPT ![j].status = "queued"]
  BY DEF Enqueue
<1>2. /\ job'[j].status = "queued" /\ job'[j].attempts = job[j].attempts
      /\ \A i \in Jobs \ {j} : job'[i] = job[i]
  BY <1>1 DEF JobInv, Job
<1>3. JobInv'
  BY <1>1, <1>2 DEF JobInv, Job
<1>4. \A i \in Jobs \ {j} : JobPhase(i)' = JobPhase(i)
  BY <1>2 DEF JobPhase, Lapsed
<1>5. JobPhase(j) = "absent" /\ JobPhase(j)' = "waiting"
  BY <1>1, <1>2 DEF JobPhase
<1>6. JobsTurn({j}, "absent", "waiting") /\ SameAttempts
  BY <1>2, <1>4, <1>5 DEF JobsTurn, SameAttempts
<1>7. [i \in Jobs |-> JobPhase(i)]'
        = [i \in Jobs |-> IF i \in {j} THEN "waiting" ELSE [k \in Jobs |-> JobPhase(k)][i]]
  BY <1>4, <1>5
<1>8. [i \in Jobs |-> JobPhase(i)][j] = "absent"
  BY <1>5
<1>9. {j} # {} /\ {j} \in SUBSET Jobs
  OBVIOUS
<1>10. JobQueue!Accept({j})
  BY <1>6, <1>7, <1>8, <1>9, AttemptsStay DEF JobQueue!Accept
<1> QED
  BY <1>3, <1>9, <1>10 DEF JobQueue!Next

(* A lapse gives the job back, or settles it after its last attempt.       *)
LEMMA LapseGivesBack ==
  ASSUME JobInv, NEW j \in Jobs, Lapse(j)
  PROVE  JobInv' /\ JobQueue!Next
<1>1. job[j].status = "claimed" /\ job[j].live /\ job' = [job EXCEPT ![j].live = FALSE]
  BY DEF Lapse
<1>2. /\ job'[j].status = "claimed" /\ job'[j].live = FALSE /\ job'[j].attempts = job[j].attempts
      /\ \A i \in Jobs \ {j} : job'[i] = job[i]
  BY <1>1 DEF JobInv, Job
<1>3. JobInv'
  BY <1>1, <1>2 DEF JobInv, Job
<1>4. \A i \in Jobs \ {j} : JobPhase(i)' = JobPhase(i)
  BY <1>2 DEF JobPhase, Lapsed
<1>5. JobPhase(j) = "working"
  BY <1>1 DEF JobPhase
<1>6. JobPhase(j)' = IF job[j].attempts < MaxAttempts[j] THEN "waiting" ELSE "settled"
  BY <1>2 DEF JobPhase, Lapsed
<1>7. SameAttempts
  BY <1>2 DEF SameAttempts
<1>8. CASE job[j].attempts < MaxAttempts[j]
  <2>1. JobsTurn({j}, "working", "waiting")
    BY <1>4, <1>5, <1>6, <1>8 DEF JobsTurn
  <2> QED
    BY <1>3, <1>7, <1>8, <2>1, OneJobTurned, AttemptsStay DEF JobQueue!Next, JobQueue!GiveBack
<1>9. CASE ~(job[j].attempts < MaxAttempts[j])
  <2>1. JobsTurn({j}, "working", "settled")
    BY <1>4, <1>5, <1>6, <1>9 DEF JobsTurn
  <2> QED
    BY <1>3, <1>7, <2>1, OneJobTurned, AttemptsStay DEF JobQueue!Next, JobQueue!Settle
<1> QED
  BY <1>8, <1>9

(* A claim begins an attempt at each job of its batch; the jobs it fails   *)
(* were settled by their last lapse.                                       *)
LEMMA CommitBegins ==
  ASSUME JobInv, NEW d \in Devices, CommitClaim(d)
  PROVE  JobInv' /\ [JobQueue!Next]_(JobQueue!vars)
<1> USE CommanderAssumption
<1>0. \A j \in Jobs : MaxAttempts[j] \in Nat \ {0} /\ job[j].attempts \in Nat
  BY DEF JobInv, Job
<1>1. PICK batch \in SUBSET Candidates(d) :
        job' = [j \in Jobs |->
            IF j \in Exhausted THEN [job[j] EXCEPT !.status = "failed"]
            ELSE IF j \in batch
            THEN [job[j] EXCEPT !.status = "claimed", !.attempts = @ + 1,
                                !.holder = d, !.live = TRUE]
            ELSE job[j]]
  BY DEF CommitClaim
<1>2. \A j \in batch : /\ j \in Jobs /\ j \notin Exhausted
                       /\ job[j].attempts < MaxAttempts[j]
                       /\ (job[j].status = "queued" \/ Lapsed(j))
  <2> SUFFICES ASSUME NEW j \in batch
               PROVE  /\ j \in Jobs /\ j \notin Exhausted
                      /\ job[j].attempts < MaxAttempts[j]
                      /\ (job[j].status = "queued" \/ Lapsed(j))
    OBVIOUS
  <2>1. j \in Jobs /\ (job[j].status = "queued" \/ (Lapsed(j) /\ job[j].attempts < MaxAttempts[j]))
    BY <1>1 DEF Candidates
  <2>2. job[j].attempts < MaxAttempts[j]
    BY <1>0, <2>1 DEF JobInv
  <2> QED
    BY <1>0, <2>1, <2>2 DEF Exhausted
<1>3. \A j \in Jobs : job[j].attempts \in Nat /\ job[j] \in Job
  BY DEF JobInv, Job
<1>4. ASSUME NEW j \in Exhausted
      PROVE  /\ j \in Jobs /\ job'[j] \in Job
             /\ job'[j].status = "failed" /\ job'[j].attempts = job[j].attempts
             /\ JobPhase(j) = "settled" /\ JobPhase(j)' = "settled"
  <2>1. /\ j \in Jobs /\ job'[j] = [job[j] EXCEPT !.status = "failed"]
        /\ Lapsed(j) /\ ~(job[j].attempts < MaxAttempts[j])
    <3>1. j \in Jobs /\ Lapsed(j) /\ job[j].attempts >= MaxAttempts[j]
      BY <1>4 DEF Exhausted
    <3>2. ~(job[j].attempts < MaxAttempts[j])
      BY <1>0, <3>1
    <3> QED
      BY <1>1, <1>4, <3>1, <3>2
  <2>2. job'[j] \in Job /\ job'[j].status = "failed" /\ job'[j].attempts = job[j].attempts
    BY <1>3, <2>1 DEF Job
  <2> QED
    BY <2>1, <2>2 DEF JobPhase, Lapsed
<1>5. ASSUME NEW j \in batch
      PROVE  /\ job'[j] \in Job
             /\ job'[j].status = "claimed" /\ job'[j].attempts = job[j].attempts + 1
             /\ JobPhase(j) = "waiting" /\ JobPhase(j)' = "working"
  <2>0. job[j].attempts \in Nat /\ job[j] \in Job /\ job[j].attempts + 1 \in Nat
    BY <1>2, <1>3, <1>5
  <2>1. job'[j] = [job[j] EXCEPT !.status = "claimed", !.attempts = @ + 1, !.holder = d, !.live = TRUE]
    BY <1>1, <1>2, <1>5
  <2>2. /\ job'[j] \in Job /\ job'[j].status = "claimed" /\ job'[j].live = TRUE
        /\ job'[j].attempts = job[j].attempts + 1
    BY <2>0, <2>1 DEF Job, Someone
  <2> QED
    BY <1>2, <1>5, <2>2 DEF JobPhase, Lapsed
<1>6. ASSUME NEW j \in Jobs, j \notin Exhausted, j \notin batch
      PROVE  job'[j] = job[j] /\ JobPhase(j)' = JobPhase(j)
  <2>1. job'[j] = job[j]
    BY <1>1, <1>6
  <2> QED
    BY <2>1 DEF JobPhase, Lapsed
<1>7. JobInv'
  <2>1. \A j \in Jobs : job'[j] \in Job
    BY <1>3, <1>4, <1>5, <1>6
  <2>2. job' \in [Jobs -> Job]
    BY <1>1, <2>1
  <2>3. \A j \in Jobs : job'[j].status \in {"absent", "queued"} => job'[j].attempts = 0
    BY <1>4, <1>5, <1>6 DEF JobInv
  <2> QED
    BY <2>2, <2>3 DEF JobInv
<1>8. \A j \in Jobs \ batch : JobPhase(j)' = JobPhase(j) /\ job'[j].attempts = job[j].attempts
  BY <1>4, <1>6
<1>9. CASE batch = {}
  BY <1>7, <1>8, <1>9, JobsUnseen DEF SameAttempts
<1>10. CASE batch # {}
  <2>1. JobsTurn(batch, "waiting", "working")
    BY <1>2, <1>5, <1>8, <1>10 DEF JobsTurn
  <2>2. [j \in Jobs |-> job[j].attempts]'
          = [j \in Jobs |-> IF j \in batch THEN [i \in Jobs |-> job[i].attempts][j] + 1
                                           ELSE [i \in Jobs |-> job[i].attempts][j]]
    BY <1>5, <1>8
  <2>3. \A j \in batch : [i \in Jobs |-> job[i].attempts][j] < MaxAttempts[j]
    BY <1>2
  <2>4. batch \in SUBSET Jobs
    BY <1>2
  <2>5. /\ \A j \in batch : [i \in Jobs |-> JobPhase(i)][j] = "waiting"
        /\ [j \in Jobs |-> JobPhase(j)]'
             = [j \in Jobs |-> IF j \in batch THEN "working" ELSE [i \in Jobs |-> JobPhase(i)][j]]
    BY <2>1, JobsTurned
  <2>6. JobQueue!Begin(batch)
    BY <1>10, <2>2, <2>3, <2>5 DEF JobQueue!Begin
  <2> QED
    BY <1>7, <2>4, <2>6 DEF JobQueue!Next
<1> QED
  BY <1>9, <1>10

(* A finish settles its job.                                               *)
LEMMA FinishSettles ==
  ASSUME JobInv, NEW d \in Devices, NEW j \in Jobs, NEW outcome \in Terminal, NEW hashed \in BOOLEAN,
         Finish(d, j, outcome, hashed)
  PROVE  JobInv' /\ JobQueue!Next
<1>1. /\ job[j].status = "claimed" /\ job[j].live
      /\ job' = [job EXCEPT ![j].status = outcome, ![j].live = FALSE]
  BY DEF Finish
<1>2. /\ job'[j].status = outcome /\ job'[j].attempts = job[j].attempts
      /\ \A i \in Jobs \ {j} : job'[i] = job[i]
  BY <1>1 DEF JobInv, Job
<1>3. JobInv'
  BY <1>1, <1>2 DEF JobInv, Job, Terminal
<1>4. \A i \in Jobs \ {j} : JobPhase(i)' = JobPhase(i)
  BY <1>2 DEF JobPhase, Lapsed
<1>5. JobPhase(j) = "working" /\ JobPhase(j)' = "settled"
  BY <1>1, <1>2 DEF JobPhase, Lapsed, Terminal
<1>6. JobsTurn({j}, "working", "settled") /\ SameAttempts
  BY <1>2, <1>4, <1>5 DEF JobsTurn, SameAttempts
<1> QED
  BY <1>3, <1>6, OneJobTurned, AttemptsStay DEF JobQueue!Next, JobQueue!Settle

(* The jobs implement BoundedWork: for any devices, jobs and attempts, a   *)
(* job is worked on under one lease at a time, at most as often as it      *)
(* allows, and settled for good.                                           *)
THEOREM JobsImplemented == Spec => JobsAreBoundedWork
<1>1. Init => JobInv /\ JobQueue!Init
  <2> SUFFICES ASSUME Init PROVE JobInv /\ JobQueue!Init
    OBVIOUS
  <2>1. job = [j \in Jobs |-> [status |-> "absent", attempts |-> 0, holder |-> Nobody, live |-> FALSE]]
    BY DEF Init
  <2>2. JobInv
    BY <2>1 DEF JobInv, Job, Someone
  <2>3. \A j \in Jobs : JobPhase(j) = "absent" /\ job[j].attempts = 0
    BY <2>1 DEF JobPhase
  <2> QED
    BY <2>2, <2>3 DEF JobQueue!Init
<1>2. JobInv /\ [Next]_vars => JobInv' /\ [JobQueue!Next]_(JobQueue!vars)
  <2> SUFFICES ASSUME JobInv, [Next]_vars PROVE JobInv' /\ [JobQueue!Next]_(JobQueue!vars)
    OBVIOUS
  <2>1. ASSUME \/ \E d \in Devices : \/ Enrol(d) \/ Reenrol(d) \/ Approve(d) \/ Withdraw(d)
                                     \/ BeginClaim(d) \/ BeginHeartbeat(d) \/ CommitHeartbeat(d)
               \/ UNCHANGED vars
        PROVE  JobInv' /\ UNCHANGED JobQueue!vars
    <3>1. job' = job
      BY <2>1 DEF Enrol, Reenrol, Approve, Withdraw, ChangeDevice, BeginClaim, BeginHeartbeat,
                  CommitHeartbeat, vars
    <3>2. SameAttempts /\ \A j \in Jobs : JobPhase(j)' = JobPhase(j)
      BY <3>1 DEF SameAttempts, JobPhase, Lapsed
    <3> QED
      BY <3>1, <3>2, JobsUnseen DEF JobInv
  <2> QED
    BY <2>1, EnqueueAccepts, LapseGivesBack, CommitBegins, FinishSettles DEF Next
<1> QED
  BY <1>1, <1>2, PTL DEF Spec, JobsAreBoundedWork, JobQueue!Spec

=============================================================================
