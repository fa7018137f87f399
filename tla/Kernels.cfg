SPECIFICATION MCFairSpec
CONSTANTS
  local = local
  outside = outside
  localEvent = localEvent
  outsideEvent = outsideEvent
  Work = {local, outside}
  External = {outside}
  Sessions = {s1, s2}
  Events = {localEvent, outsideEvent}
  Routes <- MCRoutes
  Kinds = {"execution", "verification"}
  Required <- MCRequired
  MaxAttempts = 2
  Scopes <- MCScopes
  Nobody = Nobody
  Blockers = {b1, b2}
  MaxTasks = 2
  turn1 = turn1
  turn2 = turn2
  mission1 = mission1
  mission2 = mission2
  mine = mine
  yours = yours
  Hosts = {h1, h2}
  Turns = {turn1, turn2}
  Missions = {mission1, mission2}
  MissionOf <- MCMissionOf
  Corrections = {c1, c2}
  Speaker <- MCSpeaker
  Outputs <- MCOutputs
  NoOutput = NoOutput
  Calls = {k1, k2, k3}
  Threshold = 3
  Steps = {}
  Deps <- MCNoDeps
  ReplaySafe = {}
  Agents = {}
  EffectKeys = {f1, f2}
  Dispatchers = {d1, d2, d3, d4}
  Cursors = {cursor1, cursor2}
  MaxOutages = 0
  MaxRearms = 0
INVARIANTS
  OneRunner
  CompletionIsFresh
  ReturnedIsStored
PROPERTIES
  BlockReturns ImplementsOneShot EffectsAreOneShot OutageOpens
CHECK_DEADLOCK FALSE
