CONSTANTS
  i1 = i1
  i2 = i2
  i3 = i3
  i4 = i4
  w1 = w1
  w2 = w2
  b1 = b1
  b2 = b2
  Batches = {b1, b2}
  Items = {i1, i2, i3, i4}
  Kind <- MCKinds
  Lane <- MCLanes
  Invocations = {w1, w2}
  MaxAttempts = 2
  ClaimSize = 2
  MaxCycles = 1
  MinSuccessPct = 50
  MaxFaults = 1
  NoItem = NoItem
  NoInvocation = NoInvocation
  NoBatch = NoBatch
SPECIFICATION MCFairSpec
INVARIANTS
  OneHolder
  FinalReceiptTrue
PROPERTIES
  ImplementsBoundedWork BatchSettles
