SPECIFICATION FairSpec
CONSTANTS
  push = push
  single = single
  ping = ping
  Operations <- MCOperations
  NoDelivery = NoDelivery
  Deliveries = {push, single, ping}
  Receivers = {r1, r2}
  Workers = {w1, w2}
  Limit = 2
  MaxAttempts = 2
  MaxFaults = 1
INVARIANTS AckedIsQueued SettledTruly
PROPERTIES AckedSettles
CHECK_DEADLOCK FALSE
