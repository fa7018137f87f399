CONSTANTS
  a1 = a1
  a2 = a2
  shared = shared
  own = own
  w1 = w1
  w2 = w2
  h1 = h1
  h2 = h2
  recipient = recipient
  NONE = NONE
  Actions = {a1, a2}
  PlanActions = {shared, own}
  Adapters = {w1, w2}
  MaxGen = 3
  Scopes <- MCScopes
  Recipient <- MCRecipient
  Covers <- MCCovers
  Hash <- MCHash
SPECIFICATION PermitSpec
INVARIANT
  ReissuedIsUsable
CHECK_DEADLOCK FALSE
