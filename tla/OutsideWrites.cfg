CONSTANTS
  put1 = put1
  put2 = put2
  post = post
  branch = branch
  file = file
  issue = issue
  ref = ref
  Missing = Missing
  Pushed = Pushed
  Requests = {put1, put2, post, branch}
  Calls = {c1, c2, c3}
  Resources = {file, issue, ref}
  Kind <- MCKind
  Target <- MCTarget
  Expected <- ExpectAbsent
  MaxAttempts = 2
  MaxFaults = 2
  Absent <- Missing
  Foreign <- Pushed
  NoRequest = NoRequest
  a1 = a1
  a2 = a2
  shared = shared
  own = own
  w1 = w1
  w2 = w2
  h1 = h1
  h2 = h2
  recipient = recipient
  NONE = NONE
  Actions = {a1, a2}
  PlanActions = {shared, own}
  Adapters = {w1, w2}
  MaxGen = 3
  Scopes <- MCScopes
  Recipient <- MCRecipient
  Covers <- MCCovers
  Hash <- MCHash
SPECIFICATION OutsideSpec
SYMMETRY CallSymmetry
CHECK_DEADLOCK FALSE
INVARIANTS
  OkIsRecorded OneUsablePermit NoRecentDuplicates DoomedIsRefused ReceiptsTellTheEnd
PROPERTIES LostUpdatesAreAbandoned
