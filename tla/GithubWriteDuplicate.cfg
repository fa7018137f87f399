CONSTANTS
  put1 = put1
  put2 = put2
  post = post
  branch = branch
  file = file
  issue = issue
  ref = ref
  Missing = Missing
  Pushed = Pushed
  Requests = {post}
  Calls = {c1, c2}
  Resources = {issue}
  Kind <- MCKind
  Target <- MCTarget
  Expected <- ExpectAbsent
  MaxAttempts = 2
  MaxFaults = 1
  Absent <- Missing
  Foreign <- Pushed
  NoRequest = NoRequest
SPECIFICATION Spec
SYMMETRY CallSymmetry
CHECK_DEADLOCK FALSE
INVARIANTS NoDuplicateEffect
