SPECIFICATION FairSpec
CONSTANTS
  d1 = d1
  d2 = d2
  read = read
  local = local
  Devices = {d1, d2}
  Jobs = {read, local}
  ReadJobs = {read, local}
  Target <- MCTarget
  Nobody = Nobody
  MaxAttempts <- MCMaxAttempts
  MaxUpsets = 1
INVARIANTS BindingStands RowsFollowBinding
PROPERTIES ClaimedSettles JobsAreBoundedWork
CHECK_DEADLOCK FALSE
