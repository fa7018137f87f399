CONSTANTS
  Substrates = {1, 2}
  Sightings <- MCSightings
  Workloads <- MCWorkloads
  Replies <- MCReplies
  Window = 2
SPECIFICATION FabricSpec
INVARIANT UnclearNotReplayed
CHECK_DEADLOCK FALSE
