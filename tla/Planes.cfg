SPECIFICATION PlanesSpec
CONSTANTS
  Actions <- MCActions
  Reads <- MCReads
  OpCatalog <- MCCatalog
  Transports <- MCTransports
  Rids = {"x1", "x2"}
  Outcomes <- MCOutcomes
  MaxExecutions = 2
  MaxStale = 1
  CaseEvents = {e1, e2}
  Contents <- MCContents
  ThreatInputs <- MCThreats
  NoContent = NoContent
  Workers = {1, 2}
  Capacity <- MCCapacity
  Skills <- MCSkills
  Costs = {1, 2}
  Attempts = 2
  TripAt = 3
  Jobs = {j1, j2, j3}
  MaxLetters = 4
  Steps = {1, 2}
  Deps <- MCDeps
  ReplaySafe = {2}
  Agents = {g1, g2}
  EffectKeys = {}
  Dispatchers = {}
  Cursors = {}
  MaxOutages = 1
  MaxRearms = 1
  Operations = 3
  Appenders = {p1, p2, p3}
  ReceiptIds = {n1, n2, n3}
  Genesis = Genesis
  Chats = {h1, h2}
  Captures <- MCCaptures
  TaskIds = {t1, t2}
  MaxEntries = 2
  MaxReruns = 1
  Runners = {q1, q2}
  Missions = {m1, m2}
  MaxDrifts = 1
  MaxLate = 1
  MaxRuns = 2
  MaxVersions = 4
  Claims = {"x"}
  Inputs = {"n1", "n2"}
  Profiles <- MCProfiles
  Gone = Gone
  MaxEdits = 1
  Registered = 1
  MaxPushes = 1
  MaxBuilds = 2
  MaxReconciles = 2
  Substrates = {1, 2}
  Sightings <- MCSightings
  Workloads <- MCWorkloads
  Replies <- MCReplies
  Window = 2
  Lanes = {l1, l2}
  Recipients = {"r1"}
  MaxLaneEdits = 1
  MaxPrepared = 2
  LaneFacts = {"phone", "tracked"}
  ActionKinds = {"transmit"}
  Refs = {s1, s2}
  MaxChanges = 8
  Boots = {1, 2}
  Stances <- MCStances
  ConfigFiles = {"policy", "other"}
  PolicyFile = "policy"
  RoleKeys = {"peers", "operator"}
  Topologies <- MCTopologies
  Filings <- MCFilings
  MaxRefilings = 1
  MaxRecordings = 3
  Sections = {"fidelity"}
  Texts <- MCTexts
  Kinds = {"operator_message", "assistant_summary"}
  Materials <- MCMaterials
  Literals = 2
  MaxRewrites = 2
INVARIANTS
  KeysNameOneScope EventsAreAudited NeverOvercommitted
  StepsHappenOnce AcceptedStaysChained HandoffsAreReal
  NothingBlindlyReplayed ReceiptsMatchArtifacts ProofIsFreshAndWhole
  AuthorizedIsComplete ReceiptIsEarned AnswersAreFinal 
  SealsStand DurableIsOnDisk QuotesAreTheOperators
CHECK_DEADLOCK FALSE
