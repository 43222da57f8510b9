SPECIFICATION AllSpec
CONSTANTS
  Manifest <- MCManifest
  Child <- MCChild
  Crd <- MCCrd
  None = None
  pa = pa
  Graph = {r1, r2}  Kind = {k1}  Counter = {c1}  Resyncs = TRUE  Declared <- MCDeclared
  Instance = {i1}  MaxRv = 2  MaxChanges = 2  MaxGuesses = 1
  MaxRevision = 2  MaxBirths = 2
  Tenant = {pa, pb}
  Browser = {admin, c1}  Admin = {admin}  Member <- MCMember
  MaxConnections = 1  SendBuffer = 1  BroadcastBuffer = 1  MaxPublished = 2  MaxHeard = 1
  Repo = {r1}  MaxConfigs = 2  MaxFailures = 1
  Wrapper = {r1, r2}  MaxSwitches = 2  MaxAsks = 3  MaxMisses = 1
  Version = {1}  AllowedModes = {"direct", "gitops", "hybrid"}  MaxFaults = 2  MaxSyncs = 1
  MaxLives = 1  MaxSlips = 1
  SchemaTTL = 3  DegradedTTL = 1  Latency = 1  MaxCrd = 2  MaxBroken = 1
  User = {u1}  Project = {pa}  MaxRgds = 2  PageSize = 1  ListTTL = 2  MaxMoves = 2
  RedisTTL = 2  FallbackTTL = 1  Lag = 1  MaxPolicies = 2  MaxOutages = 1
  Request = {q1, q2}
  Replica = {p1, p2}
INVARIANTS AllTypesOK   CachesAreExplained OutdatedIsShort WrongIsShort DeploymentsAreWhole   WrappedAreOne HubServesOwn
CHECK_DEADLOCK FALSE
