SPECIFICATION Spec
CONSTANTS
  MaxCrashes = 3
  MaxPending = 2
  MaxBlocks = 2
  MaxTests = 4
  MaxSuites = 4
  MaxDepth = 3
  MaxHooks = 2
  ArtifactFiles = 3
  MaxFaults = 2
  TokenCount = 2
  SpenderCount = 2
INVARIANTS
  OneSystem
  NothingInitializedInVain
  OneFixtureSystem
  ArgumentsReachTheirParameters
  FoundSetIsNotOlder
  TestsAreSandboxed
  GasLimitsStayWhereTheyBelong
PROPERTIES
  DeploymentCompletes
  SessionComesUp
  AllowancesArriveInGroups
CHECK_DEADLOCK FALSE
