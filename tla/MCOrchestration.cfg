CONSTANTS
  ForkWidth = 2
  ForkAttempts = 2
  MaxForkCrashes = 1
  GroupSize = 3
  GroupConcurrency = 2
  GroupAttempts = 2
  MaxGroupCrashes = 1
  Hosts = {"a", "b"}
  Period = 2
  Deployed <- MCDeployed
  TimedQueueCeiling = 1
  MaxInstant = 3
  MaxSetBacks = 1
  MaxHostDeaths = 1
  EventOf <- MCEventOf
  EmitsOf <- MCEmitsOf
  DeliverySets <- MCDeliverySets
  EmittedPayloads = {1, 2}
  MaxEventDepth = 3
  EventQueueCeiling = 2
  MaxDeliveries = 2
  MaxStoreErrors = 1
  MaxEventCrashes = 1
  ArtifactOps = {"p", "o"}
  OutputOps = {"o"}
  ArtifactPlans <- MCArtifactPlans
  Contents = {"x", "y"}
  ContentSize <- MCContentSize
  PutInputs = {1}
  MaxTransfers = 2
  ArtifactRunBytes = 2
  ArtifactStoreBytes = 2
  MaxArtifactTime = 1
  MaxArtifactFaults = 1
INIT OrchestrationInit
NEXT OrchestrationNext
CHECK_DEADLOCK FALSE
INVARIANTS
  SuccessIsWhole
  ForkRunsOnce
  GroupOutcomeHonest
  AdmissionsHonest
  QueuedRunsDrivenOnce
  ReferencesStand
PROPERTY
  CursorMovesWithRun
