CONSTANTS
  Dispatches = {"d1"}
  RemoteWorkers = {"w1", "w2"}
  SlotsPerWorker = 1
  MaxSessions = 2
  MaxCoordinatorRestarts = 1
  StateRuns = {"p", "q"}
  StateKeys = {"k", "m"}
  StateScripts <- MCStateScripts
  MaxStateKeys = 1
  MaxStateInteger = 1
  StateAttempts <- MCStateAttempts
  StateCatching = {"q"}
  StateStoppable = {"p"}
  MaxStateCrashes = 1
  SagaLength = 2
  CleanupLength = 1
  CorrectionAttempts = 2
  OperatorAttempts = 3
  MaxSagaCrashes = 1
  LoopTotal = 3
  LoopConcurrency = 2
  BodyLength = 1
  LoopAttempts = 2
  MaxLoopCrashes = 1
  HookDefinitions <- MCHookDefinitions
  SendAttempts = 2
  MaxHookCrashes = 2
  MaxAttemptBytes = 2
  MaxRunBytes = 3
  MaxStoreBytes = 3
  MaxStreamBytes = 2
  HubPageSize = 1
  HubPages = 2
  QueueSize = 2
  ReplayPageSize = 2
  WriterPlans <- MCWriterPlans
  MaxOutputFaults = 1
INIT EffectsInit
NEXT EffectsNext
CHECK_DEADLOCK FALSE
INVARIANTS
  RemoteRunsOnce
  StateEffectsHonest
  CorrectionsSound
  LoopStepRunsOnce
  ActionsRunOnce
  EndsObserved
  ReadersMissNothing
