SPECIFICATION CallsSpec
CHECK_DEADLOCK FALSE
CONSTANTS
  CallWorkflows = {"A", "B"}
  RootWorkflow = "A"
  CallTargets <- MCOneCall
  StartTargets = {}
  RemoteTargets = {"B"}
  PolicyTargets = {}
  SuspendTargets = {}
  CallPayloads = {"x"}
  PayloadsOf <- MCPayloadsOf
  MaxCallDepth = 2
  MaxCallAttempts = 2
  CallQueueCeiling = 1
  ProcessTargets <- MCProcessTargets
  MaxCallCrashes = 0
  MaxCallStarts = 1
INVARIANT
  SingleExecutor
