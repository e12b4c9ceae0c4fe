SPECIFICATION Spec
CHECK_DEADLOCK FALSE
CONSTANTS
  p1 = p1
  p2 = p2
  p3 = p3
  q1 = q1
  w = w
  v = v
  Runs = {p1, p2}
  Workflows = {w}
  Drivers = {d1, d2}
  NoDriver = NoDriver
  MaxAttempts = 2
  WaitingWorkflows = {}
  HookedWorkflows = {}
  ClaimLease = 1
  QueueCeiling = 2
  CancellableRuns = {p1}
  CrashableDrivers = {d1, d2}
  StalledHeartbeats = TRUE
  DuplicateDispatch = FALSE
  GeneralRecovery = FALSE
  MaxTime = 2
  MaxRollback = 1
  WorkflowOf <- MCWorkflowOf
  RunRank <- MCRunRank
  Lane <- MCLane
  Concurrency <- One
  RateCount <- One
  RateWindow <- Two
SYMMETRY DriverSymmetry
INVARIANTS
  SlotsWithinConcurrency
  StartsWithinRate
PROPERTIES
  CancellationStopsStarts
  StartOrder
