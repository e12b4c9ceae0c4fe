SPECIFICATION Spec
CHECK_DEADLOCK FALSE
CONSTANTS
  p1 = p1
  p2 = p2
  p3 = p3
  q1 = q1
  w = w
  v = v
  Runs = {p1}
  Workflows = {w}
  Drivers = {d1, d2, d3, d4}
  NoDriver = NoDriver
  MaxAttempts = 2
  WaitingWorkflows = {w}
  HookedWorkflows = {w}
  ClaimLease = 1
  QueueCeiling = 2
  CancellableRuns = {p1}
  CrashableDrivers = {d1, d2, d3, d4}
  StalledHeartbeats = TRUE
  DuplicateDispatch = TRUE
  GeneralRecovery = TRUE
  MaxTime = 2
  MaxRollback = 0
  WorkflowOf <- MCWorkflowOf
  RunRank <- MCRunRank
  Lane <- MCLane
  Concurrency <- One
  RateCount <- Absent
  RateWindow <- One
SYMMETRY DriverSymmetry
INVARIANTS
  TypeOK
  ScriptsNeverOverlap
