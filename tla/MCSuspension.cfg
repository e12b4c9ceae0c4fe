CONSTANTS
  r1 = r1
  r2 = r2
  sig = sig
  tim = tim
  k1 = k1
  k2 = k2
  k3 = k3
  WaitRuns = {r1}
  WaitOrder <- MCWaitOrder
  WaitKind <- MCWaitKind
  WaitLength <- MCWaitLength
  OnTimeout <- MCOnTimeout
  SignalKeys = {k1, k2, k3}
  SignalRequests <- MCSignalRequests
  SignalRank <- MCSignalRank
  EarlyLimit = 2
  SignalDelay = 1
  V16Runs = {r1}
  WaitHookedRuns = {r1}
  CancellableWaits = {r1}
  TimedRuns = {r1}
  RunDeadline = 1
  WaitSchedulers = {"s1", "s2"}
  MaxWaitTime = 2
  MaxWaitRestarts = 1
  WaitRank <- MCWaitRank
  CallWorkflows = {"A", "B", "C", "D"}
  RootWorkflow = "A"
  CallTargets <- MCCallTargets
  StartTargets = {"C"}
  RemoteTargets = {"B"}
  PolicyTargets = {"B"}
  SuspendTargets = {"B"}
  CallPayloads = {"x", "y"}
  PayloadsOf <- MCPayloadsOf
  MaxCallDepth = 2
  MaxCallAttempts = 2
  CallQueueCeiling = 1
  MaxCallCrashes = 1
  ProcessTargets <- MCProcessTargets
  MaxCallStarts = 1
  Deliveries = {"d1", "d2"}
  EditableDeliveries = {"d1"}
  ApprovalLength = 2
  ApprovalOnTimeout = "reject"
  ApprovalHooked = TRUE
  MaxDeliveryAttempts = 2
  DeliveryRetryDelay = 1
  CredentialLifetime = 1
  Journeys = {"j1"}
  MaxApprovalTime = 2
  MaxApprovalRestarts = 1
  Reviewers = {"a", "b", "c"}
  ReviewRoles = {"ops", "sec"}
  DirectoryVersions = {"v1", "v2", "v3"}
  RolesIn <- MCRolesIn
  RequiredApprovals = 2
  RequiredRoles = {"ops", "sec"}
  RetainedVersions = 2
  ReviewDue = 1
  ReviewOnTimeout = "reject"
  MaxReviewTime = 2
  MaxReviewRestarts = 1
  PolicyRuns = {"p", "q"}
  PolicyOperations <- MCPolicyOperations
  PolicyHosts <- MCPolicyHosts
  BallotOf <- MCBallotOf
  QuorumOf <- MCQuorumOf
  RoleOf <- MCRoleOf
  CallsOf <- MCCallsOf
  MaxEvidence = 4
  MaxPolicyTime = 3
  MaxPolicyRestarts = 1
INIT SuspensionInit
NEXT SuspensionNext
CHECK_DEADLOCK FALSE
INVARIANTS
  SignalsAccounted
  CallsConsistent
  NoUnexplainedRepeat
  UnreachableApprovalEnds
  ReviewConsistent
  
PROPERTIES
  SettlementsStand
