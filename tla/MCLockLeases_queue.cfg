SPECIFICATION FairSpec
CHECK_DEADLOCK FALSE
CONSTANTS
  r1 = r1
  r2 = r2
  a1 = a1
  a2 = a2
  b1 = b1
  s1 = s1
  Runs = {r1, r2}
  MarkupLocks = {a1, b1}
  Sessions = {s1}
  RunOf <- MCRunOfSubset
  Keys = {k1}
  NoOwner = NoOwner
  Lease = 1
  AcquireTimeouts = {1, 2}
  KeyWaiterLimit = 2
  StoreWaiterLimit = 2
  FencingLimit = 3
  CancellableRuns = {}
  TimedRuns = {}
  UnreleasedBodies = {}
  MaxRestores = 0
  MaxTime = 3
  MaxRollback = 0
INVARIANTS
  NoLostWakeup
  GrantOrder
PROPERTIES
  ImplementsFencedLock
  AcquisitionSettles
