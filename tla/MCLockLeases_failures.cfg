SPECIFICATION Spec
CHECK_DEADLOCK FALSE
CONSTANTS
  r1 = r1
  r2 = r2
  a1 = a1
  a2 = a2
  b1 = b1
  s1 = s1
  Runs = {r1, r2}
  MarkupLocks = {a1}
  Sessions = {s1}
  RunOf <- MCRunOfSubset
  Keys = {k1}
  NoOwner = NoOwner
  Lease = 1
  AcquireTimeouts = {1}
  KeyWaiterLimit = 1
  StoreWaiterLimit = 2
  FencingLimit = 3
  CancellableRuns = {r1}
  TimedRuns = {r1}
  UnreleasedBodies = {r1}
  MaxRestores = 1
  MaxTime = 2
  MaxRollback = 1
INVARIANTS
  TypeOK
  OwnerMatchesQueue
  UniqueTokens
PROPERTIES
  EffectTokensMonotone
  RecordsStand
