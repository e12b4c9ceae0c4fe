CONSTANTS
  EventOf <- MCEventOf
  EmitsOf <- MCEmitsOf
  DeliverySets <- MCRedelivery
  EmittedPayloads = {1}
  MaxEventDepth = 3
  EventQueueCeiling = 2
  MaxDeliveries = 2
  MaxStoreErrors = 1
  MaxEventCrashes = 1
SPECIFICATION EventSpec
CHECK_DEADLOCK FALSE
INVARIANTS
  AcknowledgedRunsDriven
