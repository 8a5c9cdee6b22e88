CONSTANTS
  Messages = {m1, m2, m3}
  BatchSize = 2
  MaxRows = 2
  Signals = TRUE
  MaxFaults = 1
  MaxLosses = 1
SPECIFICATION IngestFairSpec
INVARIANTS IngestTypeOK NothingLost OneCopy
PROPERTIES ImplementsDelivery EventuallyStored ShutdownEnds
CHECK_DEADLOCK FALSE
