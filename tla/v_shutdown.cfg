CONSTANTS
  Messages = {m1, m2}
  BatchSize = 3
  MaxRows = 3
  Signals = TRUE
  MaxFaults = 0
  MaxLosses = 0
SPECIFICATION IngestSpec
SYMMETRY MessageSymmetry
INVARIANT CleanShutdown
CHECK_DEADLOCK FALSE
