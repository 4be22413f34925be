\* All pairs of backends, up to five bytes in chunks of two, three calls.
SPECIFICATION FairSpec
CONSTANTS
  Chunk = 2
  MaxBytes = 5
  MaxCalls = 3
  Faults = {"short_write", "error", "reset"}
INVARIANTS Conserved CountIsForwarded
PROPERTY CallReturns
CHECK_DEADLOCK FALSE
