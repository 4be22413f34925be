CONSTANTS
  UUIDsPerTick = 10
  Resolution = 10
  MaxReading = 3
  MaxIssued = 26
  SetBacks = 0
SPECIFICATION Spec
INVARIANTS Unique
