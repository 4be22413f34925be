CONSTANTS
  UUIDsPerTick = 10
  Resolution = 10
  MaxReading = 3
  MaxIssued = 16
  SetBacks = 1
SPECIFICATION FairSpec
INVARIANTS NeverBackInTime AtMostTwice RepeatsBounded
PROPERTIES CallReturns
