CONSTANTS
  Base = 2
  Messages <- Some
  MaxSends = 2
  Capacity = 3
  Faults = {"short_write"}
SPECIFICATION Spec
INVARIANTS SafelyDelimited
