CONSTANTS
  Base = 2
  Messages <- Mixed
  MaxSends = 3
  Capacity = 3
  Faults = {"short_write", "would_block", "signal", "no_memory", "reset", "read_error"}
SPECIFICATION FairSpec
INVARIANTS InOrder EofMeansEnd BytesConserved
PROPERTIES Delivered ReaderTold ChannelOfMessages
CHECK_DEADLOCK FALSE
