SPECIFICATION FairSpec
CONSTANTS
  t1 = t1
  t2 = t2
  h1 = h1
  h2 = h2
  h3 = h3
  NoThread = NoThread
  NoHandle = NoHandle
  NoName = NoName
  Bucket <- MCBucket
  Threads <- TwoThreads
  Handles <- TwoHandles
  Names <- NamesABad
  ValidNames <- NameA
  MaxPaths = 2
  Ops <- Forker
PROPERTY CallsReturn
