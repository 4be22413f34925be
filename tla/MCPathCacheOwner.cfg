SPECIFICATION Spec
CONSTANTS
  t1 = t1
  t2 = t2
  h1 = h1
  h2 = h2
  h3 = h3
  NoThread = NoThread
  NoHandle = NoHandle
  NoName = NoName
  Bucket <- MCBucket
  Threads <- OneThread
  Handles <- ThreeHandles
  Names <- NamesAC
  ValidNames <- NamesAC
  MaxPaths = 3
  Ops <- SoleOwner
INVARIANTS SoundCache CacheKeyStable MutatorIsSoleHolder
PROPERTY ValueSemantics
