\* Three objects over three buffers, two references to an object.
SPECIFICATION Spec
CONSTANTS
  Objects = {d1, d2, d3}
  Buffers = {b1, b2, b3}
  NoBuffer = NoBuffer
  MaxRefs = 2
  Disciplined = TRUE
INVARIANTS ReleasesItsOwn NothingLost
