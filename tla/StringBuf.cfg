\* Two strings, calls of up to three characters, sizes that wrap at 48.
SPECIFICATION Spec
CONSTANTS
  Nobody = Nobody
  Strings = {s1, s2}
  Width = 48
  MaxAlloc = 18
  Chunk = 2
  MaxLen = 3
  Disciplined = TRUE
INVARIANTS InBounds LengthIsLength OnlyMemoryFails
