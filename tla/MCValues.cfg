\* Three values, lists of up to two elements in chunks of one, and the types
\* that differ most in width and sign.
SPECIFICATION Spec
CONSTANTS
  Null = Null
  Values = {v1, v2, v3}
  IntTypes = {"int8", "uint8", "int64", "uint64"}
  Half <- MCHalf
  Numbers <- MCNumbers
  Chunk = 1
  MaxElems = 2
  MaxHeld = 2
  Disciplined = TRUE
SYMMETRY Symmetry
INVARIANTS SoundValues ConversionsExact NegationNegates
