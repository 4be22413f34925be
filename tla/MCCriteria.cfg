CONSTANTS
  k1 = k1
  k2 = k2
  k3 = k3
  k4 = k4
  h1 = h1
  h2 = h2
  Criterions = {k1, k2, k3}
  Handles = {h1, h2}
  MaxNodes = 5
  Fields <- MCFields
  Words <- MCWords
  Wording <- MCWording
  Meaning <- MCMeaning
SPECIFICATION Spec
INVARIANTS ErrorsNeverLie ReadsBack
PROPERTIES ImplementsAlgebra
SYMMETRY Symmetry
