CONSTANTS
  Calls = {c1, c2}
  Callables <- MCCallables
  Numbers <- MCNumbers
  Results <- MCResults
  Buffers = {b1, b2}
  Instances = {o1}
  Lists <- MCLists
  b1 = b1
  b2 = b2
  o1 = o1
  Cells = {m1, m2}
  None = None
  NaN = NaN
  Mod16 = 4
  Mod32 = 8
  Mod64 = 64
  Significand = 8
  Units = {1, 2, 4, 8}
SPECIFICATION Spec
INVARIANTS
  TypeOK
  BlocksAreOwned
  ArgumentsStay
  RunsIffMatches
  NumbersArrive
SYMMETRY Symmetry
CHECK_DEADLOCK FALSE
