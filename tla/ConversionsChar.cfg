CONSTANTS
  Calls = {c1}
  Callables <- CharCallables
  Numbers = {0}
  Results = {}
  Buffers = {}
  Instances = {}
  Lists <- CharLists
  b1 = b1
  b2 = b2
  o1 = o1
  Cells = {m1, m2}
  None = None
  NaN = NaN
  Mod16 = 4
  Mod32 = 8
  Mod64 = 64
  Significand = 8
  Units = {1, 2, 4, 8}
SPECIFICATION Spec
INVARIANT StateLastsForTheCall
CHECK_DEADLOCK FALSE
