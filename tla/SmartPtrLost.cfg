SPECIFICATION Spec
CONSTANTS
  Wrappers = {w1, w2}
  Ptrs = {p1}
  Classes = {c1, c2}
  Blocks = {b1}
  None = None
  Kinds = {"pointer", "reference"}
CHECK_DEADLOCK FALSE
INVARIANTS
  SharedPtrsProtect
