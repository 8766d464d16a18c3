SPECIFICATION Spec
CONSTANTS
  Wrappers = {w1, w2, w3}
  Ptrs = {p1, p2}
  Classes = {c1, c2}
  Blocks = {b1, b2}
  None = None
  Kinds = {"pointer", "reference"}
SYMMETRY Symmetry
CHECK_DEADLOCK FALSE
INVARIANTS
  TypeOK
  NoDanglingProxyUnlessLent
  NoDanglingSharedPtrUnlessLent
  NoOwnershipCycle
  OneDeleter
  NoLostRelease
