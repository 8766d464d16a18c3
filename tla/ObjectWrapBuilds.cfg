SPECIFICATION MCSpec
CONSTANTS
  Whole = Whole
  Part = Part
  Classes <- MCClasses
  Views <- MCViews
  Wrappers = {w1, w2, w3}
  Ptrs = {p1, p2}
  Slots = {}
  None = None
  BasicFinalizers = FALSE
  SharedViews = TRUE
SYMMETRY Symmetry
CHECK_DEADLOCK FALSE
INVARIANTS
  TypeOK
  OneProxyPerObject
  SingleOwner
  StoreFindsProxy
  StoreIsSound
