SPECIFICATION FairSpec
CONSTANTS
  Whole = Whole
  Part = Part
  Classes <- MCClasses
  Views <- MCViews
  Wrappers = {w1, w2}
  Ptrs = {p1, p2}
  Slots = {s1}
  None = None
  BasicFinalizers = FALSE
  SharedViews = FALSE
CHECK_DEADLOCK FALSE
INVARIANTS
  NoDanglingProxy
  NoLeak
  ExternalMemoryIsExact
PROPERTIES
  KeepsIdentity
  AllFreedAtExit
