CONSTANTS
  Containers = {c1, c2}
  Iterators = {i1, i2}
  MaxLength = 2
SPECIFICATION FairSpec
INVARIANTS
  ContainerOutlives
PROPERTIES
  ContainerIsFreed
CHECK_DEADLOCK FALSE
