SPECIFICATION FairSpec
CONSTANTS
  a = a
  b = b
  method = method
  function = function
  reversed = reversed
  vector = vector
  getter = getter
  setter = setter
  record = record
  copy = copy
  clone = clone
  lone = lone
  swapped = swapped
  Objects = {a, b}
  Calls = {method, function}
  Async <- AsyncOf
  This <- ThisOf
  Args <- ArgsOf
  Converted <- ConvertedOf
  Copied <- CopiedOf
  LastFirst = TRUE
  ThrowOnBlock = FALSE
  Pool = {t1, t2}
  Main = Main
  None = None
CHECK_DEADLOCK FALSE
INVARIANTS
  NoDeadlock
