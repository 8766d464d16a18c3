SPECIFICATION MCFairSpec
CONSTANTS
  a = a
  b = b
  method = method
  function = function
  reversed = reversed
  vector = vector
  getter = getter
  setter = setter
  record = record
  copy = copy
  clone = clone
  lone = lone
  swapped = swapped
  Objects = {a, b}
  Calls = {method, reversed, vector, getter, function, swapped, setter, lone,
           record, clone}
  Async <- AsyncOf
  This <- ThisOf
  Args <- ArgsOf
  Converted <- ConvertedOf
  Copied <- CopiedOf
  LastFirst = TRUE
  ThrowOnBlock = FALSE
  Pool = {t1, t2}
  Main = Main
  None = None
CHECK_DEADLOCK FALSE
INVARIANTS
  TypeOK
  NoReentrance
  NoDataRace
  LocksAreGuarded
  NoDeadlock
PROPERTIES
  EveryCallSettles
