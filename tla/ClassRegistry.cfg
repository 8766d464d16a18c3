CONSTANTS
  Envs = {main, worker1, worker2}
  A = A
  B = B
  C = C
  Classes = {A, B, C}
  Members = {"greet", "make", "id"}
  Plain = Plain
  EnvArg = EnvArg
  None = None
  Programs <- MCPrograms
SPECIFICATION Spec
INVARIANTS
  TypeOK
  NoAbort
  IndexesAgree
  ChecksAreSound
  TypesMatchRuntime
  SameTypesEverywhere
PROPERTIES
  StableStatics
CHECK_DEADLOCK FALSE
