\* more jobs than threads, so that sends coalesce and a job may be added while
\* the queue is being emptied; no symmetry, as one property is a liveness
\* property
CONSTANTS
  Jobs = {j1, j2, j3}
  Background = {b1, b2}
  Main = main
  None = none
SPECIFICATION FairSpec
INVARIANTS TypeOK NoLostWakeup
PROPERTIES KeepsPromise EveryJobRuns
CHECK_DEADLOCK FALSE
