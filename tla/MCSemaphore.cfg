\* Safety of the semaphores: three processes on one semaphore.
SPECIFICATION Spec
CONSTANTS
  Procs = {p1, p2, p3}
  Sems = {s1}
  BadSem = bad
  NoProc = none
  OpenVals <- InitialValues
  Killers = {p1, p2, p3}
  MaxVal = 1
SYMMETRY Symmetry
INVARIANTS
  TypeOK
  NoLostWakeup
  ClosedIsVisible
PROPERTIES
  Linearizable
\* Processes exit, and all of them may block in sem_down.
CHECK_DEADLOCK FALSE
