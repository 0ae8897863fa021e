\* Processes blocked in sem_down leave it: three processes, one semaphore.
SPECIFICATION FairSpec
CONSTANTS
  Procs = {p1, p2, p3}
  Sems = {s1}
  BadSem = bad
  NoProc = none
  OpenVals = {0}
  Killers = {}
  MaxVal = 1
PROPERTIES
  WaitersLeave
CHECK_DEADLOCK FALSE
