\* Two runs of pingpong, one of which finds its second semaphore taken, and two overlapping
\* runs of tateti whose first fork may fail; init and two slots, all of which may be killed.
SPECIFICATION ProcessesSpec
CONSTANTS
  PingRuns = {4, 65}
  PingRounds = 2
  TatetiRuns = {r1, r2}
  TatetiRounds = 2
  ForkFails = {1}
  MAX_SEM = 260
  Taken = {137}
  NPROC = 3
  Killable = {0, 1, 2}
INVARIANTS
  InOrder
  OwnSemaphores
  ProcessesRight
PROPERTIES
  RunsEnd
  AtomicForest
  EveryWaitEnds
\* The runs end, and the kernel may panic.
CHECK_DEADLOCK FALSE
