\* The log as mkfs makes it and operations that leave a block of those set aside for them:
\* two of them are as many as begin_op lets in.
SPECIFICATION FairSpec
CONSTANTS
  Procs = {p1, p2}
  Blocks = {b1, b2, b3}
  Vals = {0, 1}
  Absent = absent
  MAXOPBLOCKS = 2
  LOGSIZE = 4
  LogDiskSize = 4
  OpWrites = 1
INVARIANT
  NeverPanics
PROPERTY
  BeginReturns
