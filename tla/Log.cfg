\* The log with crashes and panics: two processes, three blocks, a log as large as its header,
\* as mkfs makes it, and operations that write all that begin_op sets aside for them.
SPECIFICATION Spec
CONSTANTS
  Procs = {p1, p2}
  Blocks = {b1, b2, b3}
  Vals = {0, 1}
  Absent = absent
  MAXOPBLOCKS = 1
  LOGSIZE = 3
  LogDiskSize = 3
  OpWrites = 1
INVARIANT
  DurableAtRest
PROPERTY
  AtomicTransactions
