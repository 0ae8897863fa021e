\* Two buffers for three blocks; descriptors for one request, so that the second
\* waits for them.
SPECIFICATION FairSpec
CONSTANTS
  Procs = {p1, p2}
  NBUF = 2
  Blocks = {1, 2, 3}
  Data = {0, 1}
  Changing = {1}
  NUM = 5
  UINT16 = 5
INVARIANTS
  Coherent
  DescriptorsExact
PROPERTIES
  TransfersEnd
\* bget may panic for want of buffers.
CHECK_DEADLOCK FALSE
