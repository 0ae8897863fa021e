SPECIFICATION MCSpec
SYMMETRY Symmetry
CONSTANTS
  NoProc = NoProc
  a = a
  b = b
  Procs = {p1, p2}
  NFILE = 3
  NOFILE = 2
  PIPESIZE = 2
  UINT = 4
  Pages = {g1}
  Bytes <- MCBytes
  MaxKills = 1
  Texts <- MCTexts
  Sizes = {2}
  MaxInodes = 2
INVARIANTS
  CountsExact
  SleepersHaveReason
PROPERTIES
  IsStream
CHECK_DEADLOCK FALSE
