\* Seven parts side by side.
SPECIFICATION ComponentsSpec
CONSTANTS
  Procs = {p1, p2}
  NINODES = 3
  NoProc = none
  p1 = p1
  p2 = p2
  Calls <- CallsOf
  FileInums = {1}
  DirInums = {2}
  Size = 4
  BSIZE = 2
  NDIRECT = 1
  NINDIRECT = 2
  Units = {1}
  EntryNames = {7, 8}
  MaxWrite = 3
  Pids = {1, 2}
  First = 1
  Pages = {1,2,3,4,5,6,7,8,9,10,11,12,13,14,15}
  PGSIZE = 2
  FAN = 4
  LEVELS = 3
  PageData = {0, 1}
  Programs <- MCPrograms
  Deltas <- MCDeltas
  MaxCalls = 8
  NumClusters = 6
  PerCluster = 3
  FileNames = {"f"}
  DirNames = {"d"}
  WriteSizes = {2}
  MaxSize = 4
  LogLine = 3
  Keys <- MCKeys
  ParentOf <- MCParentOf
  MAXARGS = 3
  MaxLine = 5
  HEAP = 10
  CHUNK = 4
  Asked = {2, 3, 5}
INVARIANTS
  InodesRight
  BlocksRight
  MemoryRight
  FatRight
  TreeRight
  ParserRight
  HeapRight
PROPERTIES
  NothingLost
  NothingStranded
  TreeIsSet
\* The parts may stop: a full volume, a panic, an abort, the bounds.
CHECK_DEADLOCK FALSE
