\* What test_logging.sh requires of the log: a volume of six clusters of three entries, that three mounts can fill.
SPECIFICATION FatSpec
CONSTANTS
  NumClusters = 6
  PerCluster = 3
  FileNames = {"f"}
  DirNames = {"d"}
  WriteSizes = {2}
  MaxSize = 4
  LogLine = 3
PROPERTIES
  OneLog
CHECK_DEADLOCK FALSE
