SPECIFICATION FairShellSpec
CONSTANTS
  NoProc = 99
  a = a
  initproc = 0
  sh = 1
  Procs = {0, 1, 2, 3, 4}
  NFILE = 4
  NOFILE = 5
  PIPESIZE = 1
  UINT = 2
  Pages = {g1}
  Bytes <- MCBytes
  MaxKills = 0
  Texts <- MCNone
  Sizes <- MCNone
  MaxInodes = 0
  Commands <- MCCommands
  EchoArgs <- MCArgs
INVARIANTS
  NoStrayDescriptors
  ForegroundDone
PROPERTIES
  ShellReturns
CHECK_DEADLOCK FALSE
