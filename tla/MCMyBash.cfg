\* Three processes and two pipes, of which a failed line may keep some.
SPECIFICATION FairSpec
CONSTANTS
  Pids = {1, 2, 3}
  PipeIds = {1, 2}
  Lines <- MCLines
  Units = 2
  PipeSize = 1
  MAX_BACKGROUND_PROCS = 1
INVARIANTS
  BackgroundIsOurs
  AllDelivered
PROPERTIES
  LinesEnd
\* The shell exits, or aborts.
CHECK_DEADLOCK FALSE
