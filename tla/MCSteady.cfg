SPECIFICATION FairSpec
CONSTANTS
  PERIOD = 2
  SLICE = 3
  MAX_TASKS = 5
  MAX_TIME = 0
  OFFSET = 5
  LATE = 3
  LATENCY = 1
  SLEEP_TIMES <- AllTimes
  PROGRAMS <- PairsOfSleepers
  MORTAL <- NoTasks
  KILLABLE <- NoTasks
  OVERCREATE = FALSE
  TICK_IN_HANDLER = FALSE
INVARIANT LatenessBounded
PROPERTY StarvesOnlyBySleepers
CHECK_DEADLOCK FALSE
