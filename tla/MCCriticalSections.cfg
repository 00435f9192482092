SPECIFICATION SectionsSpec
CONSTANTS
  PERIOD = 2
  SLICE = 1
  MAX_TASKS = 4
  MAX_TIME = 6
  SLEEP_TIMES <- LaterTimes
  MORTAL <- NoTasks
  KILLABLE <- NoTasks
  NEXT_TICKS <- UserTasks
  OVERCREATE = FALSE
  TICK_IN_HANDLER = TRUE
INVARIANT NoSelfDeadlock
CHECK_DEADLOCK FALSE
