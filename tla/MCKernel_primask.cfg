SPECIFICATION Spec
CONSTANTS
  PERIOD = 2
  SLICE = 1
  MAX_TASKS = 4
  MAX_TIME = 6
  SLEEP_TIMES <- LaterTimes
  MORTAL <- NoTasks
  KILLABLE <- NoTasks
  OVERCREATE = FALSE
  TICK_IN_HANDLER = TRUE
INVARIANT InterruptsRestored
CHECK_DEADLOCK FALSE
