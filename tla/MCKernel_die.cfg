SPECIFICATION Spec
CONSTANTS
  PERIOD = 2
  SLICE = 1
  MAX_TASKS = 4
  MAX_TIME = 6
  SLEEP_TIMES <- LaterTimes
  MORTAL <- UserTasks
  KILLABLE <- NoTasks
  OVERCREATE = FALSE
  TICK_IN_HANDLER = FALSE
INVARIANT DeadNeverRuns
CHECK_DEADLOCK FALSE
