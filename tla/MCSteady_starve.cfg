SPECIFICATION FairSpec
CONSTANTS
  PERIOD = 2
  SLICE = 1
  MAX_TASKS = 4
  MAX_TIME = 0
  OFFSET = 5
  LATE = 3
  LATENCY = 1
  SLEEP_TIMES <- DueTimes
  PROGRAMS <- DueSleeper
  MORTAL <- NoTasks
  KILLABLE <- NoTasks
  OVERCREATE = FALSE
  TICK_IN_HANDLER = FALSE
PROPERTY NobodyStarves
CHECK_DEADLOCK FALSE
