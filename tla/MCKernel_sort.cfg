SPECIFICATION Spec
CONSTANTS
  PERIOD = 2
  SLICE = 1
  MAX_TASKS = 5
  MAX_TIME = 6
  SLEEP_TIMES <- LaterTimes
  MORTAL <- NoTasks
  KILLABLE <- NoTasks
  OVERCREATE = FALSE
  TICK_IN_HANDLER = FALSE
PROPERTY SystickServesDue
CHECK_DEADLOCK FALSE
