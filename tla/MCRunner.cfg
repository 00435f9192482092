SPECIFICATION RunnerSpec
CONSTANTS
  PERIOD = 2
  SLICE = 1
  MAX_TASKS = 4
  MAX_TIME = 6
  MILLI = 2
  SECOND = 10
  FREQUENCIES = {0, 3, 12}
  SLEEP_TIMES <- MixedTimes
  MORTAL <- NoTasks
  KILLABLE <- NoTasks
  OVERCREATE = FALSE
  TICK_IN_HANDLER = TRUE
INVARIANT RunningTaskReady
INVARIANT NeverOvercharged
INVARIANT NeverAhead
PROPERTY SystickServesDue
CHECK_DEADLOCK FALSE
