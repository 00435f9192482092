SPECIFICATION Spec
CONSTANTS
  PERIOD = 2
  SLICE = 1
  MAX_TASKS = 4
  MAX_TIME = 6
  SLEEP_TIMES <- MixedTimes
  MORTAL <- UserTasks
  KILLABLE <- AllTasks
  OVERCREATE = TRUE
  TICK_IN_HANDLER = TRUE
INVARIANT QueueMembership
PROPERTY SwitchUpsetOnlyByTick
CHECK_DEADLOCK FALSE
