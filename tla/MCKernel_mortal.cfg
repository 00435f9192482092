SPECIFICATION Spec
CONSTANTS
  PERIOD = 2
  SLICE = 1
  MAX_TASKS = 5
  MAX_TIME = 6
  SLEEP_TIMES <- MixedTimes
  MORTAL <- UserTasks
  KILLABLE <- NoTasks
  OVERCREATE = FALSE
  TICK_IN_HANDLER = TRUE
INVARIANT TypeOK
INVARIANT QueueMembership
INVARIANT LiveTasksQueued
INVARIANT ListFaultsOnlyOfDead
PROPERTY ImplementsLifecycle
PROPERTY DeadStaysDead
PROPERTY NeverEarly
PROPERTY OrderLostOnlyByThird
CHECK_DEADLOCK FALSE
