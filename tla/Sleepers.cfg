SPECIFICATION TimingSpec
CONSTANTS
  NoTask = NoTask
  TickMod = 8
  TASK_MAX_NUM = 3
  Task <- Tasks3
  MainAttrs <- TwoTasks
  Api = {"sleep", "sleep_until", "read_tick"}
  SleepTicks = {1, 2}
  Intervals = {1, 2}
  NewAttrs = {}
  MaxNesting = 0
  Periodic = {0}
  MaxDelay = 1
  MaxCount = 4
INVARIANTS NoEarlyReturn BoundedLateness
PROPERTY TurnComes
