SPECIFICATION TimingSpec
CONSTANTS
  NoTask = NoTask
  TickMod = 12
  TASK_MAX_NUM = 2
  Task <- Tasks2
  MainAttrs <- OneTask
  Api = {"sleep_until", "read_tick"}
  SleepTicks = {}
  Intervals = {3}
  NewAttrs = {}
  MaxNesting = 0
  Periodic = {0}
  MaxDelay = 1
  MaxCount = 6
PROPERTY PeriodKept
