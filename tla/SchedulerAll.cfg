SPECIFICATION Spec
CONSTANTS
  NoTask = NoTask
  TickMod = 4
  TASK_MAX_NUM = 3
  Task <- Tasks3
  MainAttrs <- OneTask
  Api = {"sleep", "suspend", "create", "delete", "sleep_until", "read_tick", "yield"}
  SleepTicks = {1}
  Intervals = {1}
  NewAttrs <- Created
  MaxNesting = 2
INVARIANTS BitmapExact OnePlace CurrentIsFront DeletedNeverRuns IndInv
PROPERTY SuspendedNoSwitch
