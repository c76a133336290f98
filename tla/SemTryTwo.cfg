SPECIFICATION LocksSpec
CONSTANTS
  t1 = t1
  t2 = t2
  t3 = t3
  idle = idle
  NoTask = NoTask
  TickMod = 8
  Task = {t1, t2, t3, idle}
  Created <- Tasks
  Uses <- TwoTry
INVARIANT HoldersBounded
