SPECIFICATION AtomicSpec
CONSTANTS
  t1 = t1
  t2 = t2
  t3 = t3
  t4 = t4
  NoTask = NoTask
  NULL = NULL
  TickMod = 2
  Task <- Tasks
  TaskPriority <- Priorities
  Configs <- Shifted
  MaxDepth = 3
  Masked = FALSE
INVARIANT ListsCoherent
