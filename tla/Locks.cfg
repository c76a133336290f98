SPECIFICATION LocksFairSpec
CONSTANTS
  t1 = t1
  t2 = t2
  t3 = t3
  idle = idle
  NoTask = NoTask
  TickMod = 4
  Task = {t1, t2, t3, idle}
  Created <- Tasks
  Uses <- LockUses
INVARIANTS HoldersBounded SemaphoreInv MutexInv OwnerHasLock PrioritiesRestored LockDepth OutputWhole
PROPERTIES NoInversion SleepsItself PlainWaiterServed PlainTryReturns
