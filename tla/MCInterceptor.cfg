SPECIFICATION IFairSpec
CONSTANTS
  t1 = t1
  t2 = t2
  t3 = t3
  cpu0 = cpu0
  cpu1 = cpu1
  Callers = {t1, t2, t3}
  CPUs = {cpu0, cpu1}
  Words = 8
  PAGE_OFFSET = 4
  Limit = 8
  TableAt = {5}
  MayUnload = TRUE
INVARIANT ITypeOK
INVARIANT UnloadRestoresCalls
INVARIANT CrashesExplained
INVARIANT OnlyMovedWritesFault
PROPERTY LoadEnds
CHECK_DEADLOCK FALSE
