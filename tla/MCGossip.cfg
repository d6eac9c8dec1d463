SPECIFICATION GFairSpec
CONSTANTS
  a = a
  b = b
  c = c
  shell = shell
  init = init
  Processes = {a, b}
  root = a
  Capacity = 1
  MaxFailures = 0
  NUM_PROC_LEVELS = 1
  AVG_PROCS_PER_LEVEL = 1
  AVG_THREADS_PER_PROC = 1
  MaxThreads = 2
  Remember = FALSE
INVARIANT GTypeOK
INVARIANT KnownAreFamily
PROPERTY GossipEnds
