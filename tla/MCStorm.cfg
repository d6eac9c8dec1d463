SPECIFICATION StormFairSpec
CONSTANTS
  a = a
  b = b
  c = c
  w1 = w1
  NoOne = NoOne
  Programs = {"test6", "test7", "test8"}
  Processes = {a, b, c}
  Capacity = 1
  MaxFailures = 1
  Kernels = {FALSE, TRUE}
  Workers = {w1}
  Crews <- Few
  MAX_PIDS = 2
  max_processes = 2
INVARIANT StormTypeOK
INVARIANT NoUnexpectedCode
INVARIANT HoldersLive
PROPERTY StormEnds
CHECK_DEADLOCK FALSE
