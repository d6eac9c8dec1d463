SPECIFICATION MFairSpec
CONSTANTS
  p = p
  p2 = p2
  q = q
  nobody = nobody
  m1 = m1
  m2 = m2
  m3 = m3
  k1 = k1
  k2 = k2
  NULL = NULL
  Tasks = {p, q}
  Pids = {p, q, nobody}
  Mailboxes = {m1, m2, m3}
  Kthreads = {k1, k2}
  Buckets = {0, 1}
  hash_32 <- Collide
  tgid <- Process
  Faults = {"kill", "kthread", "memory"}
INVARIANT MTypeOK
INVARIANT ClaimsKeepMailboxes
INVARIANT OneMailboxPerPid
PROPERTY DeletionTakesItsOwn
PROPERTY ImplementsTable
PROPERTY DeletionEnds
CHECK_DEADLOCK FALSE
