SPECIFICATION FairSyscallSpec
CONSTANTS
  o1 = o1
  o2 = o2
  s1 = s1
  s2 = s2
  s3 = s3
  d1 = d1
  m1 = m1
  m2 = m2
  m3 = m3
  Tasks = {o1, o2}
  Owners = {o1, o2}
  Leader = o1
  Destroyers = {d1}
  Messages = {m1, m2}
  NoMessage = NoMessage
  BogusMessage = BogusMessage
  MessageMax = 1
INVARIANT STypeOK
INVARIANT MessagesOwnedOnce
INVARIANT PutBackWaitsForRoom
PROPERTY ImplementsMailbox
PROPERTY StopReleasesWaiters
PROPERTY DeletionCompletes
CHECK_DEADLOCK FALSE
