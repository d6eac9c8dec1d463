SPECIFICATION Spec
CONSTANTS
  o1 = o1
  o2 = o2
  s1 = s1
  s2 = s2
  d1 = d1
  m1 = m1
  m2 = m2
  m3 = m3
  Tasks = {o1, o2, s1, s2}
  Owners = {o1, o2}
  Leader = o1
  Destroyers = {d1}
  Messages = {m1, m2, m3}
  NoMessage = NoMessage
  BogusMessage = BogusMessage
  MessageMax = 2
SYMMETRY Symmetry
INVARIANT TypeOK
INVARIANT StopReachesEveryone
INVARIANT DestroyerNotForgotten
INVARIANT FlushedMeansDrained
INVARIANT NoUseAfterFree
INVARIANT CountBeforeFlush
INVARIANT OneKindNeverForgotten
PROPERTY ImplementsFifo
CHECK_DEADLOCK FALSE
