SPECIFICATION OSpec
CONSTANTS
  o1 = o1
  s1 = s1
  s2 = s2
  d1 = d1
  m1 = m1
  m2 = m2
  m3 = m3
  m4 = m4
  Tasks = {o1, s1, s2}
  Owners = {o1}
  Leader = o1
  Destroyers = {d1}
  Messages = {m1, m2, m3, m4}
  NoMessage = NoMessage
  BogusMessage = BogusMessage
  MessageMax = 2
SYMMETRY Symmetry
INVARIANT FifoEvenIfErrors
CHECK_DEADLOCK FALSE
