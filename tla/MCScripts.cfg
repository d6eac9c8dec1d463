SPECIFICATION PFairSpec
CONSTANTS
  a = a
  b = b
  c = c
  d = d
  e = e
  Processes = {a, b, c, d, e}
  root = a
  Capacity = 2
  Few = 1
  N = 3
  MaxFailures = 0
  Kernels = {FALSE, TRUE}
  Programs = {"test1", "test1_recv", "test2b", "test2c", "test4", "test5", "test9",
              "testmailbox1", "testmailbox2", "testmailbox3", "testmailbox4", "testmailbox5", "testmailbox7",
              "mike_testmailbox1", "mike_testmailbox2", "mike_testmailbox3", "mike_testmailbox4",
              "mike_testmailbox5", "mike_testmailbox7"}
INVARIANT PTypeOK
INVARIANT ExpectationsHold
PROPERTY ProgramEnds
