CONSTANTS
  m1 = m1
  m2 = m2
  m3 = m3
  m4 = m4
  Macs = {m1, m2, m3}
  kMaxQueuedEmails = 1
SPECIFICATION FairSpec
PROPERTY FullQueueIsReported
CHECK_DEADLOCK FALSE
