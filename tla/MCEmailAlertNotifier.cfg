CONSTANTS
  m1 = m1
  m2 = m2
  m3 = m3
  m4 = m4
  Macs = {m1, m2, m3, m4}
  kMaxQueuedEmails = 2
SPECIFICATION FairSpec
INVARIANTS
  OneMailPerAsset
  StopDrains
  AlertsAccountedFor
PROPERTIES
  AcceptedIsTried
  StopReturns
CHECK_DEADLOCK FALSE
