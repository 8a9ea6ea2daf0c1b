CONSTANT MaxSessions = 2
SPECIFICATION FairSpec
INVARIANTS
  SessionsSettled
PROPERTIES
  FinishedOnce
  StopReturns
  UiCatchesUp
CHECK_DEADLOCK FALSE
