CONSTANTS
  None = None
  MaxRuns = 1
  MaxEvents = 2
  Captured <- MCCaptured
  Clickable <- MCClickable
  Macs <- MCMacs
  Times <- MCTimes
  Databases <- MCDatabases
  Words <- MCWords
  Invocations <- MCInvocations
SPECIFICATION MCSpec
INVARIANTS
  RowsInOrder
  SkippedReloadMissesNothing
  SettledTable
  ExitTellsWhatIsStored
  SettingsPrecedence
CHECK_DEADLOCK FALSE
