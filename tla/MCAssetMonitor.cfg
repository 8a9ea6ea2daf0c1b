CONSTANTS
  upper1 = upper1
  lower1 = lower1
  lower2 = lower2
  Observations <- MCObservations
  ToLower <- MCToLower
  Registrant <- MCRegistrant
  Keys <- MCKeys
  Values <- MCValues
  Texts <- MCTexts
SPECIFICATION Spec
INVARIANTS
  FactsOfObservations
  SummaryPrecedence
  NewAssetOnce
PROPERTIES
  OnlyMdnsRenames
CHECK_DEADLOCK FALSE
