CONSTANTS
  m1 = m1
  m2 = m2
  MaxPackets = 3
  Macs = {m1, m2}
  ParseResults <- MCParseResults
  RequestedOptions <- MCRequestedOptions
  DefaultPacketBatchSize = 2
  DefaultQueueCapacity = 1
  DefaultWorkerCount = 1
SPECIFICATION FairSpec
INVARIANTS
  PacketsConserved
  ParsedAtMostOnce
  CleanRunIsComplete
  RefusalIsNeverTheCause
PROPERTIES
  OneWorkerKeepsArrivalOrder
  StopTerminates
  ImplementsPacketDelivery
