CONSTANTS
  m1 = m1
  m2 = m2
  m3 = m3
  Connections = {c1, c2}
  Macs = {m1, m2, m3}
  Timestamps <- OneInstant
  Batches <- TwoBatches
  InitialVersions = {0, 2, 4}
SPECIFICATION Spec
INVARIANTS
  KnowledgeKept
  ReadyMeansSchema
PROPERTY
  ImplementsInventory
