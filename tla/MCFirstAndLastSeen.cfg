CONSTANTS
  m1 = m1
  m2 = m2
  m3 = m3
  Connections = {c1}
  Macs = {m1}
  Timestamps <- SameSecond
  Batches <- BatchOfOne
  InitialVersions = {5}
SPECIFICATION Spec
INVARIANT FirstAndLastSeenKept
