CONSTANTS
  None = None
  Unstated = Unstated
  Garbage = 0
  MaxJumps = 2
  MaxDepth = 1
  DhcpDepth = 2
  RawLength = 3
  Frames <- MCFrames
  Spelling <- MCSpelling
SPECIFICATION MCSpec
INVARIANTS
  ReadsInside
  FactsOfThePacket
PROPERTIES
  WorkShrinks
  ParsingEnds
CHECK_DEADLOCK FALSE
