CONSTANTS
  Arguments <- MCArguments
  MaxStarts = 2
  MaxPolls = 2
  PipeCapacity = 2
  Symbols <- MCSymbols
  Bytes <- MCBytes
  Prefaces <- MCPrefaces
  MaxFrames = 2
  MaxWritten = 3
  Numbers = {"0", "7"}
  Characters <- MCCharacters
  Keys = {"backend"}
  Messages <- MCMessages
  MessageTypes = {"started", "new_data", "dropped", "error", "stopped"}
SPECIFICATION MCSpec
INVARIANTS
  ChildrenAccountedFor
  FramesAsWritten
  MessagesAsSent
CHECK_DEADLOCK FALSE
