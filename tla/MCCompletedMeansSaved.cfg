CONSTANT MaxSessions = 1
SPECIFICATION Spec
INVARIANT CompletedMeansSaved
CHECK_DEADLOCK FALSE
