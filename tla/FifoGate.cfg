SPECIFICATION Spec
CONSTANT MaxCalls = 5
INVARIANT RunsAfterAllEarlier
PROPERTY ImplementsQueue
CHECK_DEADLOCK FALSE
