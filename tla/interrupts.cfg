SPECIFICATION IntSpec
CONSTANTS
  UserSteps = 2
  LIMIT = 2
  MaxInterrupts = 5
  MaxDepth = 5
INVARIANTS KeysInOrder ClockCounts
PROPERTIES ResumesUnlessLate Halts
CHECK_DEADLOCK FALSE
