SPECIFICATION IntSpec
CONSTANTS
  UserSteps = 2
  LIMIT = 2
  MaxInterrupts = 2
  MaxDepth = 4
PROPERTIES Resumes
CHECK_DEADLOCK FALSE
