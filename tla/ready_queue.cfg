SPECIFICATION ClientSpec
CONSTANTS
  NULL = NULL
  WILD = WILD
  Procs = {0, 1, 2, 3}
  CPUs = {0}
  Priority <- MCPriority
PROPERTIES  HighestReturns
