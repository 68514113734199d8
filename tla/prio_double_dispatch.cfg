SPECIFICATION Spec
CONSTANTS
  NULL = NULL
  WILD = WILD
  cpu_count = 2
  CPUs = {0, 1}
  PROCESS_COUNT = 2
  Procs = {0, 1}
  Priority <- MCPriority
  Programs <- MCBrief
  CREATE_PERIOD = 1
  CommandLines <- MCStaticPriority
  Garbage = {NULL}
INVARIANTS
  NoDoubleDispatch
