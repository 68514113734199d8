SPECIFICATION MutexFairSpec
CONSTANTS
  NULL = NULL
  WILD = WILD
  cpu_count = 2
  CPUs = {0, 1}
  PROCESS_COUNT = 2
  Procs = {0, 1}
  Priority <- MCPriority
  Programs <- MCBrief
  CREATE_PERIOD = 1
  CommandLines <- MCFifoAndRoundRobin
  Garbage = {NULL}
INVARIANTS
  OnlyHasteMisses
  RunsOnlyRunnable
  NoDoubleDispatch
  GanttAgrees
PROPERTIES
  ImplementsLifecycle
  PostIsAnswered
  EventuallyExits
  ReadyRuns
