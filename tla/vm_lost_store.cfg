SPECIFICATION TraceSpec
CONSTANTS
  NULL = NULL
  Pids = {0}
  Addresses = {0, 2}
  page_size = 2
  CPU_NUM_FRAMES = 1
  tlb_size = 1
  WORD = 2
  Args = {0, 1}
PROPERTIES LoadsAsExpected
