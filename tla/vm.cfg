SPECIFICATION VmSpec
CONSTANTS
  NULL = NULL
  Pids = {0, 1}
  Addresses = {0, 1, 2}
  page_size = 2
  CPU_NUM_FRAMES = 2
  tlb_size = 1
  WORD = 2
  Args = {3}
INVARIANTS VmTypeOK FramesAreOwned TlbIsCoherent OneHome
PROPERTIES ImplementsLossyMemory
