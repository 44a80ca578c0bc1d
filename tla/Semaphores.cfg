CONSTANTS
  NR_TASKS = 4
  DEFAULT_QUANTUM_TICKS = 1
  FirstPid = 2
  MaxForks = 2
  MaxPending = 1
  NUM_SEMS = 1
  InitialValues = {0, 1}
  MaxValue = 1
  Admitted = {}

SPECIFICATION SemSpec

INVARIANTS
  SemAccounting
  DestroyedTold

PROPERTIES
  WaitersFlushed
  ImplementsRoundRobin
  ImplementsFifoSemaphore
