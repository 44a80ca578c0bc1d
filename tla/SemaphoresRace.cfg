CONSTANTS
  NR_TASKS = 4
  DEFAULT_QUANTUM_TICKS = 1
  FirstPid = 2
  MaxForks = 2
  MaxPending = 0
  NUM_SEMS = 1
  InitialValues = {0}
  MaxValue = 0
  Admitted = {"signal_dying"}

SPECIFICATION SemSpec

INVARIANTS
  ThreadSafe
