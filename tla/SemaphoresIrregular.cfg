CONSTANTS
  NR_TASKS = 3
  DEFAULT_QUANTUM_TICKS = 1
  FirstPid = 2
  MaxForks = 2
  MaxPending = 0
  NUM_SEMS = 2
  InitialValues <- NegativeValues
  MaxValue = 0
  Admitted = {"root_exit", "wait_on_free", "unblock_waiter", "no_frames", "missing_page", "negative_value", "signal_dying"}

SPECIFICATION SemSpec

INVARIANTS
  SemOwned
  OneDestroyer
  FaultsExplained
