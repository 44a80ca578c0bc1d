CONSTANTS
  NR_TASKS = 4
  DEFAULT_QUANTUM_TICKS = 2
  FirstPid = 2
  MaxForks = 2
  MaxPending = 1

SPECIFICATION Spec

PROPERTIES
  WaitUntilExit
