CONSTANTS
  NR_TASKS = 3
  DEFAULT_QUANTUM_TICKS = 1
  FirstPid = 2
  MaxForks = 2
  MaxPending = 0
  KB_BUFFER_SIZE = 3
  Char = {a, b}
  Sizes = {1, 2}
  Admitted = {}

SPECIFICATION AttendedSpec

PROPERTIES
  ImplementsKeyStream
  ReadReturns
  ReadyRuns
