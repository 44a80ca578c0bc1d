CONSTANTS
  NR_TASKS = 4
  DEFAULT_QUANTUM_TICKS = 1
  FirstPid = 2
  MaxForks = 2
  MaxPending = 0
  KB_BUFFER_SIZE = 3
  Char = {c}
  Sizes = {1, 2}
  Admitted = {"unblock_waiter"}

SPECIFICATION KSpec

INVARIANTS
  Placement
  FirstReaderLacks
  ReadersListed
