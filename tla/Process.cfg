CONSTANTS
  NR_TASKS = 4
  DEFAULT_QUANTUM_TICKS = 2
  FirstPid = 2
  MaxForks = 3
  MaxPending = 1

SPECIFICATION Spec

INVARIANTS
  TypeOK
  Placement
  UniquePids
  OneParent
  NoLostUnblock
  WaitersConsistent

PROPERTIES
  WakeCause
