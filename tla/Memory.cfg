CONSTANTS
  NR_TASKS = 4
  TOTAL_PAGES = 10
  LOGICAL_PAGES = 9
  NUM_PAG_KERNEL = 1
  NUM_PAG_DATA = 1
  NUM_PAG_CODE = 1
  Requests <- SmallRequests
  MaxHeap = 2
  MaxOverdue = 1
  MemAdmitted = {"shared_counter", "counter_reset", "no_directory", "no_frames"}

SPECIFICATION MemSpec

INVARIANTS
  FramesDisjoint
  FramesAccounted
  HeapMapped

PROPERTIES
  DataStays
  HeapStays
