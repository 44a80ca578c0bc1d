CONSTANTS
  PAGE_SIZE = 32
  Sizes = {4, 14, 24}
  MaxPages = 3

SPECIFICATION HeapSpec

INVARIANTS
  BlocksTile
  FreesJoined
  DoubleFreeRefused
  LostForCause

PROPERTIES
  ImplementsAllocator
