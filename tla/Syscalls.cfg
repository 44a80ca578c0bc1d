CONSTANTS
  NUM_COLUMNS = 3
  NUM_ROWS = 2
  NUM_COLOURS = 2
  WRITE_AUX_BUFF_MAX_SIZE = 2
  Thread = {t1, t2}
  PAGE_SIZE = 2
  USER_FIRST_PAGE = 1
  NUM_PAG_DATA = 1
  NUM_PAG_CODE = 1
  MaxHeap = 1
  Buffers <- BorderBuffers
  Chars <- Characters
  Paints <- SomePaints

SYMMETRY ThreadSymmetry

SPECIFICATION SysSpec

INVARIANTS
  ErrnoIsOwn
  FaultsOnlyInHeap
  RefusedOnlyOutside

PROPERTIES
  ImplementsTerminal
