CONSTANTS
  Node = {e1, e2, e3}
  List = {f, g, h}
  NULL = NULL

SPECIFICATION ListSpec

INVARIANTS
  ListsAreRings
  LoopMeetsAll
