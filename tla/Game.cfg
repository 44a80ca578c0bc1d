CONSTANTS
  ROWS = 7
  COLS = 12
  sizeXDragon = 2
  sizeYDragon = 2
  sizeXEnemigo = 1
  sizeYEnemigo = 1
  sizeXDiamante = 1
  sizeYDiamante = 1
  LowStep = 3
  HighStep = 2
  ShotRow = 1
  Patrol = 1
  PlayerX = 5
  PlayerY = 4
  EnemyX1 = 3
  EnemyX2 = 8
  EnemyY = 4
  DiamondX1 = 2
  DiamondX2 = 9
  DiamondY = 3
  MAX_PROYECTILES = 1
  MaxSignals = 1
  MaxAstray = 2

SPECIFICATION GameSpec

INVARIANTS
  PlayerOnFloor
  ShotsOnMap
  OneLateKey
