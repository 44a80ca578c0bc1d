----------------------------- MODULE GameProofs -----------------------------
(***************************************************************************)
(* What keeps the player and the shots on the map, for any map, any sizes  *)
(* and any number of shots.                                                *)
(*                                                                         *)
(* The map's border is the reason for both: it is thick enough that who    *)
(* stands inside it and moves by one is still on the map, where the test   *)
(* of the map (posicionValida, or a shot's) sees the wall (StepOnFloor).   *)
(***************************************************************************)
EXTENDS Game, TLAPS

Direction == {"LEFT", "RIGHT"}

State == {"ST_STOP", "ST_UP", "ST_DOWN", "ST_LEFT", "ST_RIGHT"}

Character == [x : Int, y : Int, state : State, dir : Direction]

Enemy == [x : Int, dir : Direction]

Projectile == [x : Int, y : Int, activo : BOOLEAN, dir : Direction]

GameTypes ==
  /\ player \in Character /\ xAnt \in Int /\ yAnt \in Int
  /\ enemigo \in [1 .. 2 -> Enemy] /\ muerto \in [1 .. 2 -> BOOLEAN]
  /\ proyectiles \in [Shot -> Projectile]
  /\ gameThreadMuerto \in BOOLEAN /\ freed \in BOOLEAN /\ offFloor \in BOOLEAN
  /\ lateKeys \in Nat
  /\ GameTypeOK

\* Two places at most one step apart.
Near(x, y, u, v) ==
  \/ x \in {u - 1, u, u + 1} /\ y = v
  \/ x = u /\ y \in {v - 1, v, v + 1}

\* The place drawn last is on the floor, and the player is there or, in the
\* middle of a move, a step from there.
PlayerNear ==
  /\ OnFloor(xAnt, yAnt)
  /\ gamePc # "valid" => player.x = xAnt /\ player.y = yAnt
  /\ Near(player.x, player.y, xAnt, yAnt)

\* The game thread is over when it says so.
GameOver ==
  /\ gameThreadMuerto <=> gamePc \in {"free", "exited"}
  /\ freed <=> gamePc = "exited"

\* The key that is late was awaited when the game ended.
KeyAwaited == lateKeys = 0 \/ (lateKeys = 1 /\ freed /\ keyPc \notin {"read", "fire"})

\* A shot that is being fired is no shot yet.
Aiming == keyPc = "fire" => ~proyectiles[aim].activo

\* A shot is inside the border's outermost column, or has just moved there.
ShotsInside ==
  ~offFloor =>
   /\ keyPc = "fire" => proyectiles[aim].x \in 1 .. COLS - 2
   /\ \A i \in Shot : proyectiles[i].activo =>
        /\ proyectiles[i].y \in 0 .. ROWS - 1
        /\ IF gamePc = "wall" /\ i = shot THEN proyectiles[i].x \in 0 .. COLS - 1
                                          ELSE proyectiles[i].x \in 1 .. COLS - 2

GameInv ==
  /\ GameTypes
  /\ PlayerNear
  /\ EnemiesPatrol
  /\ ShotsInside
  /\ GameOver
  /\ Aiming
  /\ KeyAwaited

----------------------------------------------------------------------------
(* Places *)

LEMMA Sizes ==
  /\ ROWS \in Nat /\ COLS \in Nat /\ ROWS > 4 /\ COLS > 4
  /\ sizeXDragon \in Nat /\ sizeYDragon \in Nat /\ sizeXDragon > 0 /\ sizeYDragon > 0
  /\ LowStep \in Nat /\ HighStep \in Nat /\ Patrol \in Nat /\ Patrol > 0
  /\ ShotRow \in Nat /\ ShotRow < sizeYDragon
  /\ MAX_PROYECTILES \in Nat /\ MAX_PROYECTILES > 0 /\ MaxSignals \in Nat
  /\ PlayerX \in Int /\ PlayerY \in Int /\ EnemyX1 \in Int /\ EnemyX2 \in Int
BY GameAssumption

LEMMA BodyCells ==
  ASSUME NEW x \in Int, NEW y \in Int, NEW a \in Int, NEW b \in Int
  PROVE  <<a, b>> \in Body(x, y, sizeXDragon, sizeYDragon)
           <=> a >= x /\ a < x + sizeXDragon /\ b >= y /\ b < y + sizeYDragon
BY Sizes DEF Body

LEMMA Cells ==
  ASSUME NEW x \in Int, NEW y \in Int, NEW c \in Body(x, y, sizeXDragon, sizeYDragon)
  PROVE  /\ c = <<c[1], c[2]>> /\ c[1] \in Int /\ c[2] \in Int
         /\ c[1] >= x /\ c[1] < x + sizeXDragon /\ c[2] >= y /\ c[2] < y + sizeYDragon
BY Sizes DEF Body

\* On the floor, the cells of the body are off the border.
LEMMA FloorInside ==
  ASSUME NEW x \in Int, NEW y \in Int, OnFloor(x, y)
  PROVE  x >= 2 /\ x + sizeXDragon <= COLS - 2 /\ y >= 1 /\ y + sizeYDragon <= ROWS - 1
<1>1. \A a \in Int, b \in Int :
        a >= x /\ a < x + sizeXDragon /\ b >= y /\ b < y + sizeYDragon =>
          a >= 2 /\ a < COLS - 2 /\ b >= 1 /\ b < ROWS - 1
  <2> SUFFICES ASSUME NEW a \in Int, NEW b \in Int,
                      a >= x, a < x + sizeXDragon, b >= y, b < y + sizeYDragon
               PROVE  a >= 2 /\ a < COLS - 2 /\ b >= 1 /\ b < ROWS - 1
    OBVIOUS
  <2>1. ~Wall(a, b)
    BY BodyCells DEF OnFloor
  <2> QED
    BY <2>1, Sizes DEF Wall
<1>2. x >= 2 /\ y >= 1
  BY <1>1, Sizes
<1>3. x + sizeXDragon - 1 < COLS - 2 /\ y + sizeYDragon - 1 < ROWS - 1
  BY <1>1, Sizes
<1> QED
  BY <1>2, <1>3, Sizes

\* The test of the map is enough for who was on the floor a step ago.
LEMMA StepOnFloor ==
  ASSUME NEW u \in Int, NEW v \in Int, OnFloor(u, v),
         NEW x \in Int, NEW y \in Int, Near(x, y, u, v), posicionValida(x, y)
  PROVE  OnFloor(x, y)
<1> SUFFICES ASSUME NEW c \in Body(x, y, sizeXDragon, sizeYDragon)
             PROVE  InMap(c[1], c[2]) /\ ~Wall(c[1], c[2])
  BY DEF OnFloor
<1>1. c[1] \in Int /\ c[2] \in Int /\ c[1] >= x /\ c[1] < x + sizeXDragon
      /\ c[2] >= y /\ c[2] < y + sizeYDragon
  BY Cells
<1>2. u >= 2 /\ u + sizeXDragon <= COLS - 2 /\ v >= 1 /\ v + sizeYDragon <= ROWS - 1
  BY FloorInside
<1>3. InMap(c[1], c[2])
  BY <1>1, <1>2, Sizes DEF Near, InMap
<1> QED
  BY <1>3 DEF posicionValida

----------------------------------------------------------------------------
(* The first state, and one step *)

LEMMA InitGame == GameInit => GameInv
<1> SUFFICES ASSUME GameInit PROVE GameInv
  OBVIOUS
<1> USE DEF GameInit
<1>1. GameTypes
  <2>1. player \in Character /\ xAnt \in Int /\ yAnt \in Int
    BY Sizes DEF Character, State, Direction
  <2>2. enemigo \in [1 .. 2 -> Enemy] /\ muerto \in [1 .. 2 -> BOOLEAN]
    <3>1. [x |-> EnemyX1, dir |-> "RIGHT"] \in Enemy /\ [x |-> EnemyX2, dir |-> "LEFT"] \in Enemy
      BY Sizes DEF Enemy, Direction
    <3>2. enemigo = [e \in 1 .. 2 |-> IF e = 1 THEN [x |-> EnemyX1, dir |-> "RIGHT"]
                                              ELSE [x |-> EnemyX2, dir |-> "LEFT"]]
      OBVIOUS
    <3> QED
      BY <3>1, <3>2
  <2>3. proyectiles \in [Shot -> Projectile]
    BY DEF Projectile, Direction, Empty
  <2>4. GameTypeOK
    BY Sizes, <2>3 DEF GameTypeOK, Shot, Projectile
  <2> QED
    BY <2>1, <2>2, <2>3, <2>4 DEF GameTypes
<1>2. PlayerNear
  BY GameStart, Sizes DEF PlayerNear, Near
<1>3. EnemiesPatrol
  BY Sizes DEF EnemiesPatrol
<1>4. ShotsInside /\ GameOver /\ Aiming /\ KeyAwaited
  BY DEF ShotsInside, GameOver, Aiming, KeyAwaited, Empty
<1> QED
  BY <1>1, <1>2, <1>3, <1>4 DEF GameInv

LEMMA NextTypes ==
  ASSUME GameTypes, GameNext PROVE GameTypes'
<1> USE DEF GameTypes, GameTypeOK, gamevars, keyvars
<1>1. CASE MainSignal
  BY <1>1, Sizes DEF MainSignal, Signal
<1>2. CASE KeyTop
  BY <1>2 DEF KeyTop
<1>3. ASSUME NEW key \in Keys, KeyHandle(key) PROVE GameTypes'
  <2>1. player' \in Character
    BY <1>3 DEF KeyHandle, Steer, Character, State, Direction
  <2> QED
    BY <1>3, <2>1 DEF KeyHandle, KeyHandled
<1>3a. ASSUME NEW i \in Shot, KeyAim(i) PROVE GameTypes'
  <2> DEFINE x == IF player.dir = "LEFT" THEN player.x - 1 ELSE player.x + sizeXDragon
  <2>1. x \in Int
    BY Sizes DEF Character
  <2>2. proyectiles' = [proyectiles EXCEPT ![i] = [@ EXCEPT !.x = x]]
    BY <1>3a DEF KeyAim
  <2> HIDE DEF x
  <2>3. proyectiles' \in [Shot -> Projectile]
    <3>1. [proyectiles[i] EXCEPT !.x = x] \in Projectile
      BY <2>1 DEF Projectile
    <3> QED
      BY <2>2, <3>1
  <2> QED
    BY <1>3a, <2>3 DEF KeyAim, Astray, Projectile
<1>3b. CASE KeyFire
  <2> DEFINE y == player.y + ShotRow
  <2>1. y \in Int /\ player.dir \in Direction /\ 0 \in Shot
    BY Sizes DEF Character, Shot
  <2>2. proyectiles' = [proyectiles EXCEPT
                          ![aim] = [@ EXCEPT !.y = y, !.dir = player.dir, !.activo = TRUE]]
    BY <1>3b DEF KeyFire
  <2> HIDE DEF y
  <2>3. proyectiles' \in [Shot -> Projectile]
    <3>1. [proyectiles[aim] EXCEPT !.y = y, !.dir = player.dir, !.activo = TRUE] \in Projectile
      BY <2>1 DEF Projectile
    <3> QED
      BY <2>2, <3>1
  <2>4. keyPc' = "signal" /\ aim' \in Shot /\ offFloor' \in BOOLEAN /\ lateKeys' \in Nat
    BY <1>3b, <2>1 DEF KeyFire, KeyHandled, Astray
  <2> QED
    BY <1>3b, <2>3, <2>4 DEF KeyFire, Projectile
<1>4. CASE KeySignal
  BY <1>4, Sizes DEF KeySignal, Signal
<1>5. CASE GameWait
  BY <1>5, Sizes DEF GameWait, GameAt, Shot
<1>6. CASE ShotSkip
  BY <1>6, Sizes DEF ShotSkip, Shot
<1>7. CASE ShotMove
  <2>1. proyectiles' \in [Shot -> Projectile]
    <3> DEFINE moved == IF proyectiles[shot].dir = "LEFT" THEN proyectiles[shot].x - 1
                                                          ELSE proyectiles[shot].x + 1
    <3>1. shot \in Shot /\ proyectiles[shot] \in Projectile
      OBVIOUS
    <3>2. moved \in Int
      BY <3>1 DEF Projectile
    <3>3. proyectiles' = [proyectiles EXCEPT ![shot] = [@ EXCEPT !.x = moved]]
      BY <1>7 DEF ShotMove
    <3> HIDE DEF moved
    <3>4. [proyectiles[shot] EXCEPT !.x = moved] \in Projectile
      BY <3>1, <3>2 DEF Projectile
    <3> QED
      BY <3>3, <3>4
  <2> QED
    BY <1>7, <2>1 DEF ShotMove, GameAt, Projectile
<1>8. CASE ShotWall
  <2>1. proyectiles' \in [Shot -> Projectile]
    <3>1. shot \in Shot /\ proyectiles[shot] \in Projectile
      OBVIOUS
    <3>2. [proyectiles[shot] EXCEPT !.activo = FALSE] \in Projectile
      BY <3>1 DEF Projectile
    <3>3. \/ UNCHANGED proyectiles
          \/ proyectiles' = [proyectiles EXCEPT ![shot] = [@ EXCEPT !.activo = FALSE]]
      BY <1>8 DEF ShotWall
    <3> QED
      BY <3>2, <3>3
  <2> QED
    BY <1>8, <2>1 DEF ShotWall, GameAt, Projectile
<1>9. CASE ShotHit
  <2>1. proyectiles' \in [Shot -> Projectile]
    <3>1. proyectiles[shot] \in Projectile /\ Ended(shot) \in Projectile
      <4>1. proyectiles[shot] \in Projectile
        OBVIOUS
      <4>2. [proyectiles[shot] EXCEPT !.activo = FALSE] \in Projectile
        BY <4>1 DEF Projectile
      <4>3. Empty \in Projectile
        BY DEF Empty, Projectile, Direction
      <4> QED
        BY <4>1, <4>2, <4>3 DEF Ended
    <3>2. \E p \in {proyectiles[shot], Ended(shot)} :
            proyectiles' = [proyectiles EXCEPT ![shot] = p]
      BY <1>9 DEF ShotHit
    <3> QED
      BY <3>1, <3>2
  <2>2. muerto' \in [1 .. 2 -> BOOLEAN]
    BY <1>9 DEF ShotHit
  <2>3. shot' \in Shot /\ gamePc' \in {"shots", "enemies"}
    BY <1>9, Sizes DEF ShotHit, Shot
  <2> QED
    BY <1>9, <2>1, <2>2, <2>3 DEF ShotHit, Projectile
<1>10. CASE GameEnemies
  <2>1. enemigo' \in [1 .. 2 -> Enemy] /\ contadorEnemigos' \in 0 .. Patrol
    <3>1. \A e \in 1 .. 2 :
            /\ [enemigo[e] EXCEPT !.dir = Turned(@)] \in Enemy
            /\ [enemigo[e] EXCEPT !.x = IF enemigo[e].dir = "LEFT" THEN @ - 1 ELSE @ + 1] \in Enemy
      BY DEF Enemy, Turned, Direction
    <3>2. CASE UNCHANGED <<enemigo, contadorEnemigos>>
      BY <3>2
    <3>3. CASE mueveEnemigos
      BY <3>1, <3>3, Sizes DEF mueveEnemigos
    <3> QED
      BY <1>10, <3>2, <3>3 DEF GameEnemies
  <2> QED
    BY <1>10, <2>1 DEF GameEnemies, GameAt
<1>11. CASE GameStep
  BY <1>11 DEF GameStep, GameAt, Character
<1>12. CASE GameValid
  BY <1>12 DEF GameValid, GameAt, Character
<1>13. CASE GameStop
  BY <1>13 DEF GameStop, GameAt, Character, State
<1>14. CASE GameCollide
  BY <1>14 DEF GameCollide
<1>15. CASE GameFree
  BY <1>15 DEF GameFree, GameAt
<1> QED
  BY <1>1, <1>2, <1>3, <1>3a, <1>3b, <1>4, <1>5, <1>6, <1>7, <1>8, <1>9, <1>10, <1>11, <1>12,
     <1>13, <1>14, <1>15 DEF GameNext, KeyboardThread, GameThread

\* The player, between the keyboard thread and the game thread.
LEMMA NextPlayer ==
  ASSUME GameTypes, PlayerNear, GameNext PROVE PlayerNear'
<1> USE DEF GameTypes, PlayerNear, gamevars, keyvars
<1>1. player.x \in Int /\ player.y \in Int
  BY DEF Character
<1>2. ASSUME player'.x = player.x, player'.y = player.y, UNCHANGED <<xAnt, yAnt>>,
             gamePc # "valid" \/ gamePc' = "valid"
      PROVE  PlayerNear'
  BY <1>2 DEF Near, OnFloor
<1>3. CASE GameStep
  BY <1>1, <1>3 DEF GameStep, GameAt, Near, Character, State, OnFloor
<1>4. CASE GameValid
  <2>1. CASE posicionValida(player.x, player.y)
    <3>1. OnFloor(player.x, player.y)
      BY <1>1, <2>1, StepOnFloor
    <3>2. player' = player /\ xAnt' = player.x /\ yAnt' = player.y
      BY <1>4, <2>1 DEF GameValid
    <3> QED
      BY <1>1, <3>1, <3>2 DEF Near, OnFloor
  <2>2. CASE ~posicionValida(player.x, player.y)
    <3>1. player'.x = xAnt /\ player'.y = yAnt /\ xAnt' = xAnt /\ yAnt' = yAnt
      BY <1>4, <2>2 DEF GameValid, Character
    <3> QED
      BY <3>1 DEF Near, OnFloor
  <2> QED
    BY <2>1, <2>2
<1>5. ASSUME NEW key \in Keys, KeyHandle(key) PROVE PlayerNear'
  <2>1. player'.x = player.x /\ player'.y = player.y
    BY <1>5 DEF KeyHandle, Steer, Character
  <2> QED
    BY <1>2, <1>5, <2>1 DEF KeyHandle
<1>6. CASE GameStop
  BY <1>2, <1>6 DEF GameStop, GameAt, Character
<1>7. CASE MainSignal \/ KeyTop \/ (\E i \in Shot : KeyAim(i)) \/ KeyFire \/ KeySignal
  BY <1>2, <1>7 DEF MainSignal, KeyTop, KeyAim, KeyFire, KeySignal
<1>8. CASE GameWait \/ ShotSkip \/ ShotMove \/ ShotWall \/ ShotHit \/ GameEnemies \/ GameCollide
           \/ GameFree
  BY <1>2, <1>8 DEF GameWait, ShotSkip, ShotMove, ShotWall, ShotHit, GameEnemies, GameCollide,
     GameFree, GameAt
<1> QED
  BY <1>3, <1>4, <1>5, <1>6, <1>7, <1>8 DEF GameNext, KeyboardThread, GameThread

LEMMA NextEnemies ==
  ASSUME GameTypes, EnemiesPatrol, GameNext PROVE EnemiesPatrol'
<1> USE DEF GameTypes, GameTypeOK, gamevars, keyvars
<1>1. CASE mueveEnemigos
  <2>1. /\ enemigo[1].x \in Int /\ enemigo[2].x \in Int
        /\ enemigo[1].dir \in Direction /\ enemigo[2].dir \in Direction
    BY DEF Enemy
  <2>2. CASE contadorEnemigos >= Patrol
    <3>1. /\ contadorEnemigos' = 0 /\ contadorEnemigos = Patrol
          /\ \A e \in 1 .. 2 : /\ enemigo'[e].x = enemigo[e].x
                               /\ enemigo'[e].dir = Turned(enemigo[e].dir)
      BY <1>1, <2>2, Sizes DEF mueveEnemigos, Enemy
    <3> QED
      BY <2>1, <3>1, Sizes DEF EnemiesPatrol, Turned, Direction
  <2>3. CASE contadorEnemigos < Patrol
    <3>1. /\ contadorEnemigos' = contadorEnemigos + 1
          /\ \A e \in 1 .. 2 :
               /\ enemigo'[e].x = IF enemigo[e].dir = "LEFT" THEN enemigo[e].x - 1
                                                           ELSE enemigo[e].x + 1
               /\ enemigo'[e].dir = enemigo[e].dir
      BY <1>1, <2>3, Sizes DEF mueveEnemigos, Enemy
    <3> QED
      BY <2>1, <3>1, Sizes DEF EnemiesPatrol, Direction
  <2> QED
    BY <2>2, <2>3, Sizes
<1>2. CASE UNCHANGED <<enemigo, contadorEnemigos>>
  BY <1>2 DEF EnemiesPatrol
<1>3. GameNext => mueveEnemigos \/ UNCHANGED <<enemigo, contadorEnemigos>>
  BY DEF GameNext, KeyboardThread, GameThread, MainSignal, KeyTop, KeyHandle, KeyAim, KeyFire,
     KeySignal, GameWait, ShotSkip, ShotMove, ShotWall, ShotHit, GameEnemies, GameStep, GameValid,
     GameStop, GameCollide, GameFree
<1> QED
  BY <1>1, <1>2, <1>3

\* What is fired from the floor starts inside the border's outermost column.
LEMMA FiredInside ==
  ASSUME NEW x \in Int, NEW y \in Int, OnFloor(x, y)
  PROVE  /\ y + ShotRow \in 0 .. ROWS - 1
         /\ x - 1 \in 1 .. COLS - 2 /\ x + sizeXDragon \in 1 .. COLS - 2
<1>1. x >= 2 /\ x + sizeXDragon <= COLS - 2 /\ y >= 1 /\ y + sizeYDragon <= ROWS - 1
  BY FloorInside
<1> QED
  BY <1>1, Sizes

LEMMA NextAiming ==
  ASSUME GameTypes, Aiming, GameNext PROVE Aiming'
<1> USE DEF GameTypes, GameTypeOK, Aiming, gamevars, keyvars
\* A slot is filled by nobody else, and is no shot meanwhile.
<1>1. ASSUME UNCHANGED <<keyPc, aim>>,
             \A i \in Shot : ~proyectiles[i].activo => ~proyectiles'[i].activo
      PROVE  Aiming'
  BY <1>1
<1>2. CASE MainSignal \/ KeyTop \/ KeyFire \/ KeySignal \/ \E key \in Keys : KeyHandle(key)
  BY <1>2 DEF MainSignal, KeyTop, KeyFire, KeySignal, KeyHandle, KeyHandled
<1>3. ASSUME NEW i \in Shot, KeyAim(i) PROVE Aiming'
  <2>1. aim' = i /\ ~proyectiles[i].activo /\ proyectiles'[i].activo = proyectiles[i].activo
    BY <1>3 DEF KeyAim, FreeSlot, Projectile
  <2> QED
    BY <2>1
<1>4. CASE ShotMove \/ ShotWall
  BY <1>1, <1>4 DEF ShotMove, ShotWall, Projectile
<1>5. CASE ShotHit
  BY <1>1, <1>5 DEF ShotHit, Ended, Empty, Projectile
<1>6. CASE GameWait \/ ShotSkip \/ GameEnemies \/ GameStep \/ GameValid \/ GameStop \/ GameCollide
           \/ GameFree
  BY <1>1, <1>6 DEF GameWait, ShotSkip, GameEnemies, GameStep, GameValid, GameStop, GameCollide,
     GameFree
<1> QED
  BY <1>2, <1>3, <1>4, <1>5, <1>6 DEF GameNext, KeyboardThread, GameThread

LEMMA NextShots ==
  ASSUME GameTypes, PlayerNear, Aiming, ShotsInside, GameNext PROVE ShotsInside'
<1> USE DEF GameTypes, GameTypeOK, gamevars, keyvars
<1>1. \A i \in Shot : /\ proyectiles[i].x \in Int /\ proyectiles[i].y \in Int
                      /\ proyectiles[i].activo \in BOOLEAN
  BY DEF Projectile
\* Where no shot moves and none is new.
<1>2. ASSUME UNCHANGED <<proyectiles, keyPc, aim, offFloor>>, gamePc # "wall", gamePc' # "wall"
      PROVE  ShotsInside'
  BY <1>1, <1>2 DEF ShotsInside
<1>3. ASSUME UNCHANGED <<proyectiles, aim, offFloor, gamePc, shot>>,
             keyPc' = keyPc \/ keyPc' # "fire"
      PROVE  ShotsInside'
  BY <1>3 DEF ShotsInside
\* A coordinate of the player that may be used is one on the floor.
<1>4. Astray \/ (~offFloor /\ OnFloor(player.x, player.y))
  BY StepOnFloor DEF Astray, PlayerNear, Character
<1>5. ASSUME NEW i \in Shot, KeyAim(i) PROVE ShotsInside'
  <2>1. /\ aim' = i /\ ~proyectiles[i].activo /\ ~proyectiles'[i].activo
        /\ proyectiles'[i].x \in {player.x - 1, player.x + sizeXDragon}
        /\ \A j \in Shot : j # i => proyectiles'[j] = proyectiles[j]
        /\ UNCHANGED <<gamePc, shot>> /\ offFloor' = Astray
    BY <1>5 DEF KeyAim, FreeSlot, Projectile
  <2>2. CASE Astray
    BY <2>1, <2>2 DEF ShotsInside
  <2>3. CASE ~offFloor /\ OnFloor(player.x, player.y)
    <3>1. player.x - 1 \in 1 .. COLS - 2 /\ player.x + sizeXDragon \in 1 .. COLS - 2
      BY <2>3, FiredInside DEF Character
    <3>2. proyectiles'[aim'].x \in 1 .. COLS - 2
      BY <2>1, <3>1
    <3>3. \A j \in Shot : proyectiles'[j].activo =>
                         proyectiles'[j] = proyectiles[j] /\ proyectiles[j].activo
      BY <2>1
    <3> QED
      BY <2>1, <2>3, <3>2, <3>3 DEF ShotsInside
  <2> QED
    BY <1>4, <2>2, <2>3
<1>6. CASE KeyFire
  <2>1. /\ keyPc = "fire" /\ keyPc' # "fire"
        /\ proyectiles'[aim].x = proyectiles[aim].x /\ proyectiles'[aim].y = player.y + ShotRow
        /\ \A j \in Shot : j # aim => proyectiles'[j] = proyectiles[j]
        /\ UNCHANGED <<gamePc, shot>> /\ offFloor' = Astray
    BY <1>6 DEF KeyFire, KeyHandled, Projectile
  <2>2. CASE Astray
    BY <2>1, <2>2 DEF ShotsInside
  <2>3. CASE ~offFloor /\ OnFloor(player.x, player.y)
    <3>1. proyectiles'[aim].y \in 0 .. ROWS - 1
      BY <2>1, <2>3, FiredInside DEF Character
    <3>2. proyectiles'[aim].x \in 1 .. COLS - 2 /\ proyectiles'[aim].x \in 0 .. COLS - 1
      BY <1>1, <2>1, <2>3, Sizes DEF ShotsInside
    <3> QED
      BY <2>1, <2>3, <3>1, <3>2 DEF ShotsInside
  <2> QED
    BY <1>4, <2>2, <2>3
<1>7. CASE MainSignal \/ KeyTop \/ KeySignal \/ \E key \in Keys : KeyHandle(key)
  BY <1>3, <1>7 DEF MainSignal, KeyTop, KeySignal, KeyHandle, KeyHandled
<1>8. CASE GameWait \/ ShotSkip \/ GameEnemies \/ GameStep \/ GameValid \/ GameStop \/ GameCollide
           \/ GameFree
  BY <1>2, <1>8 DEF GameWait, ShotSkip, GameEnemies, GameStep, GameValid, GameStop, GameCollide,
     GameFree, GameAt
<1>9. CASE ShotMove
  <2>1. /\ gamePc # "wall" /\ gamePc' = "wall" /\ UNCHANGED <<keyPc, aim, shot, offFloor>>
        /\ proyectiles[shot].activo
        /\ \A i \in Shot : /\ proyectiles'[i].activo => proyectiles[i].activo
                           /\ proyectiles'[i].y = proyectiles[i].y
                           /\ i # shot => proyectiles'[i].x = proyectiles[i].x
        /\ proyectiles'[shot].x \in {proyectiles[shot].x - 1, proyectiles[shot].x + 1}
    BY <1>9 DEF ShotMove, GameAt, Projectile
  <2>2. keyPc = "fire" => proyectiles'[aim].x = proyectiles[aim].x
    BY <2>1 DEF Aiming
  <2> SUFFICES ASSUME ~offFloor, NEW i \in Shot, proyectiles[i].activo
               PROVE  /\ proyectiles'[i].y \in 0 .. ROWS - 1
                      /\ IF i = shot THEN proyectiles'[i].x \in 0 .. COLS - 1
                                     ELSE proyectiles'[i].x \in 1 .. COLS - 2
    BY <2>1, <2>2 DEF ShotsInside
  <2>3. proyectiles[i].y \in 0 .. ROWS - 1 /\ proyectiles[i].x \in 1 .. COLS - 2
    BY <2>1 DEF ShotsInside
  <2>4. CASE i = shot
    BY <1>1, <2>1, <2>3, <2>4, Sizes
  <2>5. CASE i # shot
    BY <2>1, <2>3, <2>5
  <2> QED
    BY <2>4, <2>5
<1>10. CASE ShotWall
  <2>1. gamePc = "wall" /\ gamePc' = "hit" /\ UNCHANGED <<keyPc, aim, shot, offFloor>>
    BY <1>10 DEF ShotWall, GameAt
  <2>2. CASE proyectiles' = [proyectiles EXCEPT ![shot].activo = FALSE]
    <3>1. /\ ~proyectiles'[shot].activo
          /\ \A i \in Shot : /\ i # shot => proyectiles'[i] = proyectiles[i]
                             /\ proyectiles'[i].x = proyectiles[i].x
      BY <2>2 DEF Projectile
    <3> QED
      BY <1>1, <2>1, <3>1 DEF ShotsInside
  <2>3. CASE /\ InMap(proyectiles[shot].x, proyectiles[shot].y) =>
                  ~Wall(proyectiles[shot].x, proyectiles[shot].y)
             /\ UNCHANGED proyectiles
    <3>1. ASSUME ~offFloor, proyectiles[shot].activo
          PROVE  proyectiles[shot].x \in 1 .. COLS - 2
      <4>1. InMap(proyectiles[shot].x, proyectiles[shot].y)
        BY <2>1, <3>1 DEF ShotsInside, InMap
      <4>2. ~Wall(proyectiles[shot].x, proyectiles[shot].y)
        BY <2>3, <4>1
      <4> QED
        BY <1>1, <4>1, <4>2, Sizes DEF InMap, Wall
    <3> QED
      BY <1>1, <2>1, <2>3, <3>1 DEF ShotsInside
  <2> QED
    BY <1>10, <2>2, <2>3 DEF ShotWall
<1>11. CASE ShotHit
  <2>1. /\ gamePc # "wall" /\ gamePc' # "wall" /\ UNCHANGED <<keyPc, aim, offFloor>>
        /\ \A i \in Shot : proyectiles'[i].activo => proyectiles'[i] = proyectiles[i]
        /\ keyPc = "fire" => proyectiles'[aim].x = proyectiles[aim].x
    BY <1>11 DEF ShotHit, Ended, Projectile, Empty
  <2> QED
    BY <1>1, <2>1 DEF ShotsInside
<1> QED
  BY <1>5, <1>6, <1>7, <1>8, <1>9, <1>10, <1>11 DEF GameNext, KeyboardThread, GameThread

\* The end of the game, and the key that is read after it.
LEMMA NextOver ==
  ASSUME GameTypes, GameOver, KeyAwaited, GameNext PROVE GameOver' /\ KeyAwaited'
<1> USE DEF GameTypes, GameOver, KeyAwaited, gamevars, keyvars
<1>1. CASE MainSignal \/ KeyTop \/ KeySignal \/ \E i \in Shot : KeyAim(i)
  BY <1>1 DEF MainSignal, KeyTop, KeySignal, KeyAim
<1>2. CASE KeyFire \/ \E key \in Keys : KeyHandle(key)
  BY <1>2 DEF KeyFire, KeyHandle, KeyHandled
<1>3. CASE GameWait \/ ShotSkip \/ ShotMove \/ ShotWall \/ ShotHit \/ GameEnemies \/ GameStep
           \/ GameValid \/ GameStop
  BY <1>3 DEF GameWait, ShotSkip, ShotMove, ShotWall, ShotHit, GameEnemies, GameStep, GameValid,
     GameStop, GameAt
<1>4. CASE GameCollide
  BY <1>4 DEF GameCollide
<1>5. CASE GameFree
  BY <1>5 DEF GameFree, GameAt
<1> QED
  BY <1>1, <1>2, <1>3, <1>4, <1>5 DEF GameNext, KeyboardThread, GameThread

LEMMA NextGame == GameInv /\ [GameNext /\ ShotsBounded]_gvars => GameInv'
<1>1. ASSUME GameInv, GameNext PROVE GameInv'
  BY <1>1, NextTypes, NextPlayer, NextEnemies, NextShots, NextAiming, NextOver DEF GameInv
<1>2. ASSUME GameInv, UNCHANGED gvars PROVE GameInv'
  BY <1>2 DEF gvars, GameInv, GameTypes, GameTypeOK, PlayerNear, EnemiesPatrol, ShotsInside,
     GameOver, Aiming, KeyAwaited, OnFloor
<1> QED
  BY <1>1, <1>2

----------------------------------------------------------------------------
(* Theorems *)

LEMMA InvGame == GameSpec => []GameInv
BY InitGame, NextGame, PTL DEF GameSpec

\* The game's variables keep their types, and its counters their bounds
\* (user.c:1053-1072, 1118-1197).
THEOREM GameTypeCorrect == GameSpec => []GameTypeOK
<1>1. GameInv => GameTypeOK
  BY DEF GameInv, GameTypes
<1> QED
  BY <1>1, InvGame, PTL

\* Whatever keys come in the middle of a move, the player stands on the floor
\* when its move is over (user.c:1161-1178).
THEOREM PlayerStaysOnFloor == GameSpec => []PlayerOnFloor
<1>1. GameInv => PlayerOnFloor
  BY DEF GameInv, PlayerNear, PlayerOnFloor
<1> QED
  BY <1>1, InvGame, PTL

\* A shot fired from the floor ends at the border (user.c:529-579).
THEOREM ShotsStayOnMap == GameSpec => []ShotsOnMap
<1>1. GameInv => ShotsOnMap
  <2> SUFFICES ASSUME GameInv, ~offFloor, NEW i \in Shot, proyectiles[i].activo
               PROVE  InMap(proyectiles[i].x, proyectiles[i].y)
    BY DEF ShotsOnMap
  <2>1. /\ proyectiles[i].y \in 0 .. ROWS - 1
        /\ proyectiles[i].x \in 0 .. COLS - 1 \/ proyectiles[i].x \in 1 .. COLS - 2
    BY DEF GameInv, ShotsInside
  <2> QED
    BY <2>1, Sizes DEF InMap
<1> QED
  BY <1>1, InvGame, PTL

\* One key at most is handled with what the game freed (user.c:584-593).
THEOREM OneKeyIsLate == GameSpec => []OneLateKey
<1>1. GameInv => OneLateKey
  BY DEF GameInv, GameTypes, KeyAwaited, OneLateKey
<1> QED
  BY <1>1, InvGame, PTL

\* Enemies go up and down the same cells (user.c:1053-1072).
THEOREM EnemiesKeepPatrol == GameSpec => []EnemiesPatrol
<1>1. GameInv => EnemiesPatrol
  BY DEF GameInv
<1> QED
  BY <1>1, InvGame, PTL

=============================================================================
