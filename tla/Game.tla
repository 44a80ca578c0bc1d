-------------------------------- MODULE Game --------------------------------
(***************************************************************************)
(* The game of user.c: three threads that share the player, the enemies    *)
(* and the shots, without a lock.  main signals a semaphore for ever, the  *)
(* keyboard thread handles keys, and the game thread makes a move of       *)
(* everything for each signal.                                             *)
(*                                                                         *)
(* Any thread may be preempted anywhere.  What only one thread uses is no  *)
(* reason for a step of its own: drawing is the game thread's alone, and   *)
(* is left out, and a shot is fired in two steps, one for each coordinate  *)
(* of the player that it is fired from.                                    *)
(***************************************************************************)
EXTENDS Integers, FiniteSets

CONSTANTS
  ROWS, COLS,
  sizeXDragon, sizeYDragon, sizeXEnemigo, sizeYEnemigo, sizeXDiamante, sizeYDiamante,
  LowStep, HighStep,     \* length of the steps at the bottom, 24 and 12
  ShotRow,               \* row of the dragon that it shoots from, 4
  Patrol,                \* moves of an enemy before it turns, 5
  PlayerX, PlayerY,      \* where the player starts
  EnemyX1, EnemyX2, EnemyY, DiamondX1, DiamondX2, DiamondY,
  MAX_PROYECTILES,
  MaxSignals,            \* bound on the count of the semaphore
  MaxAstray              \* bound on how far a shot leaves the map

ASSUME GameAssumption ==
  /\ ROWS \in Nat /\ ROWS > 4 /\ COLS \in Nat /\ COLS > 4
  /\ MAX_PROYECTILES \in Nat \ {0} /\ MaxSignals \in Nat \ {0} /\ Patrol \in Nat \ {0}
  /\ MaxAstray \in Nat
  /\ {sizeXDragon, sizeYDragon} \subseteq Nat \ {0}
  /\ {sizeXEnemigo, sizeYEnemigo, sizeXDiamante, sizeYDiamante, LowStep, HighStep} \subseteq Nat
  /\ ShotRow \in 0 .. sizeYDragon - 1
  /\ {PlayerX, PlayerY, EnemyX1, EnemyX2, EnemyY, DiamondX1, DiamondX2, DiamondY} \subseteq Int

Shot == 0 .. MAX_PROYECTILES - 1
Keys == {"w", "s", "a", "d", "C", "other"}

VARIABLES
  player,        \* x, y, state, dir
  xAnt, yAnt,    \* where the game thread drew the player last
  enemigo,       \* x and dir of each; they stay in their row
  muerto,        \* enemigo1muerto, enemigo2muerto
  contadorEnemigos,
  proyectiles,
  semChanges,
  gameThreadMuerto,
  freed,         \* liberaRecursos was called
  gamePc, shot,  \* where the game thread is, and at which shot
  keyPc, aim,    \* where the keyboard thread is, and which slot it is filling
  offFloor,      \* history: a shot was fired from where the player may not be
  lateKeys       \* history: keys handled with what was freed

gvars == <<player, xAnt, yAnt, enemigo, muerto, contadorEnemigos, proyectiles,
           semChanges, gameThreadMuerto, freed, gamePc, shot, keyPc, aim,
           offFloor, lateKeys>>

----------------------------------------------------------------------------
(* The map *)

InMap(x, y) == x \in 0 .. COLS - 1 /\ y \in 0 .. ROWS - 1

\* mapa[y][x] = '0': the border, one row and two columns wide, and the steps.
Wall(x, y) ==
  \/ y < 1 \/ y >= ROWS - 1 \/ x < 2 \/ x >= COLS - 2
  \/ y = ROWS - 2 /\ (x \in 1 .. LowStep  \/ x \in COLS - 1 - LowStep  .. COLS - 2)
  \/ y = ROWS - 3 /\ (x \in 1 .. HighStep \/ x \in COLS - 1 - HighStep .. COLS - 2)

Body(x, y, w, h) == (x .. x + w - 1) \X (y .. y + h - 1)

OnFloor(x, y) ==
  \A c \in Body(x, y, sizeXDragon, sizeYDragon) : InMap(c[1], c[2]) /\ ~Wall(c[1], c[2])

PlayerBody    == Body(player.x, player.y, sizeXDragon, sizeYDragon)
EnemyBody(e)  == Body(enemigo[e].x, EnemyY, sizeXEnemigo, sizeYEnemigo)
DiamondBodies == Body(DiamondX1, DiamondY, sizeXDiamante, sizeYDiamante)
                   \cup Body(DiamondX2, DiamondY, sizeXDiamante, sizeYDiamante)

\* The player starts on the floor, and touches nobody (user.c:1264-1280).
ASSUME GameStart ==
  /\ OnFloor(PlayerX, PlayerY)
  /\ Body(PlayerX, PlayerY, sizeXDragon, sizeYDragon)
       \cap (Body(EnemyX1, EnemyY, sizeXEnemigo, sizeYEnemigo)
             \cup Body(EnemyX2, EnemyY, sizeXEnemigo, sizeYEnemigo) \cup DiamondBodies) = {}

posicionValida(x, y) ==
  \A c \in Body(x, y, sizeXDragon, sizeYDragon) : InMap(c[1], c[2]) => ~Wall(c[1], c[2])

hayColisionEnemigo(e) == PlayerBody \cap EnemyBody(e) # {}
hayColisionDiamante   == PlayerBody \cap DiamondBodies # {}

----------------------------------------------------------------------------
(* main, after it made everything *)

\* What is in a slot that is neither active nor being filled is not looked at,
\* and not kept here.
Empty == [x |-> 0, y |-> 0, activo |-> FALSE, dir |-> "LEFT"]

GameInit ==
  /\ player = [x |-> PlayerX, y |-> PlayerY, state |-> "ST_STOP", dir |-> "RIGHT"]
  /\ xAnt = PlayerX /\ yAnt = PlayerY
  /\ enemigo = <<[x |-> EnemyX1, dir |-> "RIGHT"], [x |-> EnemyX2, dir |-> "LEFT"]>>
  /\ muerto = [e \in 1 .. 2 |-> FALSE] /\ contadorEnemigos = 0
  /\ proyectiles = [i \in Shot |-> Empty]
  /\ semChanges = 0 /\ gameThreadMuerto = FALSE /\ freed = FALSE
  /\ gamePc = "wait" /\ shot = 0
  /\ keyPc = "top" /\ aim = 0
  /\ offFloor = FALSE /\ lateKeys = 0

keyvars  == <<keyPc, aim, offFloor, lateKeys>>
gamevars == <<xAnt, yAnt, enemigo, muerto, contadorEnemigos, gameThreadMuerto, freed,
              gamePc, shot>>

\* Signals past the bound are not counted: the game thread only asks whether
\* there is one.
Signal == semChanges' = IF semChanges < MaxSignals THEN semChanges + 1 ELSE semChanges

MainSignal ==
  /\ Signal
  /\ UNCHANGED <<player, proyectiles, gamevars, keyvars>>

----------------------------------------------------------------------------
(* The keyboard thread *)

\* Mutation: the flag is not looked at.
KeyTopAlways ==
  /\ keyPc = "top" /\ keyPc' = "read"
  /\ UNCHANGED <<player, proyectiles, semChanges, gamevars, aim, offFloor, lateKeys>>

\* `exit_thread;' calls nothing: with the game over the thread goes round and
\* round, and reads no more keys.
KeyTop ==
  /\ keyPc = "top" /\ keyPc' = IF gameThreadMuerto THEN "top" ELSE "read"
  /\ UNCHANGED <<player, proyectiles, semChanges, gamevars, aim, offFloor, lateKeys>>

FreeSlot(i) == ~proyectiles[i].activo /\ \A j \in Shot : j < i => proyectiles[j].activo

Steer(state, dir) == player' = [player EXCEPT !.state = state, !.dir = dir]

\* The key is handled.
KeyHandled ==
  keyPc' = "signal" /\ lateKeys' = IF freed THEN lateKeys + 1 ELSE lateKeys

\* read gives it a key, and it handles it.
KeyHandle(key) ==
  /\ keyPc = "read" /\ KeyHandled
  /\ CASE key = "w" -> Steer("ST_UP", player.dir)
       [] key = "s" -> Steer("ST_DOWN", player.dir)
       [] key = "a" -> Steer("ST_LEFT", "LEFT")
       [] key = "d" -> Steer("ST_RIGHT", "RIGHT")
       [] key = "C" -> (\A i \in Shot : proyectiles[i].activo) /\ UNCHANGED player
       [] OTHER     -> Steer("ST_STOP", player.dir)
  /\ UNCHANGED <<proyectiles, semChanges, gamevars, aim, offFloor>>

Astray == offFloor \/ ~posicionValida(player.x, player.y)

\* creaProyectil reads player->x, and a moment later player->y.
KeyAim(i) ==
  /\ keyPc = "read" /\ keyPc' = "fire"
  /\ FreeSlot(i) /\ aim' = i
  /\ proyectiles' = [proyectiles EXCEPT
       ![i].x = IF player.dir = "LEFT" THEN player.x - 1 ELSE player.x + sizeXDragon]
  /\ offFloor' = Astray
  /\ UNCHANGED <<player, semChanges, gamevars, lateKeys>>

KeyFire ==
  /\ keyPc = "fire" /\ KeyHandled /\ aim' = 0
  /\ proyectiles' = [proyectiles EXCEPT
       ![aim] = [@ EXCEPT !.y = player.y + ShotRow, !.dir = player.dir, !.activo = TRUE]]
  /\ offFloor' = Astray
  /\ UNCHANGED <<player, semChanges, gamevars>>

KeySignal ==
  /\ keyPc = "signal" /\ keyPc' = "top"
  /\ Signal
  /\ UNCHANGED <<player, proyectiles, gamevars, aim, offFloor, lateKeys>>

----------------------------------------------------------------------------
(* The game thread *)

GameAt(pc, next) == gamePc = pc /\ gamePc' = next

GameWait ==
  /\ GameAt("wait", "shots")
  /\ semChanges > 0 /\ semChanges' = semChanges - 1 /\ shot' = 0
  /\ UNCHANGED <<player, proyectiles, xAnt, yAnt, enemigo, muerto, contadorEnemigos,
                 gameThreadMuerto, freed, keyvars>>

\* moverProyectiles, for one shot after the other: its move, the wall, and the
\* enemies.
ShotSkip ==
  /\ gamePc = "shots" /\ ~proyectiles[shot].activo
  /\ IF shot + 1 \in Shot THEN gamePc' = "shots" /\ shot' = shot + 1
                          ELSE gamePc' = "enemies" /\ shot' = 0
  /\ UNCHANGED <<player, proyectiles, semChanges, xAnt, yAnt, enemigo, muerto,
                 contadorEnemigos, gameThreadMuerto, freed, keyvars>>

ShotMove ==
  /\ GameAt("shots", "wall") /\ proyectiles[shot].activo
  /\ proyectiles' = [proyectiles EXCEPT ![shot].x =
                       IF proyectiles[shot].dir = "LEFT" THEN @ - 1 ELSE @ + 1]
  /\ UNCHANGED <<player, semChanges, xAnt, yAnt, enemigo, muerto, contadorEnemigos,
                 gameThreadMuerto, freed, shot, keyvars>>

\* Mutation: walls do not stop shots.
ShotWallNever ==
  /\ GameAt("wall", "hit")
  /\ UNCHANGED <<player, proyectiles, semChanges, xAnt, yAnt, enemigo, muerto,
                 contadorEnemigos, gameThreadMuerto, freed, shot, keyvars>>

\* Outside the map mapa[y][x] is whatever lies there.
ShotWall ==
  /\ GameAt("wall", "hit")
  /\ LET p == proyectiles[shot]
     IN \/ /\ InMap(p.x, p.y) => Wall(p.x, p.y)
           /\ proyectiles' = [proyectiles EXCEPT ![shot].activo = FALSE]
        \/ /\ InMap(p.x, p.y) => ~Wall(p.x, p.y)
           /\ UNCHANGED proyectiles
  /\ UNCHANGED <<player, semChanges, xAnt, yAnt, enemigo, muerto, contadorEnemigos,
                 gameThreadMuerto, freed, shot, keyvars>>

\* A slot that is not active any more.
Ended(i) ==
  IF keyPc = "fire" /\ i = aim THEN [proyectiles[i] EXCEPT !.activo = FALSE] ELSE Empty

\* A shot that the wall has just stopped may still hit.
ShotHit ==
  /\ gamePc = "hit"
  /\ LET hit == {e \in 1 .. 2 : <<proyectiles[shot].x, proyectiles[shot].y>> \in EnemyBody(e)
                                /\ ~muerto[e]}
     IN /\ muerto' = [e \in 1 .. 2 |-> muerto[e] \/ e \in hit]
        /\ proyectiles' = [proyectiles EXCEPT ![shot] =
                            IF @.activo /\ hit = {} THEN @ ELSE Ended(shot)]
  /\ IF shot + 1 \in Shot THEN gamePc' = "shots" /\ shot' = shot + 1
                          ELSE gamePc' = "enemies" /\ shot' = 0
  /\ UNCHANGED <<player, semChanges, xAnt, yAnt, enemigo, contadorEnemigos,
                 gameThreadMuerto, freed, keyvars>>

Turned(d) == IF d = "LEFT" THEN "RIGHT" ELSE "LEFT"

mueveEnemigos ==
  IF contadorEnemigos >= Patrol
  THEN /\ contadorEnemigos' = 0
       /\ enemigo' = [e \in 1 .. 2 |-> [enemigo[e] EXCEPT !.dir = Turned(@)]]
  ELSE /\ contadorEnemigos' = contadorEnemigos + 1
       /\ enemigo' = [e \in 1 .. 2 |->
                        [enemigo[e] EXCEPT !.x = IF enemigo[e].dir = "LEFT" THEN @ - 1 ELSE @ + 1]]

GameEnemies ==
  /\ GameAt("enemies", "step")
  /\ IF \A e \in 1 .. 2 : muerto[e] THEN UNCHANGED <<enemigo, contadorEnemigos>> ELSE mueveEnemigos
  /\ UNCHANGED <<player, proyectiles, semChanges, xAnt, yAnt, muerto, gameThreadMuerto,
                 freed, shot, keyvars>>

\* The player is moved first, and moved back when it may not be there.
GameStep ==
  /\ GameAt("step", "valid")
  /\ player' = CASE player.state = "ST_UP"    -> [player EXCEPT !.y = @ - 1]
                 [] player.state = "ST_DOWN"  -> [player EXCEPT !.y = @ + 1]
                 [] player.state = "ST_LEFT"  -> [player EXCEPT !.x = @ - 1]
                 [] player.state = "ST_RIGHT" -> [player EXCEPT !.x = @ + 1]
                 [] OTHER                     -> player
  /\ UNCHANGED <<proyectiles, semChanges, xAnt, yAnt, enemigo, muerto, contadorEnemigos,
                 gameThreadMuerto, freed, shot, keyvars>>

\* Mutation: the row is not restored.
GameValidX ==
  /\ GameAt("valid", "stop")
  /\ player' = IF posicionValida(player.x, player.y) THEN player
               ELSE [player EXCEPT !.x = xAnt]
  /\ xAnt' = player'.x /\ yAnt' = player'.y
  /\ UNCHANGED <<proyectiles, semChanges, enemigo, muerto, contadorEnemigos,
                 gameThreadMuerto, freed, shot, keyvars>>

GameValid ==
  /\ GameAt("valid", "stop")
  /\ player' = IF posicionValida(player.x, player.y) THEN player
               ELSE [player EXCEPT !.x = xAnt, !.y = yAnt]
  /\ xAnt' = player'.x /\ yAnt' = player'.y
  /\ UNCHANGED <<proyectiles, semChanges, enemigo, muerto, contadorEnemigos,
                 gameThreadMuerto, freed, shot, keyvars>>

\* A key that came since GameStep is forgotten here.
GameStop ==
  /\ GameAt("stop", "collide")
  /\ player' = [player EXCEPT !.state = "ST_STOP"]
  /\ UNCHANGED <<proyectiles, semChanges, xAnt, yAnt, enemigo, muerto, contadorEnemigos,
                 gameThreadMuerto, freed, shot, keyvars>>

Lost == \E e \in 1 .. 2 : hayColisionEnemigo(e) /\ ~muerto[e]

GameCollide ==
  /\ gamePc = "collide"
  /\ IF Lost \/ hayColisionDiamante
     THEN gamePc' = "free" /\ gameThreadMuerto' = TRUE
     ELSE gamePc' = "wait" /\ UNCHANGED gameThreadMuerto
  /\ UNCHANGED <<player, proyectiles, semChanges, xAnt, yAnt, enemigo, muerto,
                 contadorEnemigos, freed, shot, keyvars>>

\* liberaRecursos, and the thread exits.
GameFree ==
  /\ GameAt("free", "exited") /\ freed' = TRUE
  /\ UNCHANGED <<player, proyectiles, semChanges, xAnt, yAnt, enemigo, muerto,
                 contadorEnemigos, gameThreadMuerto, shot, keyvars>>

GameThread ==
  \/ GameWait \/ ShotSkip \/ ShotMove \/ ShotWall \/ ShotHit \/ GameEnemies
  \/ GameStep \/ GameValid \/ GameStop \/ GameCollide \/ GameFree

KeyboardThread ==
  \/ KeyTop \/ (\E key \in Keys : KeyHandle(key)) \/ (\E i \in Shot : KeyAim(i))
  \/ KeyFire \/ KeySignal

GameNext == MainSignal \/ KeyboardThread \/ GameThread

ShotsBounded ==
  \A i \in Shot : proyectiles'[i].x \in -MaxAstray .. COLS - 1 + MaxAstray

GameSpec == GameInit /\ [][GameNext /\ ShotsBounded]_gvars

(***************************************************************************)
(*                              PROPERTIES                                 *)
(***************************************************************************)

GameTypeOK ==
  /\ DOMAIN proyectiles = Shot /\ shot \in Shot
  /\ \A i \in Shot : proyectiles[i].activo \in BOOLEAN
  /\ semChanges \in 0 .. MaxSignals
  /\ contadorEnemigos \in 0 .. Patrol
  /\ gamePc \in {"wait", "shots", "wall", "hit", "enemies", "step", "valid", "stop",
                 "collide", "free", "exited"}
  /\ keyPc \in {"top", "read", "fire", "signal"} /\ aim \in Shot

\* But for the moment between its step and the check of it, the player stands
\* on the map and in no wall, whatever keys come in the middle of a move
\* (user.c:1161-1178).
PlayerOnFloor ==
  gamePc # "valid" => OnFloor(player.x, player.y)

\* Each enemy goes up and down the same Patrol cells, whichever of them is
\* dead (user.c:1053-1072).
EnemiesPatrol ==
  /\ enemigo[1].x = EnemyX1 + IF enemigo[1].dir = "RIGHT" THEN contadorEnemigos
                                                         ELSE Patrol - contadorEnemigos
  /\ enemigo[2].x = EnemyX2 - IF enemigo[2].dir = "LEFT"  THEN contadorEnemigos
                                                         ELSE Patrol - contadorEnemigos

\* A shot ends at the border of the map, unless the keyboard thread read a
\* coordinate of the player between its step and the check of it, where the
\* player may not be: such a shot may start behind the border (user.c:529-539,
\* 563-579).
ShotsOnMap ==
  ~offFloor => \A i \in Shot : proyectiles[i].activo => InMap(proyectiles[i].x, proyectiles[i].y)

\* The keyboard thread handles at most one key with the player and the shots
\* that liberaRecursos freed: the one it was waiting for when the game ended
\* (user.c:584-593, 1184-1192).
OneLateKey == lateKeys <= 1

=============================================================================
