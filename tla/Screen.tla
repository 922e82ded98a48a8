------------------------------- MODULE Screen -------------------------------
(***************************************************************************)
(* A frame of the map: every target and obstacle of the simulated square   *)
(* gets a cell of the window of its own.  One that would come to lie on    *)
(* another, or outside, is moved to the first free cell that find_spot     *)
(* meets on growing squares around its place; if there is none, the map    *)
(* exits.  A target whose own cell is the one of the drone is hit and not  *)
(* drawn.                                                                  *)
(*                                                                         *)
(* Positions are whole numbers; a drone that is nowhere (Dynamics) has no  *)
(* cell of the window.                                                     *)
(***************************************************************************)
EXTENDS Integers, Sequences, FiniteSets

CONSTANTS
  Sizes,           \* the sizes of the terminal: lines and columns
  Positions,       \* the coordinates an object may have, in the square
  SIMULATION,      \* the side of the square
  N_TARGETS, N_OBSTACLES,
  MAX_RING         \* the squares that find_spot looks at

ASSUME ScreenAssumption ==
  /\ Sizes \subseteq (Nat \ 0..3) \X (Nat \ 0..2)   \* room for one cell
  /\ SIMULATION \in Nat \ {0} /\ Positions \subseteq 0..SIMULATION
  /\ N_TARGETS \in Nat /\ N_OBSTACLES \in Nat /\ MAX_RING \in Nat

VARIABLES
  size,        \* LINES and COLS
  drone,       \* the cell of the drone: row and column
  targets, obstacles,       \* the cells drawn in this frame
  targetCount, hits, obstacleCount,   \* how many objects the loops have treated
  phase        \* which loop runs, or "exit" when the map is gone

vars == <<size, drone, targets, obstacles, targetCount, hits, obstacleCount, phase>>

LINES == size[1]
COLS == size[2]

\* round(1 + position * (n - 3) / SIMULATION), n being the height or width of
\* the window inside the terminal.
ToCell(position, n) == ((2 * position * (n - 3) + SIMULATION) \div (2 * SIMULATION)) + 1
Cell(x, y) == <<ToCell(y, LINES - 1), ToCell(x, COLS)>>

\* What the conversion of a coordinate that is not a number gives.
NotANumber == -1

Placed == targets \cup obstacles

\* The cells inside the border.
InWindow(c) == 1 <= c[1] /\ c[1] <= LINES - 3 /\ 1 <= c[2] /\ c[2] <= COLS - 2

Terminal == (0..LINES) \X (0..COLS)
Cells == (1..(LINES - 3)) \X (1..(COLS - 2))

\* is_overlapping, without and with the cell of the drone.
IsOverlapping(c) == ~InWindow(c) \/ c \in Placed
IsOverlappingDrone_Forgotten(c) == IsOverlapping(c)
IsOverlappingDrone_TargetsOnly(c) == ~InWindow(c) \/ c = drone \/ c \in targets
IsOverlappingDrone(c) == IsOverlapping(c) \/ c = drone

\* The square of radius k around a cell in the order of the search: the row
\* above, the row below, then the columns left and right without their corners.
Row(y, x, k) == [i \in 1..(2 * k + 1) |-> <<y, x - k + i - 1>>]
Column(y, x, k) == [i \in 1..(2 * k - 1) |-> <<y - k + i, x>>]
Ring_NoLeftColumn(c, k) ==
  Row(c[1] - k, c[2], k) \o Row(c[1] + k, c[2], k) \o Column(c[1], c[2] + k, k)
Ring(c, k) ==
  Row(c[1] - k, c[2], k) \o Row(c[1] + k, c[2], k)
  \o Column(c[1], c[2] - k, k) \o Column(c[1], c[2] + k, k)

\* find_spot finds cell s for an object that belongs to cell c: the squares
\* within hold no free cell, nor does this one before s.
Taken(c, k) == LET ring == Ring(c, k) IN \A i \in DOMAIN ring : IsOverlappingDrone(ring[i])
FindSpot(c, s) ==
  /\ ~IsOverlappingDrone(s)
  /\ \E k \in 1..MAX_RING :
       LET ring == Ring(c, k)
       IN  /\ \E i \in DOMAIN ring :
                ring[i] = s /\ \A j \in 1..(i - 1) : IsOverlappingDrone(ring[j])
           /\ \A l \in 1..(k - 1) : Taken(c, l)
NoSpot(c) == \A k \in 1..MAX_RING : Taken(c, k)

\* The array of the cells in use has N_TARGETS + N_OBSTACLES entries: no more of
\* them are taken than the loops of this frame have treated objects.
TypeOK ==
  /\ size \in Sizes
  /\ drone \in Int \X Int
  /\ targets \subseteq Int \X Int /\ obstacles \subseteq Int \X Int
  /\ Cardinality(Placed) <= targetCount + obstacleCount
  /\ targetCount \in 0..N_TARGETS /\ hits \in 0..targetCount
  /\ obstacleCount \in 0..N_OBSTACLES
  /\ phase \in {"targets", "obstacles", "exit"}

\* Where the drone may be, by rows and columns that may not be numbers.
DroneCells(sz) ==
  ({ToCell(y, sz[1] - 1) : y \in Positions} \cup {NotANumber})
  \X ({ToCell(x, sz[2]) : x \in Positions} \cup {NotANumber})

Init ==
  /\ size \in Sizes /\ drone \in DroneCells(size)
  /\ targets = {} /\ obstacles = {}
  /\ targetCount = 0 /\ hits = 0 /\ obstacleCount = 0
  /\ phase = "targets"

----------------------------------------------------------------------------

Exit ==
  /\ phase' = "exit"
  /\ UNCHANGED <<size, drone, targets, obstacles, targetCount, hits, obstacleCount>>

\* One turn of the loop over the targets.  Only a moved one is kept off the drone.
DrawTarget(x, y) ==
  /\ phase = "targets" /\ targetCount < N_TARGETS
  /\ \/ /\ ~IsOverlapping(Cell(x, y)) /\ Cell(x, y) # drone
        /\ targets' = targets \cup {Cell(x, y)} /\ targetCount' = targetCount + 1
        /\ UNCHANGED <<size, drone, obstacles, hits, obstacleCount, phase>>
     \/ /\ ~IsOverlapping(Cell(x, y)) /\ Cell(x, y) = drone
        /\ hits' = hits + 1 /\ targetCount' = targetCount + 1
        /\ UNCHANGED <<size, drone, targets, obstacles, obstacleCount, phase>>
     \/ /\ IsOverlapping(Cell(x, y))
        /\ \E s \in Terminal : FindSpot(Cell(x, y), s) /\ targets' = targets \cup {s}
        /\ targetCount' = targetCount + 1
        /\ UNCHANGED <<size, drone, obstacles, hits, obstacleCount, phase>>
     \/ IsOverlapping(Cell(x, y)) /\ NoSpot(Cell(x, y)) /\ Exit

TargetsDone ==
  /\ phase = "targets" /\ phase' = "obstacles"
  /\ UNCHANGED <<size, drone, targets, obstacles, targetCount, hits, obstacleCount>>

\* One turn of the loop over the obstacles.
DrawObstacle(x, y) ==
  /\ phase = "obstacles" /\ obstacleCount < N_OBSTACLES
  /\ \/ /\ \/ ~IsOverlappingDrone(Cell(x, y)) /\ obstacles' = obstacles \cup {Cell(x, y)}
           \/ /\ IsOverlappingDrone(Cell(x, y))
              /\ \E s \in Terminal : FindSpot(Cell(x, y), s) /\ obstacles' = obstacles \cup {s}
        /\ obstacleCount' = obstacleCount + 1
        /\ UNCHANGED <<size, drone, targets, targetCount, hits, phase>>
     \/ IsOverlappingDrone(Cell(x, y)) /\ NoSpot(Cell(x, y)) /\ Exit

\* The next turn of the main loop, in a terminal that may have another size.
NextFrame_KeepsCells ==
  /\ phase = "obstacles" /\ phase' = "targets"
  /\ size' \in Sizes /\ drone' \in DroneCells(size')
  /\ targetCount' = 0 /\ hits' = 0 /\ obstacleCount' = 0
  /\ UNCHANGED <<targets, obstacles>>
NextFrame ==
  /\ phase = "obstacles" /\ phase' = "targets"
  /\ size' \in Sizes /\ drone' \in DroneCells(size')
  /\ targets' = {} /\ obstacles' = {}
  /\ targetCount' = 0 /\ hits' = 0 /\ obstacleCount' = 0

Next ==
  \/ \E x, y \in Positions : DrawTarget(x, y) \/ DrawObstacle(x, y)
  \/ TargetsDone \/ NextFrame

Spec == Init /\ [][Next]_vars

----------------------------------------------------------------------------
(* What must be true *)

\* No object is lost on the screen: what is drawn has a cell of its own inside the
\* border, and what is not drawn was hit (map.c:349-350, 407-408).
EachOnItsOwn ==
  /\ Placed \subseteq Cells
  /\ targets \cap obstacles = {}
  /\ Cardinality(targets) + hits = targetCount
  /\ Cardinality(obstacles) = obstacleCount

\* Nothing is ever drawn over the drone, though map.c:393-400 expects it: so
\* can_display_drone stays true, and no target drawn before hides a hit.
DroneStaysFree == drone \notin Placed

\* A moved object goes as near to its place as it can: no free cell is on a
\* smaller square (map.c:94-105).
Distance(c, d) ==
  LET Abs(n) == IF n < 0 THEN -n ELSE n
  IN  IF Abs(c[1] - d[1]) > Abs(c[2] - d[2]) THEN Abs(c[1] - d[1]) ELSE Abs(c[2] - d[2])
SpotIsNearest ==
  \A c, s \in Cells : FindSpot(c, s) =>
    \A d \in Cells : ~IsOverlappingDrone(d) /\ d # c => Distance(c, s) <= Distance(c, d)

\* The map gives up only when the window has no free cell left (map.c:153-155).
ExitsOnlyWhenFull ==
  phase = "exit" => \A c \in Cells : IsOverlappingDrone(c)
=============================================================================
