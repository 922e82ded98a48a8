---------------------------- MODULE ScreenProofs ----------------------------
(***************************************************************************)
(* Proofs about Screen for terminals of every size, any positions and any  *)
(* numbers of targets and obstacles: every object of a frame has a cell of *)
(* its own, and none the cell of the drone.                                *)
(***************************************************************************)
EXTENDS Screen, FiniteSetTheorems, SequenceTheorems, TLAPS

\* The types without the bound on the cells in use, which follows from the count
\* of the objects.
Types ==
  /\ size \in Sizes
  /\ drone \in Int \X Int
  /\ targets \subseteq Int \X Int /\ obstacles \subseteq Int \X Int
  /\ targetCount \in 0..N_TARGETS /\ hits \in 0..targetCount
  /\ obstacleCount \in 0..N_OBSTACLES
  /\ phase \in {"targets", "obstacles", "exit"}

\* A cell of the frame that find_spot or the object's own place may give.
LEMMA FreeCell ==
  ASSUME Types, NEW c \in Int \X Int, ~IsOverlapping(c)
  PROVE  c \in Cells /\ c \notin Placed
<1>1. size[1] \in Nat /\ size[2] \in Nat
  BY ScreenAssumption DEF Types
<1>2. c = <<c[1], c[2]>> /\ c[1] \in Int /\ c[2] \in Int
  OBVIOUS
<1> QED
  BY <1>1, <1>2 DEF IsOverlapping, InWindow, Cells, LINES, COLS

LEMMA SpotIsFree ==
  ASSUME Types, NEW c, NEW s \in Terminal, FindSpot(c, s)
  PROVE  s \in Cells /\ s \notin Placed /\ s # drone
<1>1. size[1] \in Nat /\ size[2] \in Nat
  BY ScreenAssumption DEF Types
<1>2. s \in Int \X Int
  BY <1>1 DEF Terminal, LINES, COLS
<1>3. ~IsOverlappingDrone(s)
  BY DEF FindSpot
<1>4. ~IsOverlapping(s) /\ s # drone
  BY <1>3 DEF IsOverlappingDrone
<1> QED
  BY <1>2, <1>4, FreeCell

LEMMA CellType ==
  ASSUME Types, NEW x \in Positions, NEW y \in Positions
  PROVE  Cell(x, y) \in Int \X Int
<1>1. size[1] \in Nat /\ size[2] \in Nat /\ x \in Int /\ y \in Int
      /\ SIMULATION \in Nat /\ SIMULATION > 0
  BY ScreenAssumption DEF Types
<1>2. \A p \in Int, n \in Int : ToCell(p, n) \in Int
  <2> TAKE p \in Int, n \in Int
  <2>1. 2 * p * (n - 3) + SIMULATION \in Int /\ 2 * SIMULATION \in Nat /\ 2 * SIMULATION > 0
    BY <1>1
  <2> QED
    BY <2>1 DEF ToCell
<1>3. size[1] - 1 \in Int /\ y \in Int /\ size[2] \in Int
  BY <1>1, ScreenAssumption
<1>4. ToCell(y, size[1] - 1) \in Int /\ ToCell(x, size[2]) \in Int
  BY <1>1, <1>2, <1>3
<1> QED
  BY <1>4 DEF Cell, LINES, COLS

LEMMA DroneCellType ==
  ASSUME NEW sz \in Sizes
  PROVE  DroneCells(sz) \subseteq Int \X Int
<1>1. sz[1] \in Nat /\ sz[2] \in Nat /\ SIMULATION \in Nat /\ SIMULATION > 0
  BY ScreenAssumption
<1>2. \A p \in Positions, n \in Int : ToCell(p, n) \in Int
  <2> TAKE p \in Positions, n \in Int
  <2>1. p \in Int
    BY ScreenAssumption
  <2>2. 2 * p * (n - 3) + SIMULATION \in Int /\ 2 * SIMULATION \in Nat /\ 2 * SIMULATION > 0
    BY <1>1, <2>1
  <2> QED
    BY <2>2 DEF ToCell
<1> QED
  BY <1>1, <1>2 DEF DroneCells, NotANumber

----------------------------------------------------------------------------

\* What is placed in a frame: the inductive invariant.  The cardinalities need
\* finite sets, the loops their order.
Frame ==
  /\ Types
  /\ IsFiniteSet(targets) /\ IsFiniteSet(obstacles)
  /\ EachOnItsOwn
  /\ DroneStaysFree

LEMMA InitFrame == Init => Frame
<1> SUFFICES ASSUME Init PROVE Frame
  OBVIOUS
<1>1. Types
  <2>1. drone \in Int \X Int
    BY DroneCellType DEF Init
  <2> QED
    BY <2>1, ScreenAssumption DEF Init, Types
<1>2. IsFiniteSet({}) /\ Cardinality({}) = 0
  BY FS_EmptySet
<1> QED
  BY <1>1, <1>2 DEF Init, Frame, EachOnItsOwn, DroneStaysFree, Placed

\* One more target on a free cell.
LEMMA TargetPlaced ==
  ASSUME Frame, NEW s \in Int \X Int, s \in Cells, s \notin Placed, s # drone,
         targetCount < N_TARGETS,
         targets' = targets \cup {s}, targetCount' = targetCount + 1,
         UNCHANGED <<size, drone, obstacles, hits, obstacleCount, phase>>
  PROVE  Frame'
<1>1. Types'
  BY ScreenAssumption DEF Frame, Types
<1>2. IsFiniteSet(targets') /\ Cardinality(targets') = Cardinality(targets) + 1
  BY FS_AddElement DEF Frame, Placed
<1>3. Cardinality(targets) \in Nat /\ hits \in Nat /\ targetCount \in Nat
  BY FS_CardinalityType, ScreenAssumption DEF Frame, Types
<1>4. EachOnItsOwn'
  BY <1>2, <1>3 DEF Frame, EachOnItsOwn, Placed, Cells, LINES, COLS
<1> QED
  BY <1>1, <1>2, <1>4 DEF Frame, DroneStaysFree, Placed

LEMMA ObstaclePlaced ==
  ASSUME Frame, NEW s \in Int \X Int, s \in Cells, s \notin Placed, s # drone,
         obstacleCount < N_OBSTACLES,
         obstacles' = obstacles \cup {s}, obstacleCount' = obstacleCount + 1,
         UNCHANGED <<size, drone, targets, targetCount, hits, phase>>
  PROVE  Frame'
<1>1. Types'
  BY ScreenAssumption DEF Frame, Types
<1>2. IsFiniteSet(obstacles') /\ Cardinality(obstacles') = Cardinality(obstacles) + 1
  BY FS_AddElement DEF Frame, Placed
<1>3. EachOnItsOwn'
  BY <1>2 DEF Frame, EachOnItsOwn, Placed, Cells, LINES, COLS
<1> QED
  BY <1>1, <1>2, <1>3 DEF Frame, DroneStaysFree, Placed

LEMMA ExitFrame ==
  ASSUME Frame, Exit
  PROVE  Frame'
BY DEF Frame, Exit, Types, EachOnItsOwn, DroneStaysFree, Placed, Cells, LINES, COLS

LEMMA DrawTargetFrame ==
  ASSUME Frame, NEW x \in Positions, NEW y \in Positions, DrawTarget(x, y)
  PROVE  Frame'
<1> DEFINE c == Cell(x, y)
<1>1. Types /\ c \in Int \X Int
  BY CellType DEF Frame
<1>2. targetCount < N_TARGETS
  BY DEF DrawTarget
<1>3. CASE /\ ~IsOverlapping(c) /\ c # drone
           /\ targets' = targets \cup {c} /\ targetCount' = targetCount + 1
           /\ UNCHANGED <<size, drone, obstacles, hits, obstacleCount, phase>>
  BY <1>1, <1>2, <1>3, FreeCell, TargetPlaced
<1>4. CASE /\ hits' = hits + 1 /\ targetCount' = targetCount + 1
           /\ UNCHANGED <<size, drone, targets, obstacles, obstacleCount, phase>>
  <2>1. Cardinality(targets) \in Nat /\ hits \in Nat /\ targetCount \in Nat
    BY FS_CardinalityType, ScreenAssumption DEF Frame, Types
  <2>2. Types'
    BY <1>2, <1>4, <2>1, ScreenAssumption DEF Frame, Types
  <2>3. EachOnItsOwn'
    BY <1>4, <2>1 DEF Frame, EachOnItsOwn, Placed, Cells, LINES, COLS
  <2> QED
    BY <1>4, <2>2, <2>3 DEF Frame, DroneStaysFree, Placed
<1>5. CASE /\ \E s \in Terminal : FindSpot(c, s) /\ targets' = targets \cup {s}
           /\ targetCount' = targetCount + 1
           /\ UNCHANGED <<size, drone, obstacles, hits, obstacleCount, phase>>
  <2>1. PICK s \in Terminal : FindSpot(c, s) /\ targets' = targets \cup {s}
    BY <1>5
  <2>2. s \in Cells /\ s \notin Placed /\ s # drone
    BY <1>1, <2>1, SpotIsFree
  <2>3. s \in Int \X Int
    BY <2>2, <1>1, ScreenAssumption DEF Cells, LINES, COLS, Types
  <2> QED
    BY <1>2, <1>5, <2>1, <2>2, <2>3, TargetPlaced
<1>6. CASE Exit
  BY <1>6, ExitFrame
<1> QED
  BY <1>3, <1>4, <1>5, <1>6 DEF DrawTarget

LEMMA DrawObstacleFrame ==
  ASSUME Frame, NEW x \in Positions, NEW y \in Positions, DrawObstacle(x, y)
  PROVE  Frame'
<1> DEFINE c == Cell(x, y)
<1>1. Types /\ c \in Int \X Int
  BY CellType DEF Frame
<1>2. obstacleCount < N_OBSTACLES
  BY DEF DrawObstacle
<1>3. CASE /\ ~IsOverlappingDrone(c)
           /\ obstacles' = obstacles \cup {c} /\ obstacleCount' = obstacleCount + 1
           /\ UNCHANGED <<size, drone, targets, targetCount, hits, phase>>
  <2>1. ~IsOverlapping(c) /\ c # drone
    BY <1>3 DEF IsOverlappingDrone
  <2> QED
    BY <1>1, <1>2, <1>3, <2>1, FreeCell, ObstaclePlaced
<1>4. CASE /\ \E s \in Terminal : FindSpot(c, s) /\ obstacles' = obstacles \cup {s}
           /\ obstacleCount' = obstacleCount + 1
           /\ UNCHANGED <<size, drone, targets, targetCount, hits, phase>>
  <2>1. PICK s \in Terminal : FindSpot(c, s) /\ obstacles' = obstacles \cup {s}
    BY <1>4
  <2>2. s \in Cells /\ s \notin Placed /\ s # drone
    BY <1>1, <2>1, SpotIsFree
  <2>3. s \in Int \X Int
    BY <2>2, <1>1, ScreenAssumption DEF Cells, LINES, COLS, Types
  <2> QED
    BY <1>2, <1>4, <2>1, <2>2, <2>3, ObstaclePlaced
<1>5. CASE Exit
  BY <1>5, ExitFrame
<1> QED
  BY <1>3, <1>4, <1>5 DEF DrawObstacle

LEMMA NextFrameFrame ==
  ASSUME Frame, NextFrame
  PROVE  Frame'
<1>1. size' \in Sizes /\ drone' \in Int \X Int
  BY DroneCellType DEF NextFrame
<1>2. Types'
  BY <1>1, ScreenAssumption DEF NextFrame, Types
<1>3. IsFiniteSet({}) /\ Cardinality({}) = 0
  BY FS_EmptySet
<1> QED
  BY <1>2, <1>3 DEF NextFrame, Frame, EachOnItsOwn, DroneStaysFree, Placed

LEMMA FrameStep == Frame /\ [Next]_vars => Frame'
<1> SUFFICES ASSUME Frame, [Next]_vars PROVE Frame'
  OBVIOUS
<1>1. ASSUME NEW x \in Positions, NEW y \in Positions, DrawTarget(x, y) PROVE Frame'
  BY <1>1, DrawTargetFrame
<1>2. ASSUME NEW x \in Positions, NEW y \in Positions, DrawObstacle(x, y) PROVE Frame'
  BY <1>2, DrawObstacleFrame
<1>3. CASE TargetsDone
  BY <1>3 DEF TargetsDone, Frame, Types, EachOnItsOwn, DroneStaysFree, Placed, Cells, LINES, COLS
<1>4. CASE NextFrame
  BY <1>4, NextFrameFrame
<1>5. CASE UNCHANGED vars
  BY <1>5 DEF vars, Frame, Types, EachOnItsOwn, DroneStaysFree, Placed, Cells, LINES, COLS
<1> QED
  BY <1>1, <1>2, <1>3, <1>4, <1>5 DEF Next

\* Every variable always has its type, and the array of the cells in use is never
\* overrun (map.c:26-30, 306-428).
THEOREM ScreenType == Spec => []TypeOK
<1>1. Frame => TypeOK
  <2> SUFFICES ASSUME Frame PROVE TypeOK
    OBVIOUS
  <2>1. /\ IsFiniteSet(targets) /\ IsFiniteSet(obstacles) /\ targets \cap obstacles = {}
        /\ Cardinality(targets) + hits = targetCount /\ Cardinality(obstacles) = obstacleCount
    BY DEF Frame, EachOnItsOwn
  <2>2. Cardinality(targets) \in Nat /\ Cardinality(obstacles) \in Nat /\ Cardinality({}) = 0
    BY <2>1, FS_CardinalityType, FS_EmptySet
  <2>3. Cardinality(Placed) = Cardinality(targets) + Cardinality(obstacles)
    <3>1. Cardinality(targets \cup obstacles)
            = Cardinality(targets) + Cardinality(obstacles) - Cardinality(targets \cap obstacles)
      BY <2>1, FS_Union
    <3>2. Cardinality(targets \cap obstacles) = 0
      BY <2>1, <2>2
    <3> QED
      BY <2>2, <3>1, <3>2 DEF Placed
  <2>4. targetCount \in Nat /\ hits \in Nat
    BY ScreenAssumption DEF Frame, Types
  <2>5. Cardinality(Placed) <= targetCount + obstacleCount
    BY <2>1, <2>2, <2>3, <2>4
  <2> QED
    BY <2>5 DEF Frame, Types, TypeOK
<1> QED
  BY <1>1, InitFrame, FrameStep, PTL DEF Spec

\* In a terminal of any size every object that was not hit is drawn inside the
\* border on a cell of its own (map.c:349-350, 407-408).
THEOREM OwnCells == Spec => []EachOnItsOwn
<1>1. Frame => EachOnItsOwn
  BY DEF Frame
<1> QED
  BY <1>1, InitFrame, FrameStep, PTL DEF Spec

\* Nothing is ever drawn over the drone: can_display_drone stays true
\* (map.c:393-423).
THEOREM DroneVisible == Spec => []DroneStaysFree
<1>1. Frame => DroneStaysFree
  BY DEF Frame
<1> QED
  BY <1>1, InitFrame, FrameStep, PTL DEF Spec

----------------------------------------------------------------------------
(* What find_spot looks at: with radius k just the cells at distance k, so *)
(* the first free cell it meets is a nearest one.                          *)

Grid == Int \X Int
Elements(s) == {s[i] : i \in 1..Len(s)}

LEMMA FunctionIsSeq ==
  ASSUME NEW n \in Nat, NEW f \in [1..n -> Grid]
  PROVE  f \in Seq(Grid) /\ Len(f) = n
<1>1. f \in Seq(Grid)
  BY SeqDef
<1>2. Len(f) \in Nat /\ DOMAIN f = 1..Len(f) /\ DOMAIN f = 1..n
  BY <1>1, LenProperties
<1>3. Len(f) = n
  BY <1>2
<1> QED
  BY <1>1, <1>3

LEMMA RowIs ==
  ASSUME NEW y \in Int, NEW x \in Int, NEW k \in Nat
  PROVE  /\ Row(y, x, k) \in Seq(Grid)
         /\ Elements(Row(y, x, k)) = {<<y, j>> : j \in (x - k)..(x + k)}
<1> DEFINE n == 2 * k + 1
           r == Row(y, x, k)
<1>1. n \in Nat /\ r = [i \in 1..n |-> <<y, x - k + i - 1>>]
  BY DEF Row
<1>2. r \in [1..n -> Grid]
  BY <1>1 DEF Grid
<1> HIDE DEF n, r
<1>3. r \in Seq(Grid) /\ Len(r) = n
  BY <1>1, <1>2, FunctionIsSeq
<1>4. ASSUME NEW i \in 1..n PROVE \E j \in (x - k)..(x + k) : r[i] = <<y, j>>
  <2>1. x - k + i - 1 \in (x - k)..(x + k)
    BY DEF n
  <2> QED
    BY <1>1, <2>1
<1>5. ASSUME NEW j \in (x - k)..(x + k) PROVE \E i \in 1..n : r[i] = <<y, j>>
  <2> DEFINE i == j - x + k + 1
  <2>1. i \in 1..n /\ x - k + i - 1 = j
    BY DEF n
  <2> HIDE DEF i
  <2>2. r[i] = <<y, j>>
    BY <1>1, <2>1
  <2> QED
    BY <2>1, <2>2
<1>6. Elements(r) = {<<y, j>> : j \in (x - k)..(x + k)}
  <2>1. Elements(r) = {r[i] : i \in 1..n}
    BY <1>3 DEF Elements
  <2> QED
    BY <1>4, <1>5, <2>1, Zenon
<1> QED
  BY <1>3, <1>6 DEF r

LEMMA ColumnIs ==
  ASSUME NEW y \in Int, NEW x \in Int, NEW k \in Nat \ {0}
  PROVE  /\ Column(y, x, k) \in Seq(Grid)
         /\ Elements(Column(y, x, k)) = {<<j, x>> : j \in (y - k + 1)..(y + k - 1)}
<1> DEFINE n == 2 * k - 1
           r == Column(y, x, k)
<1>1. n \in Nat /\ r = [i \in 1..n |-> <<y - k + i, x>>]
  BY DEF Column
<1>2. r \in [1..n -> Grid]
  BY <1>1 DEF Grid
<1> HIDE DEF n, r
<1>3. r \in Seq(Grid) /\ Len(r) = n
  BY <1>1, <1>2, FunctionIsSeq
<1>4. ASSUME NEW i \in 1..n PROVE \E j \in (y - k + 1)..(y + k - 1) : r[i] = <<j, x>>
  <2>1. y - k + i \in (y - k + 1)..(y + k - 1)
    BY DEF n
  <2> QED
    BY <1>1, <2>1
<1>5. ASSUME NEW j \in (y - k + 1)..(y + k - 1) PROVE \E i \in 1..n : r[i] = <<j, x>>
  <2> DEFINE i == j - y + k
  <2>1. i \in 1..n /\ y - k + i = j
    BY DEF n
  <2> HIDE DEF i
  <2>2. r[i] = <<j, x>>
    BY <1>1, <2>1
  <2> QED
    BY <2>1, <2>2
<1>6. Elements(r) = {<<j, x>> : j \in (y - k + 1)..(y + k - 1)}
  <2>1. Elements(r) = {r[i] : i \in 1..n}
    BY <1>3 DEF Elements
  <2> QED
    BY <1>4, <1>5, <2>1, Zenon
<1> QED
  BY <1>3, <1>6 DEF r

LEMMA ElementsConcat ==
  ASSUME NEW s \in Seq(Grid), NEW t \in Seq(Grid)
  PROVE  s \o t \in Seq(Grid) /\ Elements(s \o t) = Elements(s) \cup Elements(t)
<1> DEFINE u == s \o t
           m == Len(s)
           n == Len(t)
<1>1. /\ u \in Seq(Grid) /\ Len(u) = m + n /\ m \in Nat /\ n \in Nat
      /\ \A i \in 1..(m + n) : u[i] = IF i <= m THEN s[i] ELSE t[i - m]
  BY ConcatProperties
<1> HIDE DEF u
<1>2. ASSUME NEW i \in 1..(m + n)
      PROVE  (\E j \in 1..m : u[i] = s[j]) \/ \E j \in 1..n : u[i] = t[j]
  <2>1. CASE i <= m
    BY <1>1, <2>1
  <2>2. CASE ~(i <= m)
    <3>1. i - m \in 1..n
      BY <1>1, <2>2
    <3> QED
      BY <1>1, <2>2, <3>1
  <2> QED
    BY <2>1, <2>2
<1>3. ASSUME NEW j \in 1..m PROVE \E i \in 1..(m + n) : u[i] = s[j]
  <2>1. j \in 1..(m + n) /\ j <= m
    BY <1>1
  <2> QED
    BY <1>1, <2>1
<1>4. ASSUME NEW j \in 1..n PROVE \E i \in 1..(m + n) : u[i] = t[j]
  <2>1. j + m \in 1..(m + n) /\ ~(j + m <= m) /\ (j + m) - m = j
    BY <1>1
  <2> QED
    BY <1>1, <2>1
<1>5. Elements(u) = Elements(s) \cup Elements(t)
  <2>1. /\ Elements(u) = {u[i] : i \in 1..(m + n)}
        /\ Elements(s) = {s[i] : i \in 1..m} /\ Elements(t) = {t[i] : i \in 1..n}
    BY <1>1 DEF Elements
  <2> HIDE DEF m, n
  <2> QED
    BY <1>2, <1>3, <1>4, <2>1, Zenon
<1> QED
  BY <1>1, <1>5 DEF u

LEMMA DistanceIs ==
  ASSUME NEW c \in Grid, NEW d \in Grid, NEW k \in Nat \ {0}
  PROVE  /\ Distance(c, d) \in Nat
         /\ Distance(c, d) = 0 => d = c
         /\ Distance(c, d) = k
              <=> \/ d[1] \in {c[1] - k, c[1] + k} /\ d[2] \in (c[2] - k)..(c[2] + k)
                  \/ d[2] \in {c[2] - k, c[2] + k} /\ d[1] \in (c[1] - k + 1)..(c[1] + k - 1)
<1>1. /\ c = <<c[1], c[2]>> /\ d = <<d[1], d[2]>>
      /\ c[1] \in Int /\ c[2] \in Int /\ d[1] \in Int /\ d[2] \in Int
  BY DEF Grid
<1>2. Distance(c, d) = 0 => c[1] = d[1] /\ c[2] = d[2]
  BY <1>1 DEF Distance
<1>3. Distance(c, d) \in Nat
  BY <1>1 DEF Distance
<1>4. Distance(c, d) = k
        <=> \/ d[1] \in {c[1] - k, c[1] + k} /\ d[2] \in (c[2] - k)..(c[2] + k)
            \/ d[2] \in {c[2] - k, c[2] + k} /\ d[1] \in (c[1] - k + 1)..(c[1] + k - 1)
  BY <1>1 DEF Distance
<1> QED
  BY <1>1, <1>2, <1>3, <1>4

\* The square of radius k holds the cells at distance k and no other.
LEMMA RingIs ==
  ASSUME NEW c \in Grid, NEW k \in Nat \ {0}
  PROVE  /\ DOMAIN Ring(c, k) = 1..Len(Ring(c, k))
         /\ \A d \in Grid : Distance(c, d) = k <=> \E i \in DOMAIN Ring(c, k) : Ring(c, k)[i] = d
<1> DEFINE y == c[1]
           x == c[2]
           above == Row(y - k, x, k)
           below == Row(y + k, x, k)
           before == Column(y, x - k, k)
           after == Column(y, x + k, k)
           r == Ring(c, k)
<1>1. y \in Int /\ x \in Int /\ y - k \in Int /\ y + k \in Int /\ x - k \in Int /\ x + k \in Int
  BY DEF Grid
<1>2. r = ((above \o below) \o before) \o after
  BY DEF Ring
<1>3. /\ above \in Seq(Grid) /\ Elements(above) = {<<y - k, j>> : j \in (x - k)..(x + k)}
      /\ below \in Seq(Grid) /\ Elements(below) = {<<y + k, j>> : j \in (x - k)..(x + k)}
  BY <1>1, RowIs
<1>4. /\ before \in Seq(Grid)
      /\ Elements(before) = {<<j, x - k>> : j \in (y - k + 1)..(y + k - 1)}
      /\ after \in Seq(Grid)
      /\ Elements(after) = {<<j, x + k>> : j \in (y - k + 1)..(y + k - 1)}
  <2>1. \A a, b \in Int : /\ Column(a, b, k) \in Seq(Grid)
                         /\ Elements(Column(a, b, k)) = {<<j, b>> : j \in (a - k + 1)..(a + k - 1)}
    BY ColumnIs, Zenon
  <2> HIDE DEF x, y
  <2> QED
    BY <1>1, <2>1, Zenon
<1> HIDE DEF above, below, before, after, r
<1>5. /\ r \in Seq(Grid)
      /\ Elements(r) = Elements(above) \cup Elements(below) \cup Elements(before) \cup Elements(after)
  <2>1. /\ above \o below \in Seq(Grid)
        /\ Elements(above \o below) = Elements(above) \cup Elements(below)
    BY <1>3, ElementsConcat
  <2>2. /\ (above \o below) \o before \in Seq(Grid)
        /\ Elements((above \o below) \o before) = Elements(above \o below) \cup Elements(before)
    BY <1>4, <2>1, ElementsConcat
  <2>3. /\ r \in Seq(Grid)
        /\ Elements(r) = Elements((above \o below) \o before) \cup Elements(after)
    BY <1>2, <1>4, <2>2, ElementsConcat
  <2> QED
    BY <2>1, <2>2, <2>3
<1>6. DOMAIN r = 1..Len(r)
  BY <1>5, LenProperties
<1>7. ASSUME NEW d \in Grid
      PROVE  Distance(c, d) = k <=> d \in Elements(r)
  <2>1. d = <<d[1], d[2]>> /\ d[1] \in Int /\ d[2] \in Int
    BY DEF Grid
  <2>2. Distance(c, d) = k
              <=> \/ d[1] \in {y - k, y + k} /\ d[2] \in (x - k)..(x + k)
                  \/ d[2] \in {x - k, x + k} /\ d[1] \in (y - k + 1)..(y + k - 1)
    BY DistanceIs
  <2>3. \A a, b : d = <<a, b>> <=> d[1] = a /\ d[2] = b
    BY <2>1
  <2> HIDE DEF x, y
  <2>4. d \in Elements(above) <=> d[1] = y - k /\ d[2] \in (x - k)..(x + k)
    BY <1>3, <2>3
  <2>5. d \in Elements(below) <=> d[1] = y + k /\ d[2] \in (x - k)..(x + k)
    BY <1>3, <2>3
  <2>6. d \in Elements(before) <=> d[2] = x - k /\ d[1] \in (y - k + 1)..(y + k - 1)
    BY <1>4, <2>3
  <2>7. d \in Elements(after) <=> d[2] = x + k /\ d[1] \in (y - k + 1)..(y + k - 1)
    BY <1>4, <2>3
  <2> QED
    BY <1>5, <2>2, <2>4, <2>5, <2>6, <2>7
<1> QED
  BY <1>6, <1>7 DEF Elements, r

LEMMA CellsType == ASSUME Types PROVE LINES \in Nat /\ COLS \in Nat /\ Cells \subseteq Grid
<1>1. LINES \in Nat /\ COLS \in Nat
  BY ScreenAssumption DEF Types, LINES, COLS
<1> QED
  BY <1>1 DEF Cells, Grid

\* A square without a free cell leaves none at its distance.
LEMMA TakenMeans ==
  ASSUME NEW c \in Grid, NEW k \in Nat \ {0}, Taken(c, k),
         NEW d \in Grid, Distance(c, d) = k
  PROVE  IsOverlappingDrone(d)
<1>1. PICK i \in DOMAIN Ring(c, k) : Ring(c, k)[i] = d
  BY RingIs
<1> QED
  BY <1>1 DEF Taken

\* An object that finds its place taken is moved no further than it has to be
\* (map.c:93-151).
THEOREM NearestSpot == Spec => []SpotIsNearest
<1>1. Types => SpotIsNearest
  <2> SUFFICES ASSUME Types, NEW c \in Cells, NEW s \in Cells, FindSpot(c, s),
                      NEW d \in Cells, ~IsOverlappingDrone(d), d # c
               PROVE  Distance(c, s) <= Distance(c, d)
    BY DEF SpotIsNearest
  <2>1. c \in Grid /\ s \in Grid /\ d \in Grid /\ MAX_RING \in Nat
    BY CellsType, ScreenAssumption
  <2>2. PICK k \in 1..MAX_RING :
          /\ \E i \in DOMAIN Ring(c, k) : Ring(c, k)[i] = s
          /\ \A l \in 1..(k - 1) : Taken(c, l)
    BY DEF FindSpot
  <2>3. k \in Nat \ {0}
    BY <2>1
  <2>4. Distance(c, s) = k
    BY <2>1, <2>2, <2>3, RingIs
  <2>5. Distance(c, d) \in Nat \ {0}
    BY <2>1, <2>3, DistanceIs
  <2>6. ~(Distance(c, d) < k)
    <3> SUFFICES ASSUME Distance(c, d) < k PROVE FALSE
      OBVIOUS
    <3>1. Distance(c, d) \in 1..(k - 1)
      BY <2>3, <2>5
    <3>2. Taken(c, Distance(c, d))
      BY <2>2, <3>1
    <3> QED
      BY <2>1, <2>5, <3>2, TakenMeans
  <2> QED
    BY <2>3, <2>4, <2>5, <2>6
<1>2. TypeOK => Types
  BY DEF TypeOK, Types
<1> QED
  BY <1>1, <1>2, ScreenType, PTL

----------------------------------------------------------------------------
(* When the map gives up.  find_spot looks only so far; in a window that   *)
(* is larger there are too few objects to fill what it sees.               *)

SearchReaches ==
  \/ MAX_RING > N_TARGETS + N_OBSTACLES + 1
  \/ \A sz \in Sizes : sz[1] - 4 <= MAX_RING /\ sz[2] - 3 <= MAX_RING

\* The scaling rounds a coordinate of the square to one of the window.
LEMMA Scaled ==
  ASSUME NEW m \in Nat, NEW S \in Nat \ {0}, NEW p \in 0..S
  PROVE  (2 * p * m + S) \div (2 * S) \in 0..m
<1> DEFINE a == p * m
           b == S * m
           n == 2 * p * m + S
           q == n \div (2 * S)
           r == S * q
<1>1. a \in Nat /\ b \in Nat /\ 2 * p * m = 2 * a
  OBVIOUS
<1>2. a <= b
  OBVIOUS
<1>3. n \in Nat /\ 2 * S \in Nat \ {0}
  BY <1>1
<1>4. q \in Int /\ (2 * S) * q <= n /\ n < (2 * S) * (q + 1)
  <2> HIDE DEF n
  <2> QED
    BY <1>3
<1>5. n = 2 * a + S
  BY <1>1
<1> HIDE DEF n, q, a
<1>6. q >= 0
  <2> SUFFICES ASSUME q <= -1 PROVE FALSE
    BY <1>4
  <2>1. (2 * S) * (q + 1) <= 0
    BY <1>3, <1>4
  <2> QED
    BY <1>3, <1>4, <2>1
<1>7. q <= m
  <2> SUFFICES ASSUME q >= m + 1 PROVE FALSE
    BY <1>4
  <2>1. (2 * S) * (m + 1) <= (2 * S) * q
    BY <1>3, <1>4
  <2>2. (2 * S) * (m + 1) = 2 * b + 2 * S
    OBVIOUS
  <2> HIDE DEF b
  <2>3. 2 * b + 2 * S <= 2 * a + S
    <3> DEFINE u == (2 * S) * (m + 1)
               v == (2 * S) * q
    <3>1. u <= v /\ v <= n /\ u = 2 * b + 2 * S /\ u \in Int /\ v \in Int
      BY <1>4, <2>1, <2>2
    <3> HIDE DEF u, v
    <3> QED
      BY <1>1, <1>3, <1>5, <3>1
  <2> QED
    BY <1>1, <1>2, <2>3
<1> QED
  BY <1>4, <1>6, <1>7 DEF q, n

LEMMA CellInside ==
  ASSUME Types, NEW x \in Positions, NEW y \in Positions
  PROVE  Cell(x, y) \in Cells
<1>1. /\ size[1] \in Nat /\ size[1] >= 4 /\ size[2] \in Nat /\ size[2] >= 3
      /\ SIMULATION \in Nat \ {0} /\ x \in 0..SIMULATION /\ y \in 0..SIMULATION
  BY ScreenAssumption DEF Types
<1>2. ASSUME NEW p \in 0..SIMULATION, NEW n \in Nat, n >= 3
      PROVE  ToCell(p, n) \in 1..(n - 2)
  <2>1. n - 3 \in Nat
    BY <1>2
  <2>2. (2 * p * (n - 3) + SIMULATION) \div (2 * SIMULATION) \in 0..(n - 3)
    BY <1>1, <2>1, Scaled
  <2> QED
    BY <2>2 DEF ToCell
<1>3. size[1] - 1 \in Nat /\ size[1] - 1 >= 3
  BY <1>1
<1>4. ToCell(y, size[1] - 1) \in 1..((size[1] - 1) - 2) /\ ToCell(x, size[2]) \in 1..(size[2] - 2)
  BY <1>1, <1>2, <1>3
<1>5. (size[1] - 1) - 2 = size[1] - 3
  BY <1>1
<1> QED
  BY <1>4, <1>5 DEF Cell, Cells, LINES, COLS

\* From one cell of the window towards another there is a cell of the window at
\* every distance in between.
LEMMA Path ==
  ASSUME Types, NEW c \in Cells, NEW d \in Cells, NEW m \in Nat, m < Distance(c, d)
  PROVE  \E f \in [1..m -> Cells] : \A j \in 1..m : Distance(c, f[j]) = j
<1>1. LINES \in Nat /\ COLS \in Nat /\ c \in Grid /\ d \in Grid
  BY CellsType
<1> DEFINE h == LINES - 3
           w == COLS - 2
<1>2. /\ c = <<c[1], c[2]>> /\ c[1] \in 1..h /\ c[2] \in 1..w
      /\ d[1] \in 1..h /\ d[2] \in 1..w /\ h \in Int /\ w \in Int
  BY <1>1 DEF Cells
<1>3. \A a, b : a \in 1..h /\ b \in 1..w <=> <<a, b>> \in Cells
  BY DEF Cells
<1> HIDE DEF h, w
<1>4. \/ c[1] + m < d[1] \/ d[1] + m < c[1] \/ c[2] + m < d[2] \/ d[2] + m < c[2]
  BY <1>2 DEF Distance
<1>5. ASSUME NEW f, f = [j \in 1..m |-> f[j]],
             \A j \in 1..m : f[j] \in Cells /\ Distance(c, f[j]) = j
      PROVE  \E g \in [1..m -> Cells] : \A j \in 1..m : Distance(c, g[j]) = j
  <2>1. f \in [1..m -> Cells]
    BY <1>5
  <2> QED
    BY <1>5, <2>1
<1>6. CASE c[1] + m < d[1]
  <2> DEFINE f == [j \in 1..m |-> <<c[1] + j, c[2]>>]
  <2>1. ASSUME NEW j \in 1..m PROVE f[j] \in Cells /\ Distance(c, f[j]) = j
    <3>1. c[1] + j \in 1..h
      BY <1>2, <1>6
    <3> QED
      BY <1>2, <1>3, <3>1 DEF Distance
  <2> QED
    BY <1>5, <2>1
<1>7. CASE d[1] + m < c[1]
  <2> DEFINE f == [j \in 1..m |-> <<c[1] - j, c[2]>>]
  <2>1. ASSUME NEW j \in 1..m PROVE f[j] \in Cells /\ Distance(c, f[j]) = j
    <3>1. c[1] - j \in 1..h
      BY <1>2, <1>7
    <3> QED
      BY <1>2, <1>3, <3>1 DEF Distance
  <2> QED
    BY <1>5, <2>1
<1>8. CASE c[2] + m < d[2]
  <2> DEFINE f == [j \in 1..m |-> <<c[1], c[2] + j>>]
  <2>1. ASSUME NEW j \in 1..m PROVE f[j] \in Cells /\ Distance(c, f[j]) = j
    <3>1. c[2] + j \in 1..w
      BY <1>2, <1>8
    <3> QED
      BY <1>2, <1>3, <3>1 DEF Distance
  <2> QED
    BY <1>5, <2>1
<1>9. CASE d[2] + m < c[2]
  <2> DEFINE f == [j \in 1..m |-> <<c[1], c[2] - j>>]
  <2>1. ASSUME NEW j \in 1..m PROVE f[j] \in Cells /\ Distance(c, f[j]) = j
    <3>1. c[2] - j \in 1..w
      BY <1>2, <1>9
    <3> QED
      BY <1>2, <1>3, <3>1 DEF Distance
  <2> QED
    BY <1>5, <2>1
<1> QED
  BY <1>4, <1>6, <1>7, <1>8, <1>9

\* The objects of a frame and the drone fill at most so many cells.
LEMMA FewPlaced ==
  ASSUME Frame
  PROVE  /\ IsFiniteSet(Placed \cup {drone})
         /\ Cardinality(Placed \cup {drone}) <= N_TARGETS + N_OBSTACLES + 1
<1>1. /\ IsFiniteSet(targets) /\ IsFiniteSet(obstacles) /\ targets \cap obstacles = {}
      /\ Cardinality(targets) + hits = targetCount /\ Cardinality(obstacles) = obstacleCount
  BY DEF Frame, EachOnItsOwn
<1>2. /\ hits \in Nat /\ targetCount \in Nat /\ obstacleCount \in Nat
      /\ targetCount <= N_TARGETS /\ obstacleCount <= N_OBSTACLES
      /\ N_TARGETS \in Nat /\ N_OBSTACLES \in Nat
  BY ScreenAssumption DEF Frame, Types
<1>3. Cardinality(targets) \in Nat /\ Cardinality(obstacles) \in Nat
  BY <1>1, FS_CardinalityType
<1>4. /\ IsFiniteSet(Placed)
      /\ Cardinality(Placed) = Cardinality(targets) + Cardinality(obstacles) - Cardinality({})
  BY <1>1, FS_Union DEF Placed
<1>5. Cardinality({}) = 0
  BY FS_EmptySet
<1>6. /\ IsFiniteSet(Placed \cup {drone})
      /\ \/ Cardinality(Placed \cup {drone}) = Cardinality(Placed)
         \/ Cardinality(Placed \cup {drone}) = Cardinality(Placed) + 1
  BY <1>4, FS_AddElement
<1> QED
  BY <1>1, <1>2, <1>3, <1>4, <1>5, <1>6

LEMMA NoSpotMeansFull ==
  ASSUME Frame, SearchReaches, NEW c \in Cells, IsOverlappingDrone(c), NoSpot(c)
  PROVE  \A d \in Cells : IsOverlappingDrone(d)
<1> SUFFICES ASSUME NEW d \in Cells PROVE IsOverlappingDrone(d)
  OBVIOUS
<1>t. /\ Types /\ c \in Grid /\ d \in Grid /\ Cells \subseteq Grid
      /\ MAX_RING \in Nat /\ N_TARGETS \in Nat /\ N_OBSTACLES \in Nat
  BY CellsType, ScreenAssumption DEF Frame
<1>1. \A k \in 1..MAX_RING, e \in Cells : Distance(c, e) = k => IsOverlappingDrone(e)
  <2> SUFFICES ASSUME NEW k \in 1..MAX_RING, NEW e \in Cells, Distance(c, e) = k
               PROVE  IsOverlappingDrone(e)
    OBVIOUS
  <2>1. k \in Nat \ {0} /\ e \in Grid /\ Taken(c, k)
    BY <1>t DEF NoSpot
  <2> QED
    BY <1>t, <2>1, TakenMeans
<1>2. Distance(c, d) \in Nat /\ (Distance(c, d) = 0 => d = c)
  <2>1. 1 \in Nat \ {0}
    OBVIOUS
  <2> QED
    BY <1>t, <2>1, DistanceIs
<1>3. CASE Distance(c, d) <= MAX_RING
  <2>1. Distance(c, d) = 0 \/ Distance(c, d) \in 1..MAX_RING
    BY <1>2, <1>3, <1>t
  <2> QED
    BY <1>1, <1>2, <2>1
<1>4. CASE ~(Distance(c, d) <= MAX_RING)
  <2>1. MAX_RING > N_TARGETS + N_OBSTACLES + 1
    <3> SUFFICES ASSUME \A sz \in Sizes : sz[1] - 4 <= MAX_RING /\ sz[2] - 3 <= MAX_RING
                 PROVE  FALSE
      BY DEF SearchReaches
    <3>1. /\ LINES \in Nat /\ COLS \in Nat /\ LINES - 4 <= MAX_RING /\ COLS - 3 <= MAX_RING
      BY <1>t, CellsType DEF Types, LINES, COLS
    <3>2. /\ c[1] \in 1..(LINES - 3) /\ c[2] \in 1..(COLS - 2)
          /\ d[1] \in 1..(LINES - 3) /\ d[2] \in 1..(COLS - 2)
      BY DEF Cells
    <3>3. /\ c[1] - d[1] <= MAX_RING /\ d[1] - c[1] <= MAX_RING
          /\ c[2] - d[2] <= MAX_RING /\ d[2] - c[2] <= MAX_RING
      BY <1>t, <3>1, <3>2
    <3> QED
      BY <1>t, <1>4, <3>2, <3>3 DEF Distance
  <2>2. MAX_RING < Distance(c, d)
    BY <1>2, <1>4, <1>t
  <2>3. PICK f \in [1..MAX_RING -> Cells] : \A j \in 1..MAX_RING : Distance(c, f[j]) = j
    BY <1>t, <2>2, Path
  <2> DEFINE T == Placed \cup {drone}
  <2>4. f \in [1..MAX_RING -> T]
    <3>1. ASSUME NEW j \in 1..MAX_RING PROVE f[j] \in T
      <4>1. f[j] \in Cells /\ IsOverlappingDrone(f[j])
        BY <1>1, <2>3
      <4>2. InWindow(f[j])
        BY <4>1, <1>t, CellsType DEF Cells, InWindow
      <4> QED
        BY <4>1, <4>2 DEF IsOverlappingDrone, IsOverlapping
    <3> QED
      BY <3>1
  <2>5. IsFiniteSet(T) /\ Cardinality(T) <= N_TARGETS + N_OBSTACLES + 1
    BY FewPlaced
  <2> HIDE DEF T
  <2>6. IsFiniteSet(1..MAX_RING) /\ Cardinality(1..MAX_RING) = MAX_RING
    BY <1>t, FS_Interval
  <2>7. Cardinality(T) \in Nat
    BY <2>5, FS_CardinalityType
  <2>8. Cardinality(T) < Cardinality(1..MAX_RING)
    BY <1>t, <2>1, <2>5, <2>6, <2>7
  <2>9. \E i, j \in 1..MAX_RING : i # j /\ f[i] = f[j]
    BY <2>4, <2>5, <2>6, <2>8, FS_PigeonHole
  <2> QED
    BY <2>3, <2>9
<1> QED
  BY <1>3, <1>4

\* The map gives up on an object only when every cell of the window is taken,
\* however large the window is (map.c:153-162): the 101 squares that find_spot
\* looks at are more than the objects could fill.
THEOREM ExitsWhenFull ==
  ASSUME SearchReaches
  PROVE  Spec => []ExitsOnlyWhenFull
<1>1. Init => ExitsOnlyWhenFull
  BY DEF Init, ExitsOnlyWhenFull
<1>2. Frame /\ ExitsOnlyWhenFull /\ [Next]_vars => ExitsOnlyWhenFull'
  <2> SUFFICES ASSUME Frame, ExitsOnlyWhenFull, [Next]_vars PROVE ExitsOnlyWhenFull'
    OBVIOUS
  <2>1. ASSUME NEW c \in Cells, IsOverlappingDrone(c), NoSpot(c), Exit
        PROVE  ExitsOnlyWhenFull'
    <3>1. \A d \in Cells : IsOverlappingDrone(d)
      BY <2>1, NoSpotMeansFull
    <3> QED
      BY <2>1, <3>1 DEF Exit, ExitsOnlyWhenFull, IsOverlappingDrone, IsOverlapping,
                        InWindow, Placed, Cells, LINES, COLS
  <2>2. ASSUME NEW x \in Positions, NEW y \in Positions, DrawTarget(x, y)
        PROVE  ExitsOnlyWhenFull'
    <3>1. Cell(x, y) \in Cells
      BY CellInside DEF Frame
    <3>2. CASE IsOverlapping(Cell(x, y)) /\ NoSpot(Cell(x, y)) /\ Exit
      BY <2>1, <3>1, <3>2 DEF IsOverlappingDrone
    <3>3. CASE ~(IsOverlapping(Cell(x, y)) /\ NoSpot(Cell(x, y)) /\ Exit)
      <4>1. phase' = "targets"
        BY <2>2, <3>3 DEF DrawTarget
      <4> QED
        BY <4>1 DEF ExitsOnlyWhenFull
    <3> QED
      BY <3>2, <3>3
  <2>3. ASSUME NEW x \in Positions, NEW y \in Positions, DrawObstacle(x, y)
        PROVE  ExitsOnlyWhenFull'
    <3>1. Cell(x, y) \in Cells
      BY CellInside DEF Frame
    <3>2. CASE IsOverlappingDrone(Cell(x, y)) /\ NoSpot(Cell(x, y)) /\ Exit
      BY <2>1, <3>1, <3>2
    <3>3. CASE ~(IsOverlappingDrone(Cell(x, y)) /\ NoSpot(Cell(x, y)) /\ Exit)
      <4>1. phase' = "obstacles"
        BY <2>3, <3>3 DEF DrawObstacle
      <4> QED
        BY <4>1 DEF ExitsOnlyWhenFull
    <3> QED
      BY <3>2, <3>3
  <2>4. CASE TargetsDone \/ NextFrame
    BY <2>4 DEF TargetsDone, NextFrame, ExitsOnlyWhenFull
  <2>5. CASE UNCHANGED vars
    BY <2>5 DEF vars, ExitsOnlyWhenFull, IsOverlappingDrone, IsOverlapping,
                InWindow, Placed, Cells, LINES, COLS
  <2> QED
    BY <2>2, <2>3, <2>4, <2>5 DEF Next
<1>3. Spec => []Frame
  BY InitFrame, FrameStep, PTL DEF Spec
<1> QED
  BY <1>1, <1>2, <1>3, PTL DEF Spec
=============================================================================
