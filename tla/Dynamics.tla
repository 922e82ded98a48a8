------------------------------ MODULE Dynamics ------------------------------
(***************************************************************************)
(* The drone's motion: in every turn of its loop drone.c adds the forces of *)
(* the user, of targets, obstacles and walls, computes the next position   *)
(* from the last two, and puts it back into the field.                     *)
(*                                                                         *)
(* The field is a coarse grid.  Mass, viscosity and time step are 1, so    *)
(* that half of force and velocity is the way of one turn; a fraction of a *)
(* cell goes either way.  What the float arithmetic does with a distance   *)
(* of zero is kept: infinities and not-a-numbers.  The size of a finite    *)
(* force is left open up to a bound.  Distance zero stands for all         *)
(* distances at which the force overflows.                                 *)
(***************************************************************************)
EXTENDS Integers

CONSTANTS
  NaN, Inf, NegInf,   \* the floats that are no numbers
  SIZE,               \* SIMULATION_WIDTH and SIMULATION_HEIGHT
  AREA,               \* area_of_effect
  MAX_FORCE,          \* MAX_TARG_FORCES and MAX_OBST_FORCES
  MaxWallForce,       \* bound on a finite force of a wall, which is not capped
  UserForces          \* the components of the user's force

ASSUME DynamicsAssumption ==
  /\ SIZE \in Nat /\ AREA \in Nat /\ 2 <= AREA /\ 2 * AREA <= SIZE
  /\ MAX_FORCE \in Nat /\ MaxWallForce \in Nat
  /\ UserForces \subseteq Int /\ 0 \in UserForces
  /\ {NaN, Inf, NegInf} \cap Int = {}
  /\ NaN # Inf /\ NaN # NegInf /\ Inf # NegInf

VARIABLES
  x1, y1,      \* xt_1, yt_1: the position
  x2, y2,      \* xt_2, yt_2: the one before
  fx, fy,      \* drone_force
  target,      \* how near the nearest target is: "none" in reach, "near", "on" the drone
  obstacle     \* the same of the obstacles, "on" being a distance of 1 or less

vars == <<x1, y1, x2, y2, fx, fy, target, obstacle>>

Coordinates == 0..SIZE \cup {NaN}
Situations == {"none", "near", "on"}

\* Every comparison with a distance that is not a number fails.
Possible(x, y) == IF NaN \in {x, y} THEN {"none"} ELSE Situations

TypeOK ==
  /\ x1 \in Coordinates /\ y1 \in Coordinates /\ x2 \in Coordinates /\ y2 \in Coordinates
  /\ fx \in UserForces /\ fy \in UserForces
  /\ target \in Possible(x1, y1) /\ obstacle \in Possible(x1, y1)

\* The initial position is the configuration's.
Init ==
  /\ x1 \in 0..SIZE /\ y1 \in 0..SIZE /\ x2 = x1 /\ y2 = y1
  /\ fx = 0 /\ fy = 0 /\ target = "none" /\ obstacle = "none"

----------------------------------------------------------------------------
(* Forces *)

Plus(a, b) ==
  IF NaN \in {a, b} \/ {a, b} = {Inf, NegInf} THEN NaN
  ELSE IF a \in {Inf, NegInf} THEN a
  ELSE IF b \in {Inf, NegInf} THEN b ELSE a + b
Minus(a) == IF a = Inf THEN NegInf ELSE IF a = NegInf THEN Inf ELSE IF a = NaN THEN NaN ELSE -a

\* The velocity is the difference of the last two positions.
Velocity(p1, p2) == IF NaN \in {p1, p2} THEN NaN ELSE p1 - p2
Speed == {Velocity(x1, x2), Velocity(y1, y2)}
AtRest == Speed = {0}

\* repulsive_force of a distance within reach: what it may return.  The factor
\* of the speed makes nothing of a force at rest, and not-a-number of infinity.
RepulsiveForce_NoSpeed(distance) == IF distance = 0 THEN {Inf} ELSE 0..MaxWallForce
RepulsiveForce(distance) ==
  IF NaN \in Speed THEN {NaN}
  ELSE IF AtRest THEN {IF distance = 0 THEN NaN ELSE 0}
  ELSE IF distance = 0 THEN {Inf} ELSE 0..MaxWallForce

Walls(p) ==
  IF p = NaN THEN {0}
  ELSE IF p < AREA THEN RepulsiveForce(p)
  ELSE IF p > SIZE - AREA THEN {Minus(f) : f \in RepulsiveForce(SIZE - p)} ELSE {0}

Capped == (-MAX_FORCE)..MAX_FORCE

\* Either component of the force of the obstacles, and those of the targets.
\* Neither pushes a drone at rest, nor does an obstacle the drone is almost on.
\* On a target the cosine of the angle 0 keeps infinity, which is capped, and its
\* sine makes not-a-number of it, which is not.
ObstacleForce_AnyDistance ==
  IF obstacle = "none" THEN {0}
  ELSE IF AtRest THEN {IF obstacle = "on" THEN NaN ELSE 0} ELSE Capped
ObstacleForce == IF obstacle # "near" \/ AtRest THEN {0} ELSE Capped
TargetForceX ==
  CASE target = "none" -> {0}
    [] target = "near" -> IF AtRest THEN {0} ELSE Capped
    [] target = "on" -> IF AtRest THEN {NaN} ELSE Capped
TargetForceY ==
  CASE target = "none" -> {0}
    [] target = "near" -> IF AtRest THEN {0} ELSE Capped
    [] target = "on" -> {NaN}

\* One new coordinate before it is put back.  Without force or velocity there is
\* no motion; without force a fraction of a cell is below ZERO_THRESHOLD.
Moved(p1, p2, total) ==
  IF NaN \in {p1, p2, total} THEN {NaN}
  ELSE IF total \in {Inf, NegInf} THEN {total}
  ELSE {p1 + (total + p1 - p2) \div 2, p1 + (total + p1 - p2 + 1) \div 2}
Coasted(p1, p2) ==
  IF NaN \in {p1, p2} THEN NaN
  ELSE p1 + (IF p1 > p2 THEN (p1 - p2) \div 2 ELSE (p1 - p2 + 1) \div 2)
NextPositions(p1, p2, walls, user, obstacles, targets) ==
  UNION {IF {w, user, o, t} = {0} THEN {Coasted(p1, p2)}
         ELSE Moved(p1, p2, Plus(Plus(w, user), Plus(o, t))) :
         w \in walls, o \in obstacles, t \in targets}

Beyond(p) == p = Inf \/ (p \in Int /\ p > SIZE)
Below(p) == p = NegInf \/ (p \in Int /\ p < 0)

ClampX_ToOne(p) == IF Beyond(p) THEN 1 ELSE IF Below(p) THEN 1 ELSE p
ClampX_NotBelow(p) == IF Beyond(p) THEN SIZE - 1 ELSE p
ClampX(p) == IF Beyond(p) THEN SIZE - 1 ELSE IF Below(p) THEN 1 ELSE p
ClampY(p) == IF Below(p) THEN 1 ELSE IF Beyond(p) THEN 1 ELSE p

----------------------------------------------------------------------------

\* A message of input.
UserForce(f, g) ==
  /\ fx' = f /\ fy' = g
  /\ UNCHANGED <<x1, y1, x2, y2, target, obstacle>>

\* New targets or obstacles, a target taken away, or objects that have come into
\* reach since the drone moved.
NewSituation(t, o) ==
  /\ target' = t /\ obstacle' = o
  /\ UNCHANGED <<x1, y1, x2, y2, fx, fy>>

Move ==
  /\ \E p \in NextPositions(x1, x2, Walls(x1), fx, ObstacleForce, TargetForceX) :
       x1' = ClampX(p)
  /\ \E p \in NextPositions(y1, y2, Walls(y1), fy, ObstacleForce, TargetForceY) :
       y1' = ClampY(p)
  /\ x2' = x1 /\ y2' = y1
  /\ IF <<x1, y1>>' = <<x1, y1>>
     THEN UNCHANGED <<target, obstacle>>
     ELSE target' = "none" /\ obstacle' = "none"
  /\ UNCHANGED <<fx, fy>>

Next ==
  \/ \E f, g \in UserForces : UserForce(f, g)
  \/ \E t, o \in Possible(x1, y1) : NewSituation(t, o)
  \/ Move

Spec == Init /\ [][Next]_vars

----------------------------------------------------------------------------
(* What must be true *)

OnWall(p) == p \in {0, SIZE}
NearWall(p) == p \in Int /\ (p < AREA \/ p > SIZE - AREA)

\* Away from the targets a coordinate stops being a number only in a drone that
\* is at rest exactly on a wall, or that comes near a wall after its other
\* coordinate was lost (drone.c:432-434 sees the asymptote of the walls alone);
\* and it never becomes a number again.  On a target every move loses y: README.md
\* promises a least distance below which the force is nothing, the attractive one
\* too (115-129), and drone.c:322 has none.
NaNOrigin ==
  [][/\ target # "on" =>
          /\ x1 # NaN /\ x1' = NaN => (AtRest /\ OnWall(x1)) \/ (y1 = NaN /\ NearWall(x1))
          /\ y1 # NaN /\ y1' = NaN => (AtRest /\ OnWall(y1)) \/ (x1 = NaN /\ NearWall(y1))
     /\ target = "on" /\ <<x1, y1>>' # <<x1, y1>> => y1' = NaN
     /\ x1 = NaN => x1' = NaN
     /\ y1 = NaN => y1' = NaN]_vars

\* A drone at rest that the user does not push stays where it is, whatever
\* targets and obstacles appear beside it: all other forces grow with its speed
\* (drone.c:36-42).
RestIsStable ==
  [][AtRest /\ fx = 0 /\ fy = 0 /\ target # "on" /\ ~OnWall(x1) /\ ~OnWall(y1)
       => <<x1, y1>>' = <<x1, y1>>]_vars

\* In the open field a drone moves back only if its force or an object turns it,
\* also when it is fast enough to cross the walls: it is put back before the
\* wall it has crossed (drone.c:427-440), left, right and above.  Only the lower
\* wall sends it to the other side, under the upper one: "The same goes for all
\* the other walls" (drone.c:434) is not true of it (drone.c:441-442).
Alone == target = "none" /\ obstacle = "none" /\ NaN \notin {x1, x2, y1, y2}
FliesStraight ==
  [][Alone =>
       /\ ~NearWall(x1) /\ x1 >= x2 /\ fx >= 0 => x1' >= x1
       /\ ~NearWall(x1) /\ x1 <= x2 /\ fx <= 0 => x1' <= x1
       /\ ~NearWall(y1) /\ y1 <= y2 /\ fy <= 0 => y1' <= y1
       /\ ~NearWall(y1) /\ y1 >= y2 /\ fy >= 0 => y1' >= y1 \/ y1' = 1]_vars
=============================================================================
