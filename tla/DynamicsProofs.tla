--------------------------- MODULE DynamicsProofs ---------------------------
(***************************************************************************)
(* Proofs about Dynamics for every size of the field, reach and bound on   *)
(* the forces.                                                             *)
(***************************************************************************)
EXTENDS Dynamics, TLAPS

Floats == Int \cup {NaN, Inf, NegInf}

LEMMA PlusInt ==
  ASSUME NEW a \in Int, NEW b \in Int
  PROVE  Plus(a, b) = a + b
<1>1. a # NaN /\ a # Inf /\ a # NegInf /\ b # NaN /\ b # Inf /\ b # NegInf
  BY DynamicsAssumption
<1> QED
  BY <1>1 DEF Plus

LEMMA PlusFloats ==
  ASSUME NEW a \in Floats, NEW b \in Floats
  PROVE  Plus(a, b) \in Floats
<1>1. CASE a \in Int /\ b \in Int
  BY <1>1, PlusInt DEF Floats
<1>2. CASE a \in {NaN, Inf, NegInf} \/ b \in {NaN, Inf, NegInf}
  BY <1>2 DEF Plus, Floats
<1> QED
  BY <1>1, <1>2 DEF Floats

\* Only infinities of either sign, or a number lost already, add up to none.
LEMMA PlusNaN ==
  ASSUME NEW a \in Floats, NEW b \in Int, Plus(a, b) = NaN
  PROVE  a = NaN
BY DynamicsAssumption DEF Plus, Floats

LEMMA MinusFloats ==
  ASSUME NEW a \in Floats
  PROVE  Minus(a) \in Floats /\ (Minus(a) = NaN => a = NaN)
BY DynamicsAssumption DEF Minus, Floats

LEMMA VelocityNaN ==
  ASSUME NEW p1 \in Coordinates, NEW p2 \in Coordinates
  PROVE  /\ Velocity(p1, p2) = NaN <=> p1 = NaN \/ p2 = NaN
         /\ Velocity(p1, p2) = 0 => p1 = p2 /\ p1 \in 0..SIZE
<1>1. CASE p1 = NaN \/ p2 = NaN
  BY <1>1, DynamicsAssumption DEF Velocity
<1>2. CASE p1 # NaN /\ p2 # NaN
  <2>1. p1 \in 0..SIZE /\ p2 \in 0..SIZE /\ SIZE \in Nat
    BY <1>2, DynamicsAssumption DEF Coordinates
  <2>2. Velocity(p1, p2) = p1 - p2
    BY <1>2 DEF Velocity
  <2>3. p1 - p2 \in Int /\ p1 - p2 # NaN
    BY <2>1, DynamicsAssumption
  <2> QED
    BY <1>2, <2>1, <2>2, <2>3
<1> QED
  BY <1>1, <1>2

----------------------------------------------------------------------------

LEMMA WallForces ==
  ASSUME TypeOK, NEW p \in Coordinates, NEW w \in Walls(p)
  PROVE  /\ w \in Floats
         /\ w = NaN => p # NaN /\ NearWall(p) /\ (NaN \in Speed \/ (AtRest /\ OnWall(p)))
         /\ AtRest /\ ~OnWall(p) => w = 0
<1>1. ASSUME NEW d, NEW f \in RepulsiveForce(d)
      PROVE  /\ f \in Floats
             /\ f = NaN => NaN \in Speed \/ (AtRest /\ d = 0)
             /\ AtRest /\ d # 0 => f = 0
  <2>1. 0..MaxWallForce \subseteq Int /\ NaN \notin 0..MaxWallForce /\ NaN # 0
    BY DynamicsAssumption
  <2>2. AtRest => NaN \notin Speed
    BY <2>1 DEF AtRest
  <2>3. CASE NaN \in Speed
    BY <1>1, <2>2, <2>3 DEF RepulsiveForce, Floats
  <2>4. CASE NaN \notin Speed /\ AtRest
    BY <1>1, <2>1, <2>4 DEF RepulsiveForce, Floats
  <2>5. CASE NaN \notin Speed /\ ~AtRest
    <3>1. f \in {Inf} \cup 0..MaxWallForce
      BY <1>1, <2>5 DEF RepulsiveForce
    <3> QED
      BY <2>1, <2>5, <3>1, DynamicsAssumption DEF Floats
  <2> QED
    BY <2>3, <2>4, <2>5
<1>2. CASE p = NaN
  BY <1>2, DynamicsAssumption DEF Walls, Floats
<1>3. CASE p # NaN /\ p < AREA
  <2>1. p \in Int /\ w \in RepulsiveForce(p)
    BY <1>3, DynamicsAssumption DEF Walls, Coordinates
  <2> QED
    BY <1>1, <1>3, <2>1 DEF NearWall, OnWall
<1>4. CASE p # NaN /\ ~(p < AREA) /\ p > SIZE - AREA
  <2>1. PICK f \in RepulsiveForce(SIZE - p) : w = Minus(f)
    BY <1>4 DEF Walls
  <2>2. p \in Int /\ SIZE \in Int
    BY <1>4, DynamicsAssumption DEF Coordinates
  <2>3. SIZE - p = 0 <=> p = SIZE
    BY <2>2
  <2>4. ASSUME NEW n \in Int PROVE n = 0 => Minus(n) = 0
    <3>1. n # NaN /\ n # Inf /\ n # NegInf
      BY DynamicsAssumption
    <3>2. Minus(n) = -n
      BY <3>1 DEF Minus
    <3>3. n = 0 <=> Minus(n) = 0
      BY <3>2
    <3> QED
      BY <3>3
  <2> QED
    BY <1>1, <1>4, <2>1, <2>2, <2>3, <2>4, MinusFloats DEF NearWall, OnWall
<1>5. CASE p # NaN /\ ~(p < AREA) /\ ~(p > SIZE - AREA)
  BY <1>5, DynamicsAssumption DEF Walls, Floats
<1> QED
  BY <1>2, <1>3, <1>4, <1>5

LEMMA ObjectForces ==
  ASSUME TypeOK
  PROVE  /\ ObstacleForce \subseteq Int
         /\ \A t \in TargetForceX : t \in Int \/ (t = NaN /\ AtRest /\ target = "on")
         /\ \A t \in TargetForceY : t \in Int \/ (t = NaN /\ target = "on")
         /\ AtRest => ObstacleForce = {0}
         /\ AtRest /\ target # "on" => TargetForceX = {0} /\ TargetForceY = {0}
<1>1. Capped \subseteq Int
  BY DynamicsAssumption DEF Capped
<1>2. target \in Situations
  BY DEF TypeOK, Possible, Situations
<1>3. CASE target = "none"
  BY <1>1, <1>3 DEF ObstacleForce, TargetForceX, TargetForceY, Floats
<1>4. CASE target = "near"
  BY <1>1, <1>4 DEF ObstacleForce, TargetForceX, TargetForceY, Floats
<1>5. CASE target = "on"
  BY <1>1, <1>5 DEF ObstacleForce, TargetForceX, TargetForceY, Floats
<1> QED
  BY <1>2, <1>3, <1>4, <1>5 DEF Situations

\* One coordinate: what the equation of motion may return.
LEMMA NextPositionsFloats ==
  ASSUME NEW p1 \in Coordinates, NEW p2 \in Coordinates, NEW W, NEW u \in Int, NEW O, NEW T,
         W \subseteq Floats, O \subseteq Int, T \subseteq Int \cup {NaN},
         NEW p \in NextPositions(p1, p2, W, u, O, T)
  PROVE  /\ p \in Floats
         /\ p1 = NaN => p = NaN
         /\ p = NaN => p1 = NaN \/ p2 = NaN \/ NaN \in W \/ NaN \in T
<1>1. PICK w \in W, o \in O, t \in T :
        p \in IF {w, u, o, t} = {0} THEN {Coasted(p1, p2)}
              ELSE Moved(p1, p2, Plus(Plus(w, u), Plus(o, t)))
  BY DEF NextPositions
<1> DEFINE total == Plus(Plus(w, u), Plus(o, t))
<1>2. total \in Floats
  BY PlusFloats DEF Floats
<1>3. ASSUME w # NaN, t # NaN PROVE total # NaN
  <2>1. Plus(o, t) \in Int
    BY <1>3, PlusInt
  <2> QED
    BY <1>3, <2>1, PlusNaN, PlusFloats DEF Floats
<1>4. CASE p1 = NaN \/ p2 = NaN
  BY <1>1, <1>4 DEF Coasted, Moved, Floats
<1>5. CASE p1 # NaN /\ p2 # NaN /\ p = Coasted(p1, p2)
  <2>1. p1 \in Int /\ p2 \in Int
    BY <1>5, DynamicsAssumption DEF Coordinates
  <2>2. Coasted(p1, p2) \in Int
    BY <1>5, <2>1 DEF Coasted
  <2> QED
    BY <1>5, <2>2, DynamicsAssumption DEF Floats
<1>6. CASE p1 # NaN /\ p2 # NaN /\ p \in Moved(p1, p2, total)
  <2>1. p1 \in Int /\ p2 \in Int
    BY <1>6, DynamicsAssumption DEF Coordinates
  <2> HIDE DEF total
  <2>2. CASE total = NaN
    BY <1>3, <1>6, <2>2 DEF Moved, Floats
  <2>3. CASE total \in {Inf, NegInf}
    BY <1>6, <2>3, DynamicsAssumption DEF Moved, Floats
  <2>4. CASE total \in Int
    <3>1. total # NaN /\ total # Inf /\ total # NegInf
      BY <2>4, DynamicsAssumption
    <3>2. p \in {p1 + (total + p1 - p2) \div 2, p1 + (total + p1 - p2 + 1) \div 2}
      BY <1>6, <3>1 DEF Moved
    <3>3. p \in Int
      BY <2>1, <2>4, <3>2
    <3> QED
      BY <1>6, <3>3, DynamicsAssumption DEF Floats
  <2> QED
    BY <1>2, <2>2, <2>3, <2>4 DEF Floats
<1> QED
  BY <1>1, <1>4, <1>5, <1>6

----------------------------------------------------------------------------

LEMMA Clamped ==
  ASSUME NEW p \in Floats
  PROVE  /\ ClampX(p) \in Coordinates /\ ClampY(p) \in Coordinates
         /\ ClampX(p) = NaN <=> p = NaN
         /\ ClampY(p) = NaN <=> p = NaN
         /\ p \in 0..SIZE => ClampX(p) = p /\ ClampY(p) = p
<1>1. /\ SIZE \in Nat /\ 1 \in 0..SIZE /\ SIZE - 1 \in 0..SIZE
      /\ NaN \notin Int /\ NaN # Inf /\ NaN # NegInf /\ Inf \notin Int /\ NegInf \notin Int
  BY DynamicsAssumption
<1>2. CASE p \in Int
  BY <1>1, <1>2 DEF ClampX, ClampY, Beyond, Below, Coordinates
<1>3. CASE p = NaN
  BY <1>1, <1>3 DEF ClampX, ClampY, Beyond, Below, Coordinates
<1>4. CASE p \in {Inf, NegInf}
  BY <1>1, <1>4 DEF ClampX, ClampY, Beyond, Below, Coordinates
<1> QED
  BY <1>2, <1>3, <1>4 DEF Floats

\* A coordinate that is a number was one in the turn before.
Inv ==
  /\ TypeOK
  /\ x1 # NaN => x2 # NaN
  /\ y1 # NaN => y2 # NaN

\* What one turn makes of each coordinate, and why it stops being a number.
LEMMA MovedCoordinates ==
  ASSUME TypeOK, Move
  PROVE  /\ x1' \in Coordinates /\ y1' \in Coordinates
         /\ x1 = NaN => x1' = NaN
         /\ y1 = NaN => y1' = NaN
         /\ x1' = NaN => x1 = NaN \/ x2 = NaN \/ NaN \in Walls(x1) \/ NaN \in TargetForceX
         /\ y1' = NaN => y1 = NaN \/ y2 = NaN \/ NaN \in Walls(y1) \/ NaN \in TargetForceY
<1>1. PICK p \in NextPositions(x1, x2, Walls(x1), fx, ObstacleForce, TargetForceX) :
        x1' = ClampX(p)
  BY DEF Move
<1>2. PICK q \in NextPositions(y1, y2, Walls(y1), fy, ObstacleForce, TargetForceY) :
        y1' = ClampY(q)
  BY DEF Move
<1>3. /\ x1 \in Coordinates /\ x2 \in Coordinates /\ y1 \in Coordinates /\ y2 \in Coordinates
      /\ fx \in Int /\ fy \in Int
  BY DynamicsAssumption DEF TypeOK
<1>4. Walls(x1) \subseteq Floats /\ Walls(y1) \subseteq Floats
  BY <1>3, WallForces
<1>5. /\ ObstacleForce \subseteq Int
      /\ TargetForceX \subseteq Int \cup {NaN} /\ TargetForceY \subseteq Int \cup {NaN}
  BY ObjectForces
<1>6. /\ p \in Floats
      /\ x1 = NaN => p = NaN
      /\ p = NaN => x1 = NaN \/ x2 = NaN \/ NaN \in Walls(x1) \/ NaN \in TargetForceX
  BY <1>3, <1>4, <1>5, NextPositionsFloats
<1>7. /\ q \in Floats
      /\ y1 = NaN => q = NaN
      /\ q = NaN => y1 = NaN \/ y2 = NaN \/ NaN \in Walls(y1) \/ NaN \in TargetForceY
  BY <1>3, <1>4, <1>5, NextPositionsFloats
<1> QED
  BY <1>1, <1>2, <1>6, <1>7, Clamped

LEMMA InitInv == Init => Inv
BY DynamicsAssumption DEF Init, Inv, TypeOK, Coordinates, Possible, Situations

LEMMA StepInv == Inv /\ [Next]_vars => Inv'
<1> SUFFICES ASSUME Inv, [Next]_vars PROVE Inv'
  OBVIOUS
<1>1. ASSUME NEW f \in UserForces, NEW g \in UserForces, UserForce(f, g) PROVE Inv'
  BY <1>1 DEF UserForce, Inv, TypeOK, Possible
<1>2. ASSUME NEW t \in Possible(x1, y1), NEW o \in Possible(x1, y1), NewSituation(t, o)
      PROVE  Inv'
  BY <1>2 DEF NewSituation, Inv, TypeOK, Possible
<1>3. CASE Move
  <2>1. x1' \in Coordinates /\ y1' \in Coordinates /\ (x1 = NaN => x1' = NaN) /\ (y1 = NaN => y1' = NaN)
    BY <1>3, MovedCoordinates DEF Inv
  <2>2. /\ x2' = x1 /\ y2' = y1 /\ UNCHANGED <<fx, fy>>
        /\ IF <<x1, y1>>' = <<x1, y1>> THEN UNCHANGED <<target, obstacle>>
           ELSE target' = "none" /\ obstacle' = "none"
    BY <1>3 DEF Move
  <2>3. target' \in Possible(x1', y1') /\ obstacle' \in Possible(x1', y1')
    BY <2>2 DEF Inv, TypeOK, Possible, Situations
  <2>4. TypeOK'
    BY <2>1, <2>2, <2>3 DEF Inv, TypeOK, Possible
  <2> QED
    BY <2>1, <2>2, <2>4 DEF Inv
<1>4. CASE UNCHANGED vars
  BY <1>4 DEF vars, Inv, TypeOK, Possible
<1> QED
  BY <1>1, <1>2, <1>3, <1>4 DEF Next

\* The drone is always in the field or has lost a coordinate (drone.c:427-443).
THEOREM DynamicsType == Spec => []TypeOK
<1>1. Inv => TypeOK
  BY DEF Inv
<1> QED
  BY <1>1, InitInv, StepInv, PTL DEF Spec

\* The sine of the angle on a target makes no number of the force in y, and no force
\* added to it, nor a clamp, makes one again.
LEMMA OnTargetLost ==
  ASSUME Move, target = "on"
  PROVE  y1' = NaN
<1>1. TargetForceY = {NaN}
  BY DEF TargetForceY
<1>2. PICK p \in NextPositions(y1, y2, Walls(y1), fy, ObstacleForce, {NaN}) : y1' = ClampY(p)
  BY <1>1 DEF Move
<1>3. PICK w \in Walls(y1), o \in ObstacleForce :
        p \in IF {w, fy, o, NaN} = {0} THEN {Coasted(y1, y2)}
              ELSE Moved(y1, y2, Plus(Plus(w, fy), Plus(o, NaN)))
  BY <1>2 DEF NextPositions
<1>4. Plus(Plus(w, fy), Plus(o, NaN)) = NaN /\ {w, fy, o, NaN} # {0}
  BY DynamicsAssumption DEF Plus
<1>5. p = NaN
  BY <1>3, <1>4 DEF Moved
<1> QED
  BY <1>2, <1>5, DynamicsAssumption DEF ClampY, Below, Beyond

\* Away from the targets a coordinate is lost only at rest exactly on a wall, or
\* near a wall after the other one was lost; on a target the next move loses y
\* (drone.c:36-42, 314-343, 432-434).
THEOREM LostCoordinate == Spec => NaNOrigin
<1>1. ASSUME Inv, Move
      PROVE  /\ target # "on" =>
                  /\ x1 # NaN /\ x1' = NaN =>
                       (AtRest /\ OnWall(x1)) \/ (y1 = NaN /\ NearWall(x1))
                  /\ y1 # NaN /\ y1' = NaN =>
                       (AtRest /\ OnWall(y1)) \/ (x1 = NaN /\ NearWall(y1))
             /\ target = "on" /\ <<x1, y1>>' # <<x1, y1>> => y1' = NaN
             /\ x1 = NaN => x1' = NaN
             /\ y1 = NaN => y1' = NaN
  <2>1. TypeOK /\ (x1 # NaN => x2 # NaN) /\ (y1 # NaN => y2 # NaN)
    BY <1>1 DEF Inv
  <2>2. /\ NaN \in Speed => x1 = NaN \/ y1 = NaN
        /\ x1 \in Coordinates /\ y1 \in Coordinates
    BY <2>1, VelocityNaN DEF Speed, TypeOK
  <2>3. /\ NaN \in Walls(x1) =>
             x1 # NaN /\ NearWall(x1) /\ (NaN \in Speed \/ (AtRest /\ OnWall(x1)))
        /\ NaN \in Walls(y1) =>
             y1 # NaN /\ NearWall(y1) /\ (NaN \in Speed \/ (AtRest /\ OnWall(y1)))
    BY <2>1, <2>2, WallForces
  <2>4. /\ NaN \in TargetForceX => AtRest /\ target = "on"
        /\ NaN \in TargetForceY => target = "on"
    BY <2>1, ObjectForces, DynamicsAssumption
  <2>5. target = "on" => y1' = NaN
    BY <1>1, OnTargetLost
  <2> QED
    BY <1>1, <2>1, <2>2, <2>3, <2>4, <2>5, MovedCoordinates
<1>2. ASSUME NEW f \in UserForces, NEW g \in UserForces, UserForce(f, g)
      PROVE  UNCHANGED <<x1, y1>>
  BY <1>2 DEF UserForce
<1>3. ASSUME NEW t \in Possible(x1, y1), NEW o \in Possible(x1, y1), NewSituation(t, o)
      PROVE  UNCHANGED <<x1, y1>>
  BY <1>3 DEF NewSituation
<1>4. Inv /\ [Next]_vars =>
        [/\ target # "on" =>
              /\ x1 # NaN /\ x1' = NaN =>
                   (AtRest /\ OnWall(x1)) \/ (y1 = NaN /\ NearWall(x1))
              /\ y1 # NaN /\ y1' = NaN =>
                   (AtRest /\ OnWall(y1)) \/ (x1 = NaN /\ NearWall(y1))
         /\ target = "on" /\ <<x1, y1>>' # <<x1, y1>> => y1' = NaN
         /\ x1 = NaN => x1' = NaN
         /\ y1 = NaN => y1' = NaN]_vars
  BY <1>1, <1>2, <1>3 DEF Next
<1> QED
  BY <1>4, InitInv, StepInv, PTL DEF Spec, NaNOrigin

\* One coordinate of a drone at rest on which no force acts.
LEMMA Stays ==
  ASSUME NEW p \in 0..SIZE, NEW q \in NextPositions(p, p, {0}, 0, {0}, {0})
  PROVE  q = p
<1>1. q = Coasted(p, p)
  BY DEF NextPositions
<1>2. p # NaN /\ p \in Int
  BY DynamicsAssumption
<1>3. Coasted(p, p) = p + (p - p + 1) \div 2
  BY <1>2 DEF Coasted
<1>4. (p - p + 1) \div 2 = 0
  BY <1>2
<1> QED
  BY <1>1, <1>2, <1>3, <1>4

\* No force but the user's moves a drone at rest away from walls and targets
\* (drone.c:36-42).
THEOREM NothingPushesAtRest == Spec => RestIsStable
<1>1. ASSUME Inv, Move, AtRest, fx = 0, fy = 0, target # "on", ~OnWall(x1), ~OnWall(y1)
      PROVE  <<x1, y1>>' = <<x1, y1>>
  <2>1. TypeOK
    BY <1>1 DEF Inv
  <2>2. x1 = x2 /\ x1 \in 0..SIZE /\ y1 = y2 /\ y1 \in 0..SIZE
    <3>1. Velocity(x1, x2) = 0 /\ Velocity(y1, y2) = 0
      BY <1>1 DEF AtRest, Speed
    <3> QED
      BY <2>1, <3>1, VelocityNaN DEF TypeOK
  <2>3. ObstacleForce = {0} /\ TargetForceX = {0} /\ TargetForceY = {0}
    BY <1>1, <2>1, ObjectForces
  <2>4. Walls(x1) \subseteq {0} /\ Walls(y1) \subseteq {0}
    BY <1>1, <2>1, WallForces DEF TypeOK
  <2>5. PICK p \in NextPositions(x1, x1, {0}, 0, {0}, {0}) : x1' = ClampX(p)
    BY <1>1, <2>2, <2>3, <2>4 DEF Move, NextPositions
  <2>6. PICK q \in NextPositions(y1, y1, {0}, 0, {0}, {0}) : y1' = ClampY(q)
    BY <1>1, <2>2, <2>3, <2>4 DEF Move, NextPositions
  <2>7. p = x1 /\ q = y1
    BY <2>2, <2>5, <2>6, Stays
  <2>8. x1 \in Floats /\ y1 \in Floats
    BY <2>2 DEF Floats
  <2> QED
    BY <2>2, <2>5, <2>6, <2>7, <2>8, Clamped
<1>2. ASSUME NEW f \in UserForces, NEW g \in UserForces, UserForce(f, g)
      PROVE  UNCHANGED <<x1, y1>>
  BY <1>2 DEF UserForce
<1>3. ASSUME NEW t \in Possible(x1, y1), NEW o \in Possible(x1, y1), NewSituation(t, o)
      PROVE  UNCHANGED <<x1, y1>>
  BY <1>3 DEF NewSituation
<1>4. Inv /\ [Next]_vars =>
        [AtRest /\ fx = 0 /\ fy = 0 /\ target # "on" /\ ~OnWall(x1) /\ ~OnWall(y1)
           => <<x1, y1>>' = <<x1, y1>>]_vars
  BY <1>1, <1>2, <1>3 DEF Next
<1> QED
  BY <1>4, InitInv, StepInv, PTL DEF Spec, RestIsStable

\* In the open field, out of reach of every wall, only the user's force and the
\* inertia are left: one coordinate before it is put back.
LEMMA OpenField ==
  ASSUME NEW p1 \in 0..SIZE, NEW p2 \in 0..SIZE, NEW f \in Int, ~NearWall(p1),
         NEW q \in NextPositions(p1, p2, Walls(p1), f, {0}, {0})
  PROVE  /\ q \in Int
         /\ p1 >= p2 /\ f >= 0 => q >= p1
         /\ p1 <= p2 /\ f <= 0 => q <= p1
<1>1. /\ p1 \in Int /\ p2 \in Int /\ p1 # NaN /\ p2 # NaN
      /\ ~(p1 < AREA) /\ ~(p1 > SIZE - AREA)
  BY DynamicsAssumption DEF NearWall
<1>2. Walls(p1) = {0}
  BY <1>1 DEF Walls
<1> DEFINE total == Plus(Plus(0, f), Plus(0, 0))
<1>3. total = f
  BY PlusInt
<1>4. q \in IF {0, f} = {0} THEN {Coasted(p1, p2)} ELSE Moved(p1, p2, f)
  <2>1. q \in IF {0, f, 0, 0} = {0} THEN {Coasted(p1, p2)} ELSE Moved(p1, p2, total)
    BY <1>2 DEF NextPositions
  <2> QED
    BY <1>3, <2>1
<1>5. CASE f = 0
  <2>1. q = p1 + (IF p1 > p2 THEN (p1 - p2) \div 2 ELSE (p1 - p2 + 1) \div 2)
    BY <1>1, <1>4, <1>5 DEF Coasted
  <2> QED
    BY <1>1, <1>5, <2>1
<1>6. CASE f # 0
  <2>1. f # NaN /\ f # Inf /\ f # NegInf
    BY DynamicsAssumption
  <2>2. q = p1 + (f + p1 - p2) \div 2 \/ q = p1 + (f + p1 - p2 + 1) \div 2
    BY <1>1, <1>4, <1>6, <2>1 DEF Moved
  <2> QED
    BY <1>1, <2>2
<1> QED
  BY <1>5, <1>6

\* A drone alone in the open field keeps its direction unless the user turns it,
\* also when it crosses the left, right or upper wall: it is put back before the
\* wall that it has crossed; from beyond the lower one it comes out under the upper
\* one (drone.c:427-442).
THEOREM KeepsDirection == Spec => FliesStraight
<1>1. ASSUME Inv, Move, Alone
      PROVE  /\ ~NearWall(x1) /\ x1 >= x2 /\ fx >= 0 => x1' >= x1
             /\ ~NearWall(x1) /\ x1 <= x2 /\ fx <= 0 => x1' <= x1
             /\ ~NearWall(y1) /\ y1 <= y2 /\ fy <= 0 => y1' <= y1
             /\ ~NearWall(y1) /\ y1 >= y2 /\ fy >= 0 => y1' >= y1 \/ y1' = 1
  <2>1. /\ x1 \in 0..SIZE /\ x2 \in 0..SIZE /\ y1 \in 0..SIZE /\ y2 \in 0..SIZE
        /\ fx \in Int /\ fy \in Int
    BY <1>1, DynamicsAssumption DEF Inv, TypeOK, Alone, Coordinates
  <2>2. ObstacleForce = {0} /\ TargetForceX = {0} /\ TargetForceY = {0}
    BY <1>1 DEF Alone, ObstacleForce, TargetForceX, TargetForceY
  <2>3. PICK p \in NextPositions(x1, x2, Walls(x1), fx, {0}, {0}) : x1' = ClampX(p)
    BY <1>1, <2>2 DEF Move
  <2>4. PICK q \in NextPositions(y1, y2, Walls(y1), fy, {0}, {0}) : y1' = ClampY(q)
    BY <1>1, <2>2 DEF Move
  <2>5. ASSUME NEW r \in Int
        PROVE  /\ Beyond(r) <=> r > SIZE
               /\ Below(r) <=> r < 0
    BY DynamicsAssumption DEF Beyond, Below
  <2>6. /\ SIZE \in Nat /\ AREA \in Nat /\ 2 <= AREA /\ 2 * AREA <= SIZE
    BY DynamicsAssumption
  <2>7. ASSUME ~NearWall(x1)
        PROVE  /\ x1 >= x2 /\ fx >= 0 => x1' >= x1
               /\ x1 <= x2 /\ fx <= 0 => x1' <= x1
    <3>1. /\ p \in Int
          /\ x1 >= x2 /\ fx >= 0 => p >= x1
          /\ x1 <= x2 /\ fx <= 0 => p <= x1
      BY <2>1, <2>3, <2>7, OpenField
    <3>2. AREA <= x1 /\ x1 <= SIZE - AREA
      BY <2>1, <2>6, <2>7 DEF NearWall
    <3>3. x1' = IF p > SIZE THEN SIZE - 1 ELSE IF p < 0 THEN 1 ELSE p
      BY <2>3, <2>5, <3>1 DEF ClampX
    <3> QED
      BY <2>1, <2>6, <3>1, <3>2, <3>3
  <2>8. ASSUME ~NearWall(y1)
        PROVE  /\ y1 <= y2 /\ fy <= 0 => y1' <= y1
               /\ y1 >= y2 /\ fy >= 0 => y1' >= y1 \/ y1' = 1
    <3>1. /\ q \in Int
          /\ y1 <= y2 /\ fy <= 0 => q <= y1
          /\ y1 >= y2 /\ fy >= 0 => q >= y1
      BY <2>1, <2>4, <2>8, OpenField
    <3>2. AREA <= y1 /\ y1 <= SIZE - AREA
      BY <2>1, <2>6, <2>8 DEF NearWall
    <3>3. y1' = IF q < 0 THEN 1 ELSE IF q > SIZE THEN 1 ELSE q
      BY <2>4, <2>5, <3>1 DEF ClampY
    <3> QED
      BY <2>1, <2>6, <3>1, <3>2, <3>3
  <2> QED
    BY <2>7, <2>8
<1>2. ASSUME Inv, UNCHANGED <<x1, y1>>, Alone
      PROVE  x1' >= x1 /\ x1' <= x1 /\ y1' <= y1 /\ y1' >= y1
  BY <1>2, DynamicsAssumption DEF Inv, TypeOK, Alone, Coordinates
<1>3. ASSUME NEW f \in UserForces, NEW g \in UserForces, UserForce(f, g)
      PROVE  UNCHANGED <<x1, y1>>
  BY <1>3 DEF UserForce
<1>4. ASSUME NEW t \in Possible(x1, y1), NEW o \in Possible(x1, y1), NewSituation(t, o)
      PROVE  UNCHANGED <<x1, y1>>
  BY <1>4 DEF NewSituation
<1>5. Inv /\ [Next]_vars =>
        [Alone =>
          /\ ~NearWall(x1) /\ x1 >= x2 /\ fx >= 0 => x1' >= x1
          /\ ~NearWall(x1) /\ x1 <= x2 /\ fx <= 0 => x1' <= x1
          /\ ~NearWall(y1) /\ y1 <= y2 /\ fy <= 0 => y1' <= y1
          /\ ~NearWall(y1) /\ y1 >= y2 /\ fy >= 0 => y1' >= y1 \/ y1' = 1]_vars
  BY <1>1, <1>2, <1>3, <1>4 DEF Next
<1> QED
  BY <1>5, InitInv, StepInv, PTL DEF Spec, FliesStraight
=============================================================================
