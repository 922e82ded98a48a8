---------------------------- MODULE ForceProofs ----------------------------
(***************************************************************************)
(* Proofs about Force for every set of configurations, reading interval    *)
(* and capacity of the pipe.                                               *)
(***************************************************************************)
EXTENDS Force, TLAPS

LEMMA LimitedInRange ==
  ASSUME NEW n \in Int, NEW m \in Nat
  PROVE  /\ Limited(n, m) \in Int
         /\ -m <= Limited(n, m) /\ Limited(n, m) <= m
         /\ Weaker(Limited(n, m), n)
BY DEF Limited, Weaker

LEMMA WeakerTransitive ==
  ASSUME NEW a \in Int, NEW b \in Int, NEW c \in Int, Weaker(a, b), Weaker(b, c)
  PROVE  Weaker(a, c)
BY DEF Weaker

LEMMA PushType ==
  ASSUME NEW key \in DOMAIN Direction, NEW step \in Nat
  PROVE  Push(key, step)[1] \in Int /\ Push(key, step)[2] \in Int
<1>1. Direction[key] \in Int \X Int
  BY DEF Direction
<1>2. diag(step) \in Int
  BY DEF diag
<1>3. \A d \in Int \X Int, l \in Int : d[1] * l \in Int /\ d[2] * l \in Int
  OBVIOUS
<1> QED
  BY <1>1, <1>2, <1>3 DEF Push

\* What update_force returns: limited, and with no key no stronger than before.
LEMMA UpdatedForce ==
  ASSUME NEW f \in Forces, NEW key \in Keys \cup {NoKey}, NEW p \in Configs
  PROVE  /\ Updated(f, key, p) \in Forces
         /\ \A i \in 1..2 : -p.max_force <= Updated(f, key, p)[i]
                            /\ Updated(f, key, p)[i] <= p.max_force
         /\ key = NoKey => \A i \in 1..2 : Weaker(Updated(f, key, p)[i], f[i])
<1> DEFINE pushed == IF key \in StopKeys THEN Zero
                     ELSE IF key = NoKey THEN f
                     ELSE <<f[1] + Push(key, p.force_step)[1], f[2] + Push(key, p.force_step)[2]>>
<1>1. p.max_force \in Nat /\ p.force_step \in Nat
  BY ForceAssumption
<1>2. pushed[1] \in Int /\ pushed[2] \in Int
  <2>1. CASE key \in StopKeys \/ key = NoKey
    BY <2>1 DEF Zero, Forces
  <2>2. CASE key \in DOMAIN Direction /\ key \notin StopKeys /\ key # NoKey
    <3>1. Push(key, p.force_step)[1] \in Int /\ Push(key, p.force_step)[2] \in Int
      BY <1>1, <2>2, PushType
    <3> QED
      BY <2>2, <3>1 DEF Forces
  <2> QED
    BY <2>1, <2>2 DEF Keys
<1>3. Updated(f, key, p) = <<Limited(pushed[1], p.max_force), Limited(pushed[2], p.max_force)>>
  BY DEF Updated
<1>4. key = NoKey => pushed = f
  BY DEF NoKey, StopKeys
<1> HIDE DEF pushed
<1>5. /\ Limited(pushed[1], p.max_force) \in Int /\ Limited(pushed[2], p.max_force) \in Int
      /\ -p.max_force <= Limited(pushed[1], p.max_force)
      /\ Limited(pushed[1], p.max_force) <= p.max_force
      /\ -p.max_force <= Limited(pushed[2], p.max_force)
      /\ Limited(pushed[2], p.max_force) <= p.max_force
      /\ Weaker(Limited(pushed[1], p.max_force), pushed[1])
      /\ Weaker(Limited(pushed[2], p.max_force), pushed[2])
  BY <1>1, <1>2, LimitedInRange
<1> QED
  BY <1>3, <1>4, <1>5 DEF Forces

----------------------------------------------------------------------------

\* The type, what the buffer says of the force, and the property itself.
Inv ==
  /\ TypeOK
  /\ received.kind = "force" => drone_force = received.force
  /\ ShownIsWeaker

LEMMA InitInv == Init => Inv
BY ForceAssumption
   DEF Init, Inv, TypeOK, ShownIsWeaker, Connected, LastSent, Weaker, Zero, Forces, Message

LEMMA InputTurnInv ==
  ASSUME Inv, NEW key \in Keys \cup {NoKey}, InputTurn(key)
  PROVE  Inv'
<1>1. params' \in Configs /\ counter' \in 0..INTERVAL
  BY ForceAssumption DEF Inv, TypeOK, InputTurn
<1>2. force' = Updated(force, key, params') /\ force \in Forces
  BY DEF InputTurn, Inv, TypeOK
<1>3. /\ force' \in Forces
      /\ \A i \in 1..2 : -params'.max_force <= force'[i] /\ force'[i] <= params'.max_force
      /\ key = NoKey => \A i \in 1..2 : Weaker(force'[i], force[i])
  BY <1>1, <1>2, UpdatedForce
<1>4. input_drone' = (IF IsSent(key) THEN Append(input_drone, force') ELSE input_drone)
  BY DEF InputTurn, Sent
<1>5. input_drone' \in Seq(Forces) /\ Len(input_drone') <= Cap
  BY <1>3, <1>4, ForceAssumption DEF Inv, TypeOK, InputTurn
<1>6. TypeOK'
  BY <1>1, <1>3, <1>5 DEF Inv, TypeOK, InputTurn
<1>7. ShownIsWeaker'
  <2>1. CASE IsSent(key)
    <3>1. LastSent' = force'
      BY <1>3, <1>4, <2>1 DEF LastSent, Last, Inv, TypeOK
    <3> QED
      BY <1>3, <3>1 DEF ShownIsWeaker, Weaker, Forces
  <2>2. CASE ~IsSent(key)
    <3>1. key = NoKey /\ LastSent' = LastSent
      BY <1>4, <2>2 DEF IsSent, LastSent, InputTurn
    <3>2. LastSent \in Forces
      BY DEF LastSent, Last, Inv, TypeOK
    <3>3. SUFFICES ASSUME open', Connected'
                   PROVE  Weaker(force'[1], LastSent[1]) /\ Weaker(force'[2], LastSent[2])
      BY <3>1 DEF ShownIsWeaker
    <3>4. Weaker(force[1], LastSent[1]) /\ Weaker(force[2], LastSent[2])
      BY <3>3 DEF Inv, ShownIsWeaker, Connected, InputTurn
    <3>5. Weaker(force'[1], force[1]) /\ Weaker(force'[2], force[2])
      BY <1>3, <3>1
    <3> QED
      BY <1>2, <1>3, <3>2, <3>4, <3>5, WeakerTransitive DEF Forces
  <2> QED
    BY <2>1, <2>2
<1> QED
  BY <1>6, <1>7 DEF Inv, InputTurn

LEMMA DroneReadsForceInv ==
  ASSUME Inv, DroneReadsForce
  PROVE  Inv'
<1>1. Head(input_drone) \in Forces /\ Tail(input_drone) \in Seq(Forces)
      /\ Len(Tail(input_drone)) <= Cap
  BY ForceAssumption DEF DroneReadsForce, Inv, TypeOK
<1>2. received' = [kind |-> "force", force |-> Head(input_drone)]
      /\ drone_force' = Head(input_drone)
  BY DEF DroneReadsForce, Interpreted, Message
<1>3. TypeOK'
  BY <1>1, <1>2 DEF DroneReadsForce, Inv, TypeOK
<1>4. LastSent' = LastSent
  <2>1. input_drone \in Seq(Forces) /\ input_drone # <<>> /\ input_drone' = Tail(input_drone)
    BY DEF DroneReadsForce, Inv, TypeOK
  <2>2. LastSent = input_drone[Len(input_drone)]
    BY <2>1 DEF LastSent, Last
  <2>3. CASE Len(input_drone) = 1
    <3>1. input_drone' = <<>> /\ Head(input_drone) = input_drone[1]
      BY <2>1, <2>3
    <3> QED
      BY <1>2, <2>2, <2>3, <3>1 DEF LastSent
  <2>4. CASE Len(input_drone) # 1
    <3>1. Len(input_drone) \in Nat \ {0, 1}
      BY <2>1, <2>4
    <3>2. Len(input_drone') = Len(input_drone) - 1
      BY <2>1, <3>1
    <3>3. input_drone' # <<>>
      <4>1. Len(input_drone') # 0
        BY <3>1, <3>2
      <4> QED
        BY <4>1
    <3>4. input_drone'[Len(input_drone')] = input_drone[Len(input_drone)]
      BY <2>1, <3>1, <3>2
    <3> QED
      BY <2>2, <3>3, <3>4 DEF LastSent, Last
  <2> QED
    BY <2>3, <2>4
<1>5. ShownIsWeaker'
  BY <1>4 DEF ShownIsWeaker, Connected, DroneReadsForce, Inv
<1> QED
  BY <1>2, <1>3, <1>5 DEF Inv

LEMMA DroneEofInv ==
  ASSUME Inv, NEW p \in watched, DroneEof(p)
  PROVE  Inv'
<1>1. drone_force' \in Forces
  BY ForceAssumption DEF DroneEof, Interpreted, Inv, TypeOK, Forces
<1>2. received.kind = "force" => drone_force' = received.force
  BY DEF DroneEof, Interpreted
<1>3. TypeOK'
  BY <1>1 DEF DroneEof, Inv, TypeOK
<1>4. ~Connected'
  BY DEF DroneEof, Connected, Inv, TypeOK
<1> QED
  BY <1>2, <1>3, <1>4 DEF DroneEof, Inv, ShownIsWeaker

LEMMA StepInv == Inv /\ [Next]_vars => Inv'
<1> SUFFICES ASSUME Inv, [Next]_vars PROVE Inv'
  OBVIOUS
<1>1. ASSUME NEW p \in Configs, EditFile(p) PROVE Inv'
  BY <1>1 DEF EditFile, Inv, TypeOK, ShownIsWeaker, Connected, LastSent
<1>2. ASSUME NEW key \in Keys \cup {NoKey}, InputTurn(key) PROVE Inv'
  BY <1>2, InputTurnInv
<1>3. CASE InputEnds
  BY <1>3 DEF InputEnds, Inv, TypeOK, ShownIsWeaker, Connected, LastSent
<1>4. CASE DroneReadsForce
  BY <1>4, DroneReadsForceInv
<1>5. CASE DroneReadsObjects
  BY <1>5 DEF DroneReadsObjects, Message, Zero, Forces, Inv, TypeOK, ShownIsWeaker, Connected,
              LastSent
<1>6. CASE DroneStops
  BY <1>6 DEF DroneStops, Inv, TypeOK, ShownIsWeaker, Connected
<1>7. ASSUME NEW p \in watched, DroneEof(p) PROVE Inv'
  BY <1>7, DroneEofInv
<1>8. CASE UNCHANGED vars
  BY <1>8 DEF vars, Inv, TypeOK, ShownIsWeaker, Connected, LastSent
<1> QED
  BY <1>1, <1>2, <1>3, <1>4, <1>5, <1>6, <1>7, <1>8 DEF Next

\* Every variable always has its type, and input never holds a force beyond its
\* limit (input.c:205-214).
THEOREM ForceType == Spec => []TypeOK
<1>1. Inv => TypeOK
  BY DEF Inv
<1> QED
  BY <1>1, InitInv, StepInv, PTL DEF Spec

\* The force that input shows is never stronger than the one the drone gets, nor
\* opposite to it, however often the limit is edited (input.c:345-384).
THEOREM ShownForce == Spec => []ShownIsWeaker
<1>1. Inv => ShownIsWeaker
  BY DEF Inv
<1> QED
  BY <1>1, InitInv, StepInv, PTL DEF Spec

\* The message that the drone interprets again at the end of a pipe does not
\* change its force (drone.c:206-212, 262-267).
THEOREM EofKeepsForce == Spec => ForceSurvivesEof
<1>1. ASSUME Inv, [Next]_vars
      PROVE  [watched' # watched /\ received.kind # "junk" => drone_force' = drone_force]_vars
  <2>1. CASE InputEnds \/ DroneReadsForce \/ DroneReadsObjects \/ DroneStops
    BY <2>1 DEF InputEnds, DroneReadsForce, DroneReadsObjects, DroneStops
  <2>2. ASSUME NEW key \in Keys \cup {NoKey}, InputTurn(key)
        PROVE  watched' = watched
    BY <2>2 DEF InputTurn
  <2>3. ASSUME NEW p \in watched, DroneEof(p), received.kind # "junk"
        PROVE  drone_force' = drone_force
    BY <1>1, <2>3 DEF DroneEof, Interpreted, Inv, TypeOK
  <2>4. ASSUME NEW p \in Configs, EditFile(p)
        PROVE  watched' = watched
    BY <2>4 DEF EditFile
  <2>5. CASE UNCHANGED vars
    BY <2>5
  <2>6. CASE Next
    BY <2>1, <2>2, <2>3, <2>4, <2>6 DEF Next
  <2> QED
    BY <1>1, <2>5, <2>6
<1> QED
  BY <1>1, InitInv, StepInv, PTL DEF Spec, ForceSurvivesEof
============================================================================
