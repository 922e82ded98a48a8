------------------------------- MODULE Force -------------------------------
(***************************************************************************)
(* The user's force on its way: input.c keeps it, changes it with every     *)
(* key and sends it to the drone, which applies the last one it has read    *)
(* until it reads another.  Input reads the limit and the step again from   *)
(* time to time, from a file the user may edit meanwhile.                   *)
(*                                                                         *)
(* A force is a pair of whole numbers.                                      *)
(***************************************************************************)
EXTENDS Integers, Sequences, SequencesExt

CONSTANTS
  Configs,      \* what the file may say: max_force and force_step
  INTERVAL,     \* reading_params_interval, in turns of the loop
  Cap,          \* how many messages the pipe holds
  Wild          \* a force that random characters may spell

ASSUME ForceAssumption ==
  /\ Configs \subseteq [max_force : Nat \ {0}, force_step : Nat]
  /\ INTERVAL \in Nat \ {0} /\ Cap \in Nat \ {0} /\ Wild \in Int \X Int

VARIABLES
  file,         \* what the configuration file says now
  params,       \* max_force and force_step of input
  counter,      \* reading_params_interval of input
  force,        \* drone_current_force: what input shows
  open,         \* input runs and holds the pipe open
  input_drone,  \* the pipe
  drone_force,  \* the force the drone applies
  received,     \* the buffer the drone reads every message into
  watched       \* the pipes the drone selects on, none when it has ended

vars == <<file, params, counter, force, open, input_drone, drone_force, received, watched>>

Zero == <<0, 0>>

\* Where a key pushes; y grows downwards.
Direction ==
  [q |-> <<-1, -1>>, w |-> <<0, -1>>, e |-> <<1, -1>>,
   a |-> <<-1, 0>>,                   d |-> <<1, 0>>,
   z |-> <<-1, 1>>,  x |-> <<0, 1>>,  c |-> <<1, 1>>]
StopKeys == {"s", " "}
Keys == DOMAIN Direction \cup StopKeys
NoKey == "none"

diag(side) == (side * 7071) \div 10000
Push(key, step) ==
  LET d == Direction[key]
      length == IF 0 \in {d[1], d[2]} THEN step ELSE diag(step)
  IN  <<d[1] * length, d[2] * length>>

Limited_Above(n, max_force) == IF n > max_force THEN max_force ELSE n
Limited(n, max_force) ==
  IF n > max_force THEN max_force ELSE IF n < -max_force THEN -max_force ELSE n

\* update_force: the new force, limited whatever the key, and whether it is sent.
Updated(f, key, p) ==
  LET pushed == IF key \in StopKeys THEN Zero
                ELSE IF key = NoKey THEN f
                ELSE <<f[1] + Push(key, p.force_step)[1], f[2] + Push(key, p.force_step)[2]>>
  IN  <<Limited(pushed[1], p.max_force), Limited(pushed[2], p.max_force)>>
IsSent_Moving(key) == key \in DOMAIN Direction
IsSent(key) == key \in Keys

Forces == Int \X Int

\* A message in the buffer: a force, or targets or obstacles, or nothing yet.
Message(kind, f) == [kind |-> kind, force |-> f]

TypeOK ==
  /\ file \in Configs /\ params \in Configs
  /\ counter \in 0..INTERVAL
  /\ force \in Forces
  /\ \A i \in 1..2 : -params.max_force <= force[i] /\ force[i] <= params.max_force
  /\ open \in BOOLEAN
  /\ input_drone \in Seq(Forces) /\ Len(input_drone) <= Cap
  /\ drone_force \in Forces
  /\ received \in [kind : {"force", "objects", "junk"}, force : Forces]
  /\ watched \subseteq {"input_drone", "server_drone"}

Init ==
  /\ file \in Configs /\ params = file /\ counter = INTERVAL
  /\ force = Zero /\ open = TRUE /\ input_drone = <<>>
  /\ drone_force = Zero /\ received = Message("junk", Zero)
  /\ watched = {"input_drone", "server_drone"}

----------------------------------------------------------------------------

\* The user saves the file; not part of the program.
EditFile(p) ==
  /\ file' = p
  /\ UNCHANGED <<params, counter, force, open, input_drone, drone_force, received, watched>>

\* The message: the force after the key.
Sent_BeforeKey(key) == IF IsSent(key) THEN Append(input_drone, force) ELSE input_drone
Sent(key) == IF IsSent(key) THEN Append(input_drone, force') ELSE input_drone

\* One turn of the loop of input with a key or none.  Write waits for room.
InputTurn(key) ==
  /\ open
  /\ IsSent(key) => Len(input_drone) < Cap
  /\ IF counter = 0 THEN counter' = INTERVAL /\ params' = file
     ELSE counter' = counter - 1 /\ UNCHANGED params
  /\ force' = Updated(force, key, params')
  /\ input_drone' = Sent(key)
  /\ UNCHANGED <<file, open, drone_force, received, watched>>

\* The key p, or the end of the server.
InputEnds ==
  /\ open /\ open' = FALSE
  /\ UNCHANGED <<file, params, counter, force, input_drone, drone_force, received, watched>>

\* The default branch of the drone: the force of a message that spells one.
Interpreted_ElseZero(r) ==
  IF r.kind = "force" THEN {r.force}
  ELSE IF r.kind = "objects" THEN {Zero} ELSE {drone_force, Wild}
Interpreted(r) ==
  IF r.kind = "force" THEN {r.force}
  ELSE IF r.kind = "objects" THEN {drone_force} ELSE {drone_force, Wild}

DroneReadsForce ==
  /\ "input_drone" \in watched /\ input_drone # <<>>
  /\ received' = Message("force", Head(input_drone))
  /\ drone_force' \in Interpreted(received')
  /\ input_drone' = Tail(input_drone)
  /\ UNCHANGED <<file, params, counter, force, open, watched>>

\* Targets, obstacles or a hit from the server.
DroneReadsObjects ==
  /\ "server_drone" \in watched
  /\ received' = Message("objects", Zero)
  /\ UNCHANGED <<file, params, counter, force, open, input_drone, drone_force, watched>>

\* End of file: the pipe is dropped, and the buffer, which still holds the last
\* message of either pipe, is interpreted once more.
DroneEof(p) ==
  /\ p \in watched
  /\ p = "input_drone" => ~open /\ input_drone = <<>>
  /\ watched' = watched \ {p}
  /\ drone_force' \in Interpreted(received)
  /\ UNCHANGED <<file, params, counter, force, open, input_drone, received>>

\* STOP.
DroneStops ==
  /\ "server_drone" \in watched /\ watched' = {}
  /\ UNCHANGED <<file, params, counter, force, open, input_drone, drone_force, received>>

Next ==
  \/ \E p \in Configs : EditFile(p)
  \/ \E key \in Keys \cup {NoKey} : InputTurn(key)
  \/ InputEnds
  \/ DroneReadsForce \/ DroneReadsObjects \/ DroneStops
  \/ \E p \in watched : DroneEof(p)

Spec == Init /\ [][Next]_vars

\* The drone polls its pipes in every turn of its loop.
FairSpec == Spec /\ WF_vars(DroneReadsForce)

----------------------------------------------------------------------------
(* What must be true *)

\* Both pipes of the drone are in use.
Connected == watched = {"input_drone", "server_drone"}

\* The force last sent, which the drone applies or is going to.
LastSent == IF input_drone = <<>> THEN drone_force ELSE Last(input_drone)

\* What input shows is never more than what the drone gets, and never points
\* elsewhere.  It may be less: a lower limit weakens the shown force at once and
\* the applied one with the next key (README.md:141 calls it the force applied).
Weaker(a, b) == (0 <= a /\ a <= b) \/ (b <= a /\ a <= 0)
ShownIsWeaker ==
  open /\ Connected =>
    Weaker(force[1], LastSent[1]) /\ Weaker(force[2], LastSent[2])

\* After a key that takes the force away the drone is without force, unless the
\* user pushes again or the drone loses a pipe or ends (input.c:178-181, 196-199).
StopReachesDrone ==
  force = Zero /\ open ~> drone_force = Zero \/ force # Zero \/ ~Connected

\* At the end of a pipe the drone interprets its last message a second time:
\* that does not change the force, unless there never was a message
\* (drone.c:206-212, 262-267).
ForceSurvivesEof ==
  [][watched' # watched /\ received.kind # "junk" => drone_force' = drone_force]_vars
============================================================================
