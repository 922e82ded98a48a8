------------------------------ MODULE Targets ------------------------------
(***************************************************************************)
(* The life of a target set: target.c draws it, server.c relays it to the  *)
(* map and to the drone, map.c detects the hits frame by frame, reports    *)
(* each one (TH) and asks for a new set when none is left (GE), and        *)
(* drone.c follows the reports so that its own copy of the set drives the  *)
(* attraction forces.                                                      *)
(*                                                                         *)
(* Messages travel through the pipes that master.c creates; one message is *)
(* one MAX_MSG_LEN write, so pipes are FIFO queues of whole messages that  *)
(* block their writer when full.  Array indices are 1-based here.          *)
(***************************************************************************)
EXTENDS Integers, Sequences

CONSTANTS
  N,            \* N_TARGETS, the number of targets in a set
  Positions,    \* simulation coordinates
  Origin,       \* where the map believes the drone is before the first D
  Cells,        \* character cells of the map window
  Layouts,      \* the ways a window size projects coordinates onto cells
  TargetSets,   \* the target sets target.c can draw
  Junk,         \* contents of an array entry that was never written
  Cap           \* how many messages each pipe holds

PipeNames == {"server_map", "map_server", "server_drone", "target_server",
              "server_target"}

ASSUME NAssumption == N \in Nat \ {0}
ASSUME PositionAssumption == Origin \in Positions /\ Junk \notin Positions
ASSUME LayoutAssumption == Layouts \subseteq [Positions -> Cells] /\ Layouts # {}
ASSUME TargetSetAssumption == TargetSets \subseteq [1..N -> Positions]
ASSUME CapAssumption == Cap \in [PipeNames -> Nat \ {0}]

(***************************************************************************)
(* The whole backlog a map can produce for one set, N(N+1)/2 hit reports   *)
(* and one GE, fits in its pipe: 56 of the 64 messages of a Linux pipe for *)
(* the N_TARGETS of constants.h.                                           *)
(***************************************************************************)
ASSUME RoomAssumption == 2 * Cap["map_server"] >= N * (N + 1) + 2

DMsg  == [type : {"D"}, pos : Positions]
TMsg  == [type : {"T"}, set : TargetSets]
THMsg == [type : {"TH"}, idx : 1..N, pos : Positions]
GEMsg == [type : {"GE"}]
Msg   == DMsg \cup TMsg \cup THMsg \cup GEMsg

VARIABLES
  pipe,         \* the pipes, oldest message first
  to_write,     \* server: the Write calls left in the branch being executed
  target_pc,    \* target: about to "send" a set or in the blocking "read"
  targets_pos,  \* map: the target array
  target_num,   \* map: how many of its entries are targets
  drone_pos,    \* map: the last position received
  layout,       \* map: the projection of the frame being drawn
  frame,        \* map: 0 in Select, i when entry i is to be drawn next
  to_decrease,  \* map: some target was hit in this frame
  awards,       \* map: score increments since the current set arrived
  targets_arr,  \* drone: its copy of the target array
  targets_num   \* drone: how many of its entries are targets

mapVars   == <<targets_pos, target_num, drone_pos, layout, frame, to_decrease,
               awards>>
droneVars == <<targets_arr, targets_num>>
vars      == <<pipe, to_write, target_pc, mapVars, droneVars>>

TypeOK ==
  /\ pipe \in [PipeNames -> Seq(Msg)]
  /\ to_write \in Seq([to : PipeNames, msg : Msg])
  /\ target_pc \in {"send", "read"}
  /\ targets_pos \in [1..N -> Positions \cup {Junk}]
  /\ target_num \in 0..N
  /\ drone_pos \in Positions
  /\ layout \in Layouts
  /\ frame \in 0..(N + 1)
  /\ to_decrease \in BOOLEAN
  /\ awards \in Nat
  /\ targets_arr \in [1..N -> Positions \cup {Junk}]
  /\ targets_num \in Int /\ targets_num <= N

Init ==
  /\ pipe = [p \in PipeNames |-> <<>>]
  /\ to_write = <<>>
  /\ target_pc = "send"
  /\ targets_pos = [i \in 1..N |-> Junk]
  /\ target_num = 0
  /\ drone_pos = Origin
  /\ layout \in Layouts
  /\ frame = 0
  /\ to_decrease = FALSE
  /\ awards = 0
  /\ targets_arr = [i \in 1..N |-> Junk]
  /\ targets_num = 0

----------------------------------------------------------------------------
(* Pipes and arrays *)

HasRoom(p) == Len(pipe[p]) < Cap[p]

Sent(p, m) == [pipe EXCEPT ![p] = Append(@, m)]

Received(p) == [pipe EXCEPT ![p] = Tail(@)]

\* Shifts the entries after index one place down; entry n keeps its value.
remove_target(index, arr, n) ==
  [i \in 1..N |-> IF i \in index..(n - 1) THEN arr[i + 1] ELSE arr[i]]

----------------------------------------------------------------------------
(* target.c *)

\* A new random set, T[10]x,y|x,y|..., goes to the server.
TargetSend ==
  /\ target_pc = "send"
  /\ HasRoom("target_server")
  /\ \E s \in TargetSets : pipe' = Sent("target_server", [type |-> "T", set |-> s])
  /\ target_pc' = "read"
  /\ UNCHANGED <<to_write, mapVars, droneVars>>

\* The blocking Read returns the GE that asks for the next set.
TargetRead ==
  /\ target_pc = "read"
  /\ pipe["server_target"] # <<>>
  /\ pipe' = Received("server_target")
  /\ target_pc' = "send"
  /\ UNCHANGED <<to_write, mapVars, droneVars>>

----------------------------------------------------------------------------
(* server.c: one branch of the select loop, then its Write calls in order *)

\* The drone reported a new position: forwarded to the map.  The drone's
\* dynamics are left open, any position may come at any time.
ServerPosition ==
  /\ to_write = <<>>
  /\ \E p \in Positions :
       to_write' = <<[to |-> "server_map", msg |-> [type |-> "D", pos |-> p]]>>
  /\ UNCHANGED <<pipe, target_pc, mapVars, droneVars>>

\* A hit is passed on to the drone, a game end to the target process.
ServerFromMap ==
  /\ to_write = <<>>
  /\ pipe["map_server"] # <<>>
  /\ LET m == Head(pipe["map_server"])
         dest == IF m.type = "GE" THEN "server_target" ELSE "server_drone"
     IN  to_write' = <<[to |-> dest, msg |-> m]>>
  /\ pipe' = Received("map_server")
  /\ UNCHANGED <<target_pc, mapVars, droneVars>>

\* A new set is passed on to the map first and to the drone next.
ServerFromTarget ==
  /\ to_write = <<>>
  /\ pipe["target_server"] # <<>>
  /\ LET m == Head(pipe["target_server"])
     IN  to_write' = <<[to |-> "server_map", msg |-> m],
                       [to |-> "server_drone", msg |-> m]>>
  /\ pipe' = Received("target_server")
  /\ UNCHANGED <<target_pc, mapVars, droneVars>>

\* The next Write of the branch; it blocks the server while the pipe is full.
ServerWrite ==
  /\ to_write # <<>>
  /\ LET w == Head(to_write)
     IN  /\ HasRoom(w.to)
         /\ pipe' = Sent(w.to, w.msg)
  /\ to_write' = Tail(to_write)
  /\ UNCHANGED <<target_pc, mapVars, droneVars>>

----------------------------------------------------------------------------
(* map.c *)

BeginFrame ==
  /\ frame' = 1
  /\ layout' \in Layouts
  /\ to_decrease' = FALSE

\* Select reports a message: it is read and a frame starts.
MapRead ==
  /\ frame = 0
  /\ pipe["server_map"] # <<>>
  /\ LET m == Head(pipe["server_map"])
     IN  \/ /\ m.type = "D"
            /\ drone_pos' = m.pos
            /\ UNCHANGED <<targets_pos, target_num, awards>>
         \/ /\ m.type = "T"
            /\ targets_pos' = m.set
            /\ target_num' = N
            /\ awards' = 0
            /\ UNCHANGED drone_pos
  /\ pipe' = Received("server_map")
  /\ BeginFrame
  /\ UNCHANGED <<to_write, target_pc, droneVars>>

\* Select timed out: the frame is redrawn, possibly in a resized window.
MapTimeout ==
  /\ frame = 0
  /\ pipe["server_map"] = <<>>
  /\ BeginFrame
  /\ UNCHANGED <<pipe, to_write, target_pc, targets_pos, target_num, drone_pos,
                 awards, droneVars>>

\* A target lands on the drone's cell: find_spot never moves one there, and
\* one that starts there is never moved, so a hit is an equality of cells.
IsHit(i) == layout[targets_pos[i]] = layout[drone_pos]

\* The report names the entry as it is before the removal.
HitReport_AfterRemoval(i) ==
  [type |-> "TH", idx |-> i, pos |-> remove_target(i, targets_pos, target_num)[i]]
HitReport(i) == [type |-> "TH", idx |-> i, pos |-> targets_pos[i]]

\* Entry frame is hit: scored, removed from the array and reported.  The loop
\* bound and the loop index stay as they are.
MapHit ==
  /\ frame \in 1..target_num
  /\ IsHit(frame)
  /\ HasRoom("map_server")
  /\ awards' = awards + 1
  /\ pipe' = Sent("map_server", HitReport(frame))
  /\ targets_pos' = remove_target(frame, targets_pos, target_num)
  /\ to_decrease' = TRUE
  /\ frame' = frame + 1
  /\ UNCHANGED <<to_write, target_pc, target_num, drone_pos, layout, droneVars>>

\* Entry frame is drawn on a free cell away from the drone.
MapDraw ==
  /\ frame \in 1..target_num
  /\ ~IsHit(frame)
  /\ frame' = frame + 1
  /\ UNCHANGED <<pipe, to_write, target_pc, targets_pos, target_num, drone_pos,
                 layout, to_decrease, awards, droneVars>>

\* The entries in play: a frame that hits anything lowers the count by one.
Left_HitOrNot == target_num - 1
Left_Unlowered == target_num
Left == IF to_decrease THEN target_num - 1 ELSE target_num

\* if (!--target_num)
SetCleared_OneEarly == to_decrease /\ Left <= 1
SetCleared_PostDecrement == to_decrease /\ target_num = 0
SetCleared == to_decrease /\ Left = 0

\* After the loop one target less is left if any was hit; at zero the map asks
\* for a new set.
MapEndFrame ==
  /\ frame = target_num + 1
  /\ target_num' = Left
  /\ \/ /\ SetCleared
        /\ HasRoom("map_server")
        /\ pipe' = Sent("map_server", [type |-> "GE"])
     \/ /\ ~SetCleared
        /\ UNCHANGED pipe
  /\ frame' = 0
  /\ to_decrease' = FALSE
  /\ UNCHANGED <<to_write, target_pc, targets_pos, drone_pos, layout, awards,
                 droneVars>>

----------------------------------------------------------------------------
(* drone.c *)

Drone == [arr |-> targets_arr, num |-> targets_num]

Matches(m, arr) == arr[m.idx] = m.pos

\* What message m makes of the array and its count: a new set replaces them, a
\* hit whose index and position agree with the array removes that entry, any
\* other hit is only logged.
Applied_KeepsCount(m, d) ==
  CASE m.type = "T" -> [arr |-> m.set, num |-> N]
    [] m.type = "TH" /\ Matches(m, d.arr) ->
         [arr |-> remove_target(m.idx, d.arr, d.num), num |-> d.num]
    [] OTHER -> d
Applied(m, d) ==
  CASE m.type = "T" -> [arr |-> m.set, num |-> N]
    [] m.type = "TH" /\ Matches(m, d.arr) ->
         [arr |-> remove_target(m.idx, d.arr, d.num), num |-> d.num - 1]
    [] OTHER -> d

DroneRead ==
  /\ pipe["server_drone"] # <<>>
  /\ LET d == Applied(Head(pipe["server_drone"]), Drone)
     IN  targets_arr' = d.arr /\ targets_num' = d.num
  /\ pipe' = Received("server_drone")
  /\ UNCHANGED <<to_write, target_pc, mapVars>>

----------------------------------------------------------------------------

Next ==
  \/ TargetSend \/ TargetRead
  \/ ServerPosition \/ ServerFromMap \/ ServerFromTarget \/ ServerWrite
  \/ MapRead \/ MapTimeout \/ MapHit \/ MapDraw \/ MapEndFrame
  \/ DroneRead

Spec == Init /\ [][Next]_vars

\* Every process keeps running its loop.  A select pass serves every ready
\* descriptor, so none of the server's sources is postponed for ever.
Fairness ==
  /\ WF_vars(TargetSend) /\ WF_vars(TargetRead)
  /\ SF_vars(ServerFromMap) /\ SF_vars(ServerFromTarget)
  /\ WF_vars(ServerWrite)
  /\ WF_vars(MapRead) /\ WF_vars(MapHit \/ MapDraw) /\ WF_vars(MapEndFrame)
  /\ WF_vars(DroneRead)

FairSpec == Spec /\ Fairness

----------------------------------------------------------------------------
(* What must be true *)

RangeOf(arr, n) == {arr[i] : i \in 1..n}

Types(queue) == {queue[i].type : i \in 1..Len(queue)}

\* A new set reaches the map only after every target of the one before was hit
\* and every report about it left the pipe: map.c overwrites the array and its
\* count without looking at them (map.c:293-301).
FreshSetOnlyWhenCleared ==
  "T" \in Types(pipe["server_map"]) => target_num = 0 /\ pipe["map_server"] = <<>>

\* The map has room for its next report whenever it may write one, so it never
\* blocks in Write while the server is blocked writing to it (map.c:374, 389).
MapWriteNeverBlocks ==
  frame > 0 /\ target_num > 0 => HasRoom("map_server")

\* Every target is worth one increment of the score: between frames, what was
\* scored of the set in play and what is left of it make N (map.c:354-366, 387).
ScoredOnce ==
  frame = 0 /\ target_num > 0 => awards + target_num = N

\* The reports in the queue from the map; a GE can only be the last message.
Hits(queue) ==
  IF queue # <<>> /\ queue[Len(queue)].type = "GE"
  THEN SubSeq(queue, 1, Len(queue) - 1) ELSE queue

\* What the server has yet to write to the drone; it comes last in its branch.
Writing ==
  IF to_write = <<>> THEN <<>>
  ELSE LET w == to_write[Len(to_write)]
       IN  IF w.to = "server_drone" THEN <<w.msg>> ELSE <<>>

\* The messages under way to the drone in the order it will read them.
OnTheWay == pipe["server_drone"] \o Writing \o Hits(pipe["map_server"])

\* What becomes of array and count d as the messages are applied in turn.
Heard(d, msgs) ==
  LET after[k \in 0..Len(msgs)] ==
        IF k = 0 THEN d ELSE Applied(msgs[k], after[k - 1])
  IN  after

\* The drone's array and count once it has applied the messages.
DroneAfter(msgs) == Heard(Drone, msgs)[Len(msgs)]

\* The set on its way to the map, if any, or else the targets it has left.
Coming ==
  {m \in TMsg :
     \/ \E i \in 1..Len(to_write) : to_write[i] = [to |-> "server_map", msg |-> m]
     \/ \E i \in 1..Len(pipe["server_map"]) : pipe["server_map"][i] = m}

InPlay ==
  IF Coming = {} THEN [arr |-> targets_pos, num |-> Left]
  ELSE [arr |-> (CHOOSE m \in Coming : TRUE).set, num |-> N]

\* When the messages under way have been applied, the drone is attracted by
\* exactly the targets the map shows, under the same indices: the purpose of the
\* TH messages (server.c:147-150, drone.c:241-246).
DroneAgrees ==
  LET d == DroneAfter(OnTheWay)
  IN  /\ d.num = InPlay.num
      /\ \A i \in 1..InPlay.num : d.arr[i] = InPlay.arr[i]

\* No report is ever dropped by the drone as mismatched (drone.c:228-239).
NoMismatch ==
  \A m \in THMsg :
    pipe["server_drone"] # <<>> /\ Head(pipe["server_drone"]) = m
      => Matches(m, targets_arr) /\ m.idx <= targets_num

\* A used-up set is replaced: GE goes round by the server and the target
\* process and a full set comes back (map.c:386-390, target.c:94-97).
NewSetArrives == (target_num = 0) ~> (target_num = N)

\* A target that was reported hit stops attracting the drone.
HitsReachDrone ==
  \A p \in Positions :
    (\E i \in 1..Len(pipe["map_server"]) :
        pipe["map_server"][i].type = "TH" /\ pipe["map_server"][i].pos = p)
      ~> p \notin RangeOf(targets_arr, targets_num)

(***************************************************************************)
(* The abstract game.  A set is in play from the moment target.c sends it; *)
(* the news are the sets that the drone will hold after each message.      *)
(***************************************************************************)
AllNews == OnTheWay \o pipe["target_server"]

SetAfter(k) ==
  LET d == DroneAfter(SubSeq(AllNews, 1, k)) IN RangeOf(d.arr, d.num)

InGame ==
  IF pipe["target_server"] # <<>> THEN RangeOf(pipe["target_server"][1].set, N)
  ELSE RangeOf(InPlay.arr, InPlay.num)

News == [k \in 1..Len(AllNews) |-> SetAfter(k)]

Game == INSTANCE TargetGame WITH
  left <- InGame, news <- News, told <- RangeOf(targets_arr, targets_num)

\* The processes play the abstract game: one target at a time, a new set only
\* when none is left, and the drone is told of every change in order.
PlaysGame == Game!Spec
============================================================================
