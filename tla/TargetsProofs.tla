--------------------------- MODULE TargetsProofs ---------------------------
(***************************************************************************)
(* Theorems about Targets for every N, every window, every target set and  *)
(* every pipe capacity that the assumptions of Targets allow.              *)
(***************************************************************************)
EXTENDS Targets, SequenceTheorems, TLAPS

----------------------------------------------------------------------------
(* Type correctness.  An entry in play is a position and never junk, which *)
(* is what makes the report of a hit a proper message.                     *)

Filled == \A i \in 1..target_num : targets_pos[i] \in Positions

FrameOK ==
  /\ frame <= target_num + 1
  /\ to_decrease => frame > 0 /\ target_num > 0

TypeInv == TypeOK /\ Filled /\ FrameOK

\* A write to a pipe appends a message and touches no other pipe.
LEMMA SentType ==
  ASSUME TypeOK, NEW p \in PipeNames, NEW m \in Msg
  PROVE  /\ Sent(p, m) \in [PipeNames -> Seq(Msg)]
         /\ Sent(p, m)[p] = Append(pipe[p], m)
         /\ \A q \in PipeNames : q # p => Sent(p, m)[q] = pipe[q]
BY DEF TypeOK, Sent

\* A read from a pipe drops its oldest message and touches no other pipe.
LEMMA ReceivedType ==
  ASSUME TypeOK, NEW p \in PipeNames, pipe[p] # <<>>
  PROVE  /\ Head(pipe[p]) \in Msg
         /\ Received(p) \in [PipeNames -> Seq(Msg)]
         /\ Received(p)[p] = Tail(pipe[p])
         /\ \A q \in PipeNames : q # p => Received(p)[q] = pipe[q]
<1>1. pipe[p] \in Seq(Msg)
  BY DEF TypeOK
<1>2. Head(pipe[p]) \in Msg /\ Tail(pipe[p]) \in Seq(Msg)
  BY <1>1, HeadTailProperties
<1> QED
  BY <1>2 DEF TypeOK, Received

\* Of a message the type tells the other fields.
LEMMA MsgFields ==
  ASSUME NEW m \in Msg
  PROVE  /\ m.type \in {"D", "T", "TH", "GE"}
         /\ m.type = "D" => m.pos \in Positions
         /\ m.type = "T" => m.set \in TargetSets
         /\ m.type = "TH" => m.idx \in 1..N /\ m.pos \in Positions
BY DEF Msg, DMsg, TMsg, THMsg, GEMsg

\* Removing an entry keeps an array an array and leaves positions in the
\* places still in play.
LEMMA RemoveType ==
  ASSUME NEW index \in 1..N, NEW n \in Int, n <= N,
         NEW arr \in [1..N -> Positions \cup {Junk}]
  PROVE  /\ remove_target(index, arr, n) \in [1..N -> Positions \cup {Junk}]
         /\ (\A i \in 1..n : arr[i] \in Positions)
              => \A i \in 1..n : remove_target(index, arr, n)[i] \in Positions
<1> DEFINE new == remove_target(index, arr, n)
<1>1. \A i \in 1..N : i \in index..(n - 1) => i + 1 \in 1..N /\ i + 1 <= n
  BY NAssumption
<1>2. \A i \in 1..N : new[i] = IF i \in index..(n - 1) THEN arr[i + 1] ELSE arr[i]
  BY DEF remove_target
<1>3. new \in [1..N -> Positions \cup {Junk}]
  BY <1>1 DEF remove_target
<1>4. ASSUME \A i \in 1..n : arr[i] \in Positions, NEW i \in 1..n
      PROVE  new[i] \in Positions
  <2>1. i \in 1..N
    BY NAssumption
  <2>2. CASE i \in index..(n - 1)
    <3>1. i + 1 \in 1..n
      BY <2>2
    <3> QED
      BY <1>2, <1>4, <2>1, <2>2, <3>1
  <2>3. CASE i \notin index..(n - 1)
    BY <1>2, <1>4, <2>1, <2>3
  <2> QED
    BY <2>2, <2>3
<1> QED
  BY <1>3, <1>4

LEMMA InitTypeInv == Init => TypeInv
<1> SUFFICES ASSUME Init PROVE TypeInv
  OBVIOUS
<1>1. pipe \in [PipeNames -> Seq(Msg)] /\ to_write \in Seq([to : PipeNames, msg : Msg])
  BY DEF Init
<1>2. /\ targets_pos \in [1..N -> Positions \cup {Junk}]
      /\ targets_arr \in [1..N -> Positions \cup {Junk}]
  BY DEF Init
<1>3. to_decrease \in BOOLEAN
  BY Zenon DEF Init
<1>4. TypeOK
  BY <1>1, <1>2, <1>3, NAssumption, PositionAssumption DEF Init, TypeOK
<1> QED
  BY <1>4 DEF Init, TypeInv, Filled, FrameOK

LEMMA NextTypeInv == TypeInv /\ [Next]_vars => TypeInv'
<1> SUFFICES ASSUME TypeInv, [Next]_vars PROVE TypeInv'
  OBVIOUS
<1> USE NAssumption, PositionAssumption, LayoutAssumption, TargetSetAssumption
<1> USE DEF TypeInv
<1>p. PipeNames = {"server_map", "map_server", "server_drone",
                   "target_server", "server_target"}
  BY DEF PipeNames
<1>1. CASE TargetSend
  <2>1. PICK s \in TargetSets :
          pipe' = Sent("target_server", [type |-> "T", set |-> s])
    BY <1>1 DEF TargetSend
  <2>2. [type |-> "T", set |-> s] \in Msg
    BY DEF Msg, TMsg
  <2>3. pipe' \in [PipeNames -> Seq(Msg)]
    BY <2>1, <2>2, <1>p, SentType
  <2> QED
    BY <1>1, <2>3 DEF TargetSend, TypeOK, Filled, FrameOK, mapVars, droneVars
<1>2. CASE TargetRead
  <2>1. pipe' \in [PipeNames -> Seq(Msg)]
    BY <1>2, <1>p, ReceivedType DEF TargetRead
  <2> QED
    BY <1>2, <2>1 DEF TargetRead, TypeOK, Filled, FrameOK, mapVars, droneVars
<1>3. CASE ServerPosition
  <2>1. to_write' \in Seq([to : PipeNames, msg : Msg])
    BY <1>3, <1>p DEF ServerPosition, Msg, DMsg
  <2> QED
    BY <1>3, <2>1 DEF ServerPosition, TypeOK, Filled, FrameOK, mapVars, droneVars
<1>4. CASE ServerFromMap
  <2>1. Head(pipe["map_server"]) \in Msg /\ pipe' \in [PipeNames -> Seq(Msg)]
    BY <1>4, <1>p, ReceivedType DEF ServerFromMap
  <2>2. to_write' \in Seq([to : PipeNames, msg : Msg])
    BY <1>4, <2>1, <1>p DEF ServerFromMap
  <2> QED
    BY <1>4, <2>1, <2>2 DEF ServerFromMap, TypeOK, Filled, FrameOK, mapVars, droneVars
<1>5. CASE ServerFromTarget
  <2>1. Head(pipe["target_server"]) \in Msg /\ pipe' \in [PipeNames -> Seq(Msg)]
    BY <1>5, <1>p, ReceivedType DEF ServerFromTarget
  <2>2. to_write' \in Seq([to : PipeNames, msg : Msg])
    BY <1>5, <2>1, <1>p DEF ServerFromTarget
  <2> QED
    BY <1>5, <2>1, <2>2 DEF ServerFromTarget, TypeOK, Filled, FrameOK, mapVars, droneVars
<1>6. CASE ServerWrite
  <2>1. to_write \in Seq([to : PipeNames, msg : Msg]) /\ to_write # <<>>
    BY <1>6 DEF ServerWrite, TypeOK
  <2>2. /\ Head(to_write) \in [to : PipeNames, msg : Msg]
        /\ Tail(to_write) \in Seq([to : PipeNames, msg : Msg])
    BY <2>1, HeadTailProperties
  <2>3. pipe' \in [PipeNames -> Seq(Msg)]
    BY <1>6, <2>2, SentType DEF ServerWrite
  <2> QED
    BY <1>6, <2>2, <2>3 DEF ServerWrite, TypeOK, Filled, FrameOK, mapVars, droneVars
<1>7. CASE MapRead
  <2>1. Head(pipe["server_map"]) \in Msg /\ pipe' \in [PipeNames -> Seq(Msg)]
    BY <1>7, <1>p, ReceivedType DEF MapRead
  <2>b. to_decrease' \in BOOLEAN
    BY <1>7, Zenon DEF MapRead, BeginFrame
  <2>2. CASE Head(pipe["server_map"]).type = "D"
    BY <1>7, <2>1, <2>b, <2>2, MsgFields
       DEF MapRead, BeginFrame, TypeOK, Filled, FrameOK, droneVars
  <2>3. CASE Head(pipe["server_map"]).type = "T"
    <3>1. Head(pipe["server_map"]).set \in [1..N -> Positions]
      BY <2>1, <2>3, MsgFields
    <3> QED
      BY <1>7, <2>1, <2>b, <2>3, <3>1
         DEF MapRead, BeginFrame, TypeOK, Filled, FrameOK, droneVars
  <2> QED
    BY <1>7, <2>2, <2>3 DEF MapRead
<1>8. CASE MapTimeout
  <2>1. to_decrease' \in BOOLEAN
    BY <1>8, Zenon DEF MapTimeout, BeginFrame
  <2> QED
    BY <1>8, <2>1 DEF MapTimeout, BeginFrame, TypeOK, Filled, FrameOK, droneVars
<1>9. CASE MapHit
  <2>1. frame \in 1..target_num /\ target_num \in 0..N /\ frame \in 1..N
    BY <1>9 DEF MapHit, TypeOK
  <2>2. HitReport(frame) \in Msg
    BY <2>1 DEF HitReport, Filled, Msg, THMsg
  <2>3. pipe' \in [PipeNames -> Seq(Msg)]
    BY <1>9, <2>2, <1>p, SentType DEF MapHit
  <2>4. targets_pos' \in [1..N -> Positions \cup {Junk}] /\ Filled'
    <3>1. target_num \in Int /\ target_num <= N
      BY <2>1
    <3>2. targets_pos \in [1..N -> Positions \cup {Junk}]
      BY DEF TypeOK
    <3>3. /\ remove_target(frame, targets_pos, target_num)
               \in [1..N -> Positions \cup {Junk}]
          /\ \A i \in 1..target_num :
               remove_target(frame, targets_pos, target_num)[i] \in Positions
      BY <2>1, <3>1, <3>2, RemoveType DEF Filled
    <3> QED
      BY <1>9, <3>3 DEF MapHit, Filled
  <2> QED
    BY <1>9, <2>1, <2>3, <2>4 DEF MapHit, TypeOK, FrameOK, droneVars
<1>10. CASE MapDraw
  BY <1>10 DEF MapDraw, TypeOK, Filled, FrameOK, droneVars
<1>11. CASE MapEndFrame
  <2>1. pipe' \in [PipeNames -> Seq(Msg)]
    <3>1. [type |-> "GE"] \in Msg
      BY DEF Msg, GEMsg
    <3>2. pipe' = Sent("map_server", [type |-> "GE"]) \/ pipe' = pipe
      BY <1>11, Zenon DEF MapEndFrame
    <3>3. pipe \in [PipeNames -> Seq(Msg)]
      BY DEF TypeOK
    <3>4. Sent("map_server", [type |-> "GE"]) \in [PipeNames -> Seq(Msg)]
      BY <3>1, <1>p, SentType
    <3> QED
      BY <3>2, <3>3, <3>4
  <2>2. target_num' \in 0..target_num
    BY <1>11 DEF MapEndFrame, Left, TypeOK, FrameOK
  <2>3. to_decrease' \in BOOLEAN /\ ~to_decrease'
    BY <1>11, Zenon DEF MapEndFrame
  <2> QED
    BY <1>11, <2>1, <2>2, <2>3 DEF MapEndFrame, TypeOK, Filled, FrameOK, droneVars
<1>12. CASE DroneRead
  <2> DEFINE m == Head(pipe["server_drone"])
             d == [arr |-> targets_arr, num |-> targets_num]
  <2>1. m \in Msg /\ pipe' \in [PipeNames -> Seq(Msg)]
    BY <1>12, <1>p, ReceivedType DEF DroneRead
  <2>2. m.type = "TH" =>
          remove_target(m.idx, targets_arr, targets_num)
            \in [1..N -> Positions \cup {Junk}]
    BY <2>1, MsgFields, RemoveType DEF TypeOK
  <2>3. /\ Applied(m, d).arr \in [1..N -> Positions \cup {Junk}]
        /\ Applied(m, d).num \in Int /\ Applied(m, d).num <= N
    BY <2>1, <2>2, MsgFields DEF Applied, TypeOK
  <2> QED
    BY <1>12, <2>1, <2>3 DEF DroneRead, Drone, TypeOK, Filled, FrameOK, mapVars
<1>13. CASE UNCHANGED vars
  BY <1>13 DEF vars, mapVars, droneVars, TypeOK, Filled, FrameOK
<1> QED
  BY <1>1, <1>2, <1>3, <1>4, <1>5, <1>6, <1>7, <1>8, <1>9, <1>10, <1>11,
     <1>12, <1>13 DEF Next

\* Every variable of the target game always holds a value of its type: the
\* map's count stays between 0 and N and the drone's does not exceed it (map.c:213-220).
THEOREM TypeCorrect == Spec => []TypeOK
<1>1. TypeInv => TypeOK
  BY DEF TypeInv
<1> QED
  BY InitTypeInv, NextTypeInv, <1>1, PTL DEF Spec

----------------------------------------------------------------------------
(* The round of the sets.  At any time at most one of eight places holds   *)
(* the right to go on: the next set, on its way from target.c to map.c;    *)
(* the set in play; or the game end on its way back.  That is why a set    *)
(* never overtakes the game end that asked for it.                         *)

Asked       == target_pc = "send"
SetSent     == pipe["target_server"] # <<>>
SetRelayed  == /\ to_write # <<>>
               /\ Head(to_write).to = "server_map"
               /\ Head(to_write).msg.type = "T"
HasT(q)     == \E i \in 1..Len(q) : q[i].type = "T"
SetComing   == HasT(pipe["server_map"])
Playing     == target_num > 0
HasGE(q)    == \E i \in 1..Len(q) : q[i].type = "GE"
EndSent     == HasGE(pipe["map_server"])
EndRelayed  == to_write # <<>> /\ Head(to_write).msg.type = "GE"
EndComing   == pipe["server_target"] # <<>>

One(b) == IF b THEN 1 ELSE 0

OneHolder ==
  One(Asked) + One(SetSent) + One(SetRelayed) + One(SetComing)
    + One(Playing) + One(EndSent) + One(EndRelayed) + One(EndComing) <= 1

\* What each queue holds.
SetQueueOK(q) == Len(q) <= 1 /\ \A i \in 1..Len(q) : q[i].type = "T"

MapQueueOK(q) ==
  /\ \A i \in 1..Len(q) : q[i].type \in {"D", "T"}
  /\ \A i, j \in 1..Len(q) : q[i].type = "T" /\ q[j].type = "T" => i = j

ReportQueueOK(q) ==
  \A i \in 1..Len(q) : q[i].type = "TH" \/ (q[i].type = "GE" /\ i = Len(q))

Write1(p, m) == <<[to |-> p, msg |-> m]>>

ToWriteOK ==
  \/ to_write = <<>>
  \/ \E m \in Msg :
       \/ /\ m.type = "T"
          /\ to_write = <<[to |-> "server_map", msg |-> m],
                          [to |-> "server_drone", msg |-> m]>>
       \/ m.type \in {"T", "TH"} /\ to_write = Write1("server_drone", m)
       \/ m.type = "D" /\ to_write = Write1("server_map", m)
       \/ m.type = "GE" /\ to_write = Write1("server_target", m)

QueuesOK ==
  /\ SetQueueOK(pipe["target_server"])
  /\ MapQueueOK(pipe["server_map"])
  /\ ReportQueueOK(pipe["map_server"])
  /\ Len(pipe["server_target"]) <= 1
  /\ ToWriteOK
  /\ pipe["map_server"] # <<>> => Playing \/ EndSent

(***************************************************************************)
(* The reports a map has still to write for the set in play are bounded:   *)
(* each frame that hits anything lowers the count, and a frame of n        *)
(* entries reports at most n hits, two entries on one cell included.       *)
(***************************************************************************)
Reports == Len(pipe["map_server"]) - One(EndSent)

RoomOK ==
  /\ ~to_decrease => 2 * Reports + target_num * (target_num + 1) <= N * (N + 1)
  /\ to_decrease =>
       2 * (Reports + target_num - frame + 1) + target_num * (target_num - 1)
         <= N * (N + 1)

RoundInv == TypeInv /\ QueuesOK /\ OneHolder

IndInv == RoundInv /\ RoomOK

\* What Append and Tail do to a queue, entry by entry.
LEMMA AppendFacts ==
  ASSUME NEW q \in Seq(Msg), NEW m \in Msg
  PROVE  /\ Append(q, m) \in Seq(Msg) /\ Append(q, m) # <<>>
         /\ Len(q) \in Nat /\ Len(Append(q, m)) = Len(q) + 1
         /\ \A i \in 1..Len(q) : Append(q, m)[i] = q[i]
         /\ Append(q, m)[Len(q) + 1] = m
         /\ \A i \in 1..(Len(q) + 1) : i \in 1..Len(q) \/ i = Len(q) + 1
<1>1. Append(q, m) \in Seq(Msg) /\ Len(q) \in Nat /\ Len(Append(q, m)) = Len(q) + 1
  OBVIOUS
<1>2. Append(q, m)[Len(q) + 1] = m /\ \A i \in 1..Len(q) : Append(q, m)[i] = q[i]
  OBVIOUS
<1>3. Append(q, m) # <<>>
  BY <1>1, EmptySeq
<1> QED
  BY <1>1, <1>2, <1>3

LEMMA TailFacts ==
  ASSUME NEW q \in Seq(Msg), q # <<>>
  PROVE  /\ Head(q) = q[1] /\ Head(q) \in Msg /\ Tail(q) \in Seq(Msg)
         /\ Len(q) \in Nat /\ Len(q) > 0 /\ Len(Tail(q)) = Len(q) - 1
         /\ \A i \in 1..Len(Tail(q)) : Tail(q)[i] = q[i + 1] /\ i + 1 \in 1..Len(q)
         /\ \A i \in 1..Len(q) : i = 1 \/ i - 1 \in 1..Len(Tail(q))
BY HeadTailProperties

\* A queue of one message is empty after it is read.
LEMMA ShortQueue ==
  ASSUME NEW q \in Seq(Msg), q # <<>>, Len(q) <= 1
  PROVE  Tail(q) = <<>>
<1>1. Len(q) \in Nat /\ Len(q) > 0 /\ Tail(q) \in Seq(Msg) /\ Len(Tail(q)) = Len(q) - 1
  BY TailFacts
<1>2. Len(q) = 1
  BY <1>1
<1>3. Len(Tail(q)) = 0
  BY <1>1, <1>2
<1>4. ASSUME Tail(q) # <<>> PROVE FALSE
  BY <1>1, <1>3, <1>4, EmptySeq
<1> QED
  BY <1>4

\* The map's queue keeps at most one set when positions come, or one first set.
LEMMA MapQueueAppend ==
  ASSUME NEW q \in Seq(Msg), MapQueueOK(q), NEW m \in Msg,
         m.type = "D" \/ (m.type = "T" /\ ~HasT(q))
  PROVE  /\ MapQueueOK(Append(q, m))
         /\ HasT(Append(q, m)) <=> HasT(q) \/ m.type = "T"
BY AppendFacts DEF MapQueueOK, HasT

LEMMA MapQueueTail ==
  ASSUME NEW q \in Seq(Msg), MapQueueOK(q), q # <<>>
  PROVE  /\ Head(q).type \in {"D", "T"}
         /\ Head(q).type = "T" => HasT(q)
         /\ MapQueueOK(Tail(q))
         /\ HasT(Tail(q)) <=> HasT(q) /\ Head(q).type # "T"
<1>1. Head(q).type \in {"D", "T"} /\ (Head(q).type = "T" => HasT(q))
  BY TailFacts DEF MapQueueOK, HasT
<1>2. MapQueueOK(Tail(q))
  BY TailFacts DEF MapQueueOK
<1>3. HasT(Tail(q)) => HasT(q) /\ Head(q).type # "T"
  BY TailFacts DEF MapQueueOK, HasT
<1>4. HasT(q) /\ Head(q).type # "T" => HasT(Tail(q))
  <2>1. SUFFICES ASSUME Head(q).type # "T", NEW i \in 1..Len(q), q[i].type = "T"
                 PROVE  HasT(Tail(q))
    BY DEF HasT
  <2>2. i - 1 \in 1..Len(Tail(q)) /\ Tail(q)[i - 1] = q[i]
    BY <2>1, TailFacts
  <2> QED
    BY <2>1, <2>2 DEF HasT
<1> QED
  BY <1>1, <1>2, <1>3, <1>4

\* In the queue of reports the game end comes last.
LEMMA ReportQueueAppend ==
  ASSUME NEW q \in Seq(Msg), ReportQueueOK(q), ~HasGE(q),
         NEW m \in Msg, m.type \in {"TH", "GE"}
  PROVE  /\ ReportQueueOK(Append(q, m))
         /\ HasGE(Append(q, m)) <=> m.type = "GE"
BY AppendFacts DEF ReportQueueOK, HasGE

LEMMA ReportQueueTail ==
  ASSUME NEW q \in Seq(Msg), ReportQueueOK(q), q # <<>>
  PROVE  /\ Head(q).type \in {"TH", "GE"}
         /\ Head(q).type = "GE" => HasGE(q) /\ Tail(q) = <<>>
         /\ ReportQueueOK(Tail(q))
         /\ HasGE(Tail(q)) <=> HasGE(q) /\ Head(q).type # "GE"
<1>1. Head(q).type \in {"TH", "GE"} /\ (Head(q).type = "GE" => HasGE(q))
  BY TailFacts DEF ReportQueueOK, HasGE
<1>2. Head(q).type = "GE" => Tail(q) = <<>>
  BY TailFacts, EmptySeq DEF ReportQueueOK
<1>3. ReportQueueOK(Tail(q))
  BY TailFacts DEF ReportQueueOK
<1>4. HasGE(Tail(q)) => HasGE(q) /\ Head(q).type # "GE"
  BY TailFacts DEF ReportQueueOK, HasGE
<1>5. HasGE(q) /\ Head(q).type # "GE" => HasGE(Tail(q))
  <2>1. SUFFICES ASSUME Head(q).type # "GE", NEW i \in 1..Len(q), q[i].type = "GE"
                 PROVE  HasGE(Tail(q))
    BY DEF HasGE
  <2>2. i - 1 \in 1..Len(Tail(q)) /\ Tail(q)[i - 1] = q[i]
    BY <2>1, TailFacts
  <2> QED
    BY <2>1, <2>2 DEF HasGE
<1> QED
  BY <1>1, <1>2, <1>3, <1>4, <1>5

LEMMA InitRound == Init => QueuesOK /\ OneHolder
<1> SUFFICES ASSUME Init PROVE QueuesOK /\ OneHolder
  OBVIOUS
<1>1. \A p \in PipeNames : pipe[p] = <<>>
  BY DEF Init
<1>2. QueuesOK
  BY <1>1 DEF Init, QueuesOK, SetQueueOK, MapQueueOK, ReportQueueOK, ToWriteOK,
              PipeNames
<1>3. /\ Asked /\ ~SetSent /\ ~SetRelayed /\ ~SetComing /\ ~Playing
      /\ ~EndSent /\ ~EndRelayed /\ ~EndComing
  BY <1>1 DEF Init, Asked, SetSent, SetRelayed, SetComing, Playing, EndSent,
              EndRelayed, EndComing, HasT, HasGE, PipeNames
<1> QED
  BY <1>2, <1>3 DEF OneHolder, One

LEMMA NextRound == RoundInv /\ [Next]_vars => QueuesOK' /\ OneHolder'
<1> SUFFICES ASSUME RoundInv, [Next]_vars PROVE QueuesOK' /\ OneHolder'
  OBVIOUS
<1>t. TypeOK /\ TypeInv /\ QueuesOK /\ OneHolder
  BY DEF RoundInv, TypeInv
<1>p. PipeNames = {"server_map", "map_server", "server_drone",
                   "target_server", "server_target"}
  BY DEF PipeNames
<1>s. \A p \in PipeNames : pipe[p] \in Seq(Msg)
  BY <1>t DEF TypeOK
<1>1. CASE TargetSend
  <2>1. PICK s \in TargetSets :
          pipe' = Sent("target_server", [type |-> "T", set |-> s])
    BY <1>1 DEF TargetSend
  <2> DEFINE m == [type |-> "T", set |-> s]
  <2>2. m \in Msg /\ m.type = "T"
    BY DEF Msg, TMsg
  <2>3. /\ pipe'["target_server"] = Append(pipe["target_server"], m)
        /\ \A q \in PipeNames : q # "target_server" => pipe'[q] = pipe[q]
    BY <1>t, <1>p, <2>1, <2>2, SentType
  <2>4. Asked /\ ~Asked' /\ ~SetSent
    BY <1>1, <1>t DEF TargetSend, Asked, OneHolder, One
  <2>5. pipe["target_server"] = <<>>
    BY <2>4 DEF SetSent
  <2>6. SetQueueOK(pipe'["target_server"]) /\ SetSent'
    BY <2>2, <2>3, <2>5 DEF SetQueueOK, SetSent
  <2>7. UNCHANGED <<SetRelayed, SetComing, Playing, EndSent, EndRelayed, EndComing,
                    ToWriteOK>>
    BY <1>1, <1>p, <2>3 DEF TargetSend, mapVars, SetRelayed, SetComing, Playing,
       EndSent, EndRelayed, EndComing, ToWriteOK
  <2>8. QueuesOK'
    BY <1>t, <1>p, <2>3, <2>6, <2>7 DEF QueuesOK
  <2> QED
    BY <1>t, <2>4, <2>6, <2>7, <2>8 DEF OneHolder, One
<1>2. CASE TargetRead
  <2>1. /\ pipe["server_target"] # <<>>
        /\ pipe'["server_target"] = Tail(pipe["server_target"])
        /\ \A q \in PipeNames : q # "server_target" => pipe'[q] = pipe[q]
    BY <1>2, <1>t, <1>p, ReceivedType DEF TargetRead
  <2>2. EndComing /\ Asked' /\ ~EndComing'
    <3>1. pipe["server_target"] \in Seq(Msg) /\ Len(pipe["server_target"]) <= 1
      BY <1>p, <1>s, <1>t DEF QueuesOK
    <3>2. Tail(pipe["server_target"]) = <<>>
      BY <2>1, <3>1, ShortQueue
    <3> QED
      BY <1>2, <2>1, <3>2 DEF TargetRead, EndComing, Asked
  <2>3. UNCHANGED <<SetSent, SetRelayed, SetComing, Playing, EndSent, EndRelayed,
                    ToWriteOK>>
    BY <1>2, <1>p, <2>1 DEF TargetRead, mapVars, SetSent, SetRelayed, SetComing,
       Playing, EndSent, EndRelayed, ToWriteOK
  <2>4. QueuesOK'
    <3>1. Len(pipe'["server_target"]) <= 1
      BY <2>2, EmptySeq DEF EndComing
    <3> QED
      BY <1>t, <1>p, <2>1, <2>3, <3>1 DEF QueuesOK
  <2> QED
    BY <1>t, <2>2, <2>3, <2>4 DEF OneHolder, One
<1>3. CASE ServerPosition
  <2>1. PICK p \in Positions :
          to_write' = <<[to |-> "server_map", msg |-> [type |-> "D", pos |-> p]]>>
    BY <1>3 DEF ServerPosition
  <2>2. ToWriteOK' /\ ~SetRelayed' /\ ~EndRelayed'
    <3>1. [type |-> "D", pos |-> p] \in Msg
      BY DEF Msg, DMsg
    <3>2. ToWriteOK'
      BY <2>1, <3>1 DEF ToWriteOK, Write1
    <3> QED
      BY <2>1, <3>2 DEF SetRelayed, EndRelayed
  <2>3. UNCHANGED <<Asked, SetSent, SetComing, Playing, EndSent, EndComing>>
    BY <1>3 DEF ServerPosition, mapVars, Asked, SetSent, SetComing, Playing, EndSent,
       EndComing
  <2>4. QueuesOK'
    BY <1>3, <1>t, <2>2, <2>3 DEF QueuesOK, ServerPosition
  <2> QED
    BY <1>t, <2>2, <2>3, <2>4 DEF OneHolder, One
<1>4. CASE ServerFromMap
  <2> DEFINE q == pipe["map_server"]
             m == Head(q)
  <2>1. /\ q \in Seq(Msg) /\ q # <<>> /\ m \in Msg /\ to_write = <<>>
        /\ pipe'["map_server"] = Tail(q)
        /\ \A r \in PipeNames : r # "map_server" => pipe'[r] = pipe[r]
    BY <1>4, <1>t, <1>p, <1>s, ReceivedType DEF ServerFromMap
  <2>2. ReportQueueOK(q) /\ (Playing \/ EndSent)
    BY <1>t, <2>1 DEF QueuesOK
  <2>3. /\ m.type \in {"TH", "GE"}
        /\ m.type = "GE" => EndSent /\ pipe'["map_server"] = <<>>
        /\ ReportQueueOK(pipe'["map_server"])
        /\ EndSent' <=> EndSent /\ m.type # "GE"
    BY <2>1, <2>2, ReportQueueTail DEF EndSent
  <2>4. UNCHANGED <<Asked, SetSent, SetComing, Playing, EndComing>>
    BY <1>4, <1>p, <2>1 DEF ServerFromMap, mapVars, Asked, SetSent, SetComing,
       Playing, EndComing
  <2>5. /\ ToWriteOK' /\ ~SetRelayed /\ ~SetRelayed' /\ ~EndRelayed
        /\ EndRelayed' <=> m.type = "GE"
    <3>1. to_write' = Write1(IF m.type = "GE" THEN "server_target"
                             ELSE "server_drone", m)
      BY <1>4 DEF ServerFromMap, Write1
    <3>2. ToWriteOK'
      BY <2>1, <2>3, <3>1 DEF ToWriteOK
    <3> QED
      BY <2>1, <2>3, <3>1, <3>2 DEF SetRelayed, EndRelayed, Write1
  <2>6. QueuesOK'
    BY <1>t, <1>p, <2>1, <2>2, <2>3, <2>4, <2>5 DEF QueuesOK
  <2> QED
    BY <1>t, <2>3, <2>4, <2>5, <2>6 DEF OneHolder, One
<1>5. CASE ServerFromTarget
  <2> DEFINE q == pipe["target_server"]
             m == Head(q)
  <2>1. /\ q \in Seq(Msg) /\ q # <<>> /\ m \in Msg /\ to_write = <<>>
        /\ pipe'["target_server"] = Tail(q)
        /\ \A r \in PipeNames : r # "target_server" => pipe'[r] = pipe[r]
    BY <1>5, <1>t, <1>p, <1>s, ReceivedType DEF ServerFromTarget
  <2>2. /\ m.type = "T" /\ SetSent /\ ~SetSent'
        /\ SetQueueOK(pipe'["target_server"])
    <3>1. Len(q) <= 1 /\ \A i \in 1..Len(q) : q[i].type = "T"
      BY <1>t DEF QueuesOK, SetQueueOK
    <3>2. /\ m = q[1] /\ Len(q) \in Nat /\ Len(q) > 0
          /\ Tail(q) \in Seq(Msg) /\ Len(Tail(q)) = Len(q) - 1
      BY <2>1, TailFacts
    <3>3. m.type = "T" /\ Tail(q) = <<>>
      BY <3>1, <3>2, EmptySeq
    <3>4. SetQueueOK(<<>>)
      BY EmptySeq DEF SetQueueOK
    <3> QED
      BY <2>1, <3>3, <3>4 DEF SetSent
  <2>3. UNCHANGED <<Asked, SetComing, Playing, EndSent, EndComing>>
    BY <1>5, <1>p, <2>1 DEF ServerFromTarget, mapVars, Asked, SetComing, Playing,
       EndSent, EndComing
  <2>4. ToWriteOK' /\ SetRelayed' /\ ~EndRelayed /\ ~EndRelayed'
    <3>1. to_write' = <<[to |-> "server_map", msg |-> m],
                        [to |-> "server_drone", msg |-> m]>>
      BY <1>5 DEF ServerFromTarget
    <3>2. ToWriteOK'
      BY <2>1, <2>2, <3>1 DEF ToWriteOK
    <3> QED
      BY <2>1, <2>2, <3>1, <3>2 DEF SetRelayed, EndRelayed
  <2>5. QueuesOK'
    BY <1>t, <1>p, <2>1, <2>2, <2>3, <2>4 DEF QueuesOK
  <2> QED
    BY <1>t, <2>2, <2>3, <2>4, <2>5 DEF OneHolder, One
<1>6. CASE ServerWrite
  <2>1. to_write # <<>> /\ UNCHANGED <<Asked, Playing>>
    BY <1>6 DEF ServerWrite, mapVars, Asked, Playing
  <2>2. ASSUME NEW m \in Msg, m.type = "T",
               to_write = <<[to |-> "server_map", msg |-> m],
                            [to |-> "server_drone", msg |-> m]>>
        PROVE  QueuesOK' /\ OneHolder'
    <3>1. /\ pipe'["server_map"] = Append(pipe["server_map"], m)
          /\ \A r \in PipeNames : r # "server_map" => pipe'[r] = pipe[r]
          /\ to_write' = Write1("server_drone", m)
      BY <1>6, <1>t, <1>p, <2>2, SentType DEF ServerWrite, Write1
    <3>2. SetRelayed /\ ~EndRelayed /\ ~SetRelayed' /\ ~EndRelayed'
      BY <2>2, <3>1 DEF SetRelayed, EndRelayed, Write1
    <3>3. ~SetComing
      BY <1>t, <3>2 DEF OneHolder, One
    <3>4. MapQueueOK(pipe'["server_map"]) /\ SetComing'
      <4>1. pipe["server_map"] \in Seq(Msg) /\ MapQueueOK(pipe["server_map"])
        BY <1>p, <1>s, <1>t DEF QueuesOK
      <4> QED
        BY <2>2, <3>1, <3>3, <4>1, MapQueueAppend DEF SetComing
    <3>5. UNCHANGED <<SetSent, EndSent, EndComing>>
      BY <1>p, <3>1 DEF SetSent, EndSent, EndComing
    <3>6. ToWriteOK'
      BY <2>2, <3>1 DEF ToWriteOK
    <3>7. QueuesOK'
      BY <1>t, <1>p, <2>1, <3>1, <3>4, <3>5, <3>6 DEF QueuesOK
    <3> QED
      BY <1>t, <2>1, <3>2, <3>4, <3>5, <3>7 DEF OneHolder, One
  <2>3. ASSUME NEW m \in Msg, m.type \in {"T", "TH"},
               to_write = Write1("server_drone", m)
        PROVE  QueuesOK' /\ OneHolder'
    <3>1. /\ \A r \in PipeNames : r # "server_drone" => pipe'[r] = pipe[r]
          /\ to_write' = <<>>
      BY <1>6, <1>t, <1>p, <2>3, SentType DEF ServerWrite, Write1
    <3>2. ~SetRelayed /\ ~EndRelayed /\ ~SetRelayed' /\ ~EndRelayed'
      BY <2>3, <3>1 DEF SetRelayed, EndRelayed, Write1
    <3>3. UNCHANGED <<SetSent, SetComing, EndSent, EndComing>>
      BY <1>p, <3>1 DEF SetSent, SetComing, EndSent, EndComing
    <3>4. QueuesOK'
      BY <1>t, <1>p, <2>1, <3>1, <3>3 DEF QueuesOK, ToWriteOK
    <3> QED
      BY <1>t, <2>1, <3>2, <3>3, <3>4 DEF OneHolder, One
  <2>4. ASSUME NEW m \in Msg, m.type = "D", to_write = Write1("server_map", m)
        PROVE  QueuesOK' /\ OneHolder'
    <3>1. /\ pipe'["server_map"] = Append(pipe["server_map"], m)
          /\ \A r \in PipeNames : r # "server_map" => pipe'[r] = pipe[r]
          /\ to_write' = <<>>
      BY <1>6, <1>t, <1>p, <2>4, SentType DEF ServerWrite, Write1
    <3>2. ~SetRelayed /\ ~EndRelayed /\ ~SetRelayed' /\ ~EndRelayed'
      BY <2>4, <3>1 DEF SetRelayed, EndRelayed, Write1
    <3>3. MapQueueOK(pipe'["server_map"]) /\ (SetComing' <=> SetComing)
      <4>1. pipe["server_map"] \in Seq(Msg) /\ MapQueueOK(pipe["server_map"])
        BY <1>p, <1>s, <1>t DEF QueuesOK
      <4> QED
        BY <2>4, <3>1, <4>1, MapQueueAppend DEF SetComing
    <3>4. UNCHANGED <<SetSent, EndSent, EndComing>>
      BY <1>p, <3>1 DEF SetSent, EndSent, EndComing
    <3>5. QueuesOK'
      BY <1>t, <1>p, <2>1, <3>1, <3>3, <3>4 DEF QueuesOK, ToWriteOK
    <3> QED
      BY <1>t, <2>1, <3>2, <3>3, <3>4, <3>5 DEF OneHolder, One
  <2>5. ASSUME NEW m \in Msg, m.type = "GE", to_write = Write1("server_target", m)
        PROVE  QueuesOK' /\ OneHolder'
    <3>1. /\ pipe'["server_target"] = Append(pipe["server_target"], m)
          /\ \A r \in PipeNames : r # "server_target" => pipe'[r] = pipe[r]
          /\ to_write' = <<>>
      BY <1>6, <1>t, <1>p, <2>5, SentType DEF ServerWrite, Write1
    <3>2. ~SetRelayed /\ EndRelayed /\ ~SetRelayed' /\ ~EndRelayed'
      BY <2>5, <3>1 DEF SetRelayed, EndRelayed, Write1
    <3>3. ~EndComing
      BY <1>t, <3>2 DEF OneHolder, One
    <3>4. Len(pipe'["server_target"]) <= 1 /\ EndComing'
      BY <2>5, <3>1, <3>3 DEF EndComing
    <3>5. UNCHANGED <<SetSent, SetComing, EndSent>>
      BY <1>p, <3>1 DEF SetSent, SetComing, EndSent
    <3>6. QueuesOK'
      BY <1>t, <1>p, <2>1, <3>1, <3>4, <3>5 DEF QueuesOK, ToWriteOK
    <3> QED
      BY <1>t, <2>1, <3>2, <3>4, <3>5, <3>6 DEF OneHolder, One
  <2> QED
    BY <1>t, <2>1, <2>2, <2>3, <2>4, <2>5 DEF QueuesOK, ToWriteOK
<1>7. CASE MapRead
  <2> DEFINE q == pipe["server_map"]
             m == Head(q)
  <2>1. /\ q \in Seq(Msg) /\ q # <<>> /\ m \in Msg
        /\ pipe'["server_map"] = Tail(q)
        /\ \A r \in PipeNames : r # "server_map" => pipe'[r] = pipe[r]
    BY <1>7, <1>t, <1>p, <1>s, ReceivedType DEF MapRead
  <2>2. /\ m.type = "T" => SetComing
        /\ MapQueueOK(pipe'["server_map"])
        /\ SetComing' <=> SetComing /\ m.type # "T"
    BY <1>t, <2>1, MapQueueTail DEF QueuesOK, SetComing
  <2>3. UNCHANGED <<Asked, SetSent, SetRelayed, EndSent, EndRelayed, EndComing,
                    ToWriteOK>>
    BY <1>7, <1>p, <2>1 DEF MapRead, Asked, SetSent, SetRelayed, EndSent, EndRelayed,
       EndComing, ToWriteOK
  <2>4. (m.type = "T" /\ Playing') \/ (m.type = "D" /\ (Playing' <=> Playing))
    BY <1>7, NAssumption DEF MapRead, Playing
  <2>5. QueuesOK'
    BY <1>t, <1>p, <2>1, <2>2, <2>3, <2>4 DEF QueuesOK
  <2> QED
    BY <1>t, <2>2, <2>3, <2>4, <2>5 DEF OneHolder, One
<1>8. CASE MapTimeout
  <2>1. UNCHANGED <<pipe, ToWriteOK, Asked, SetSent, SetRelayed, SetComing, Playing,
                    EndSent, EndRelayed, EndComing>>
    BY <1>8 DEF MapTimeout, ToWriteOK, Asked, SetSent, SetRelayed, SetComing, Playing,
       EndSent, EndRelayed, EndComing
  <2> QED
    BY <1>t, <2>1 DEF QueuesOK, OneHolder, One
<1>9. CASE MapHit
  <2> DEFINE q == pipe["map_server"]
             m == HitReport(frame)
  <2>1. Playing /\ Playing'
    BY <1>9, <1>t DEF MapHit, Playing, TypeOK
  <2>2. ~EndSent
    BY <1>t, <2>1 DEF OneHolder, One
  <2>3. m \in Msg /\ m.type = "TH"
    <3>1. frame \in 1..target_num /\ frame \in 1..N
      BY <1>9, <1>t, NAssumption DEF MapHit, TypeOK
    <3>2. targets_pos[frame] \in Positions
      BY <1>t, <3>1 DEF TypeInv, Filled
    <3> QED
      BY <3>1, <3>2 DEF HitReport, Msg, THMsg
  <2>4. /\ pipe'["map_server"] = Append(q, m)
        /\ \A r \in PipeNames : r # "map_server" => pipe'[r] = pipe[r]
    BY <1>9, <1>t, <1>p, <2>3, SentType DEF MapHit
  <2>5. ReportQueueOK(pipe'["map_server"]) /\ ~EndSent'
    <3>1. q \in Seq(Msg) /\ ReportQueueOK(q)
      BY <1>p, <1>s, <1>t DEF QueuesOK
    <3> QED
      BY <2>2, <2>3, <2>4, <3>1, ReportQueueAppend DEF EndSent
  <2>6. UNCHANGED <<Asked, SetSent, SetRelayed, SetComing, EndRelayed, EndComing,
                    ToWriteOK>>
    BY <1>9, <1>p, <2>4 DEF MapHit, Asked, SetSent, SetRelayed, SetComing, EndRelayed,
       EndComing, ToWriteOK
  <2>7. QueuesOK'
    BY <1>t, <1>p, <2>1, <2>4, <2>5, <2>6 DEF QueuesOK
  <2> QED
    BY <1>t, <2>1, <2>5, <2>6, <2>7 DEF OneHolder, One
<1>10. CASE MapDraw
  <2>1. UNCHANGED <<pipe, ToWriteOK, Asked, SetSent, SetRelayed, SetComing, Playing,
                    EndSent, EndRelayed, EndComing>>
    BY <1>10 DEF MapDraw, ToWriteOK, Asked, SetSent, SetRelayed, SetComing, Playing,
       EndSent, EndRelayed, EndComing
  <2> QED
    BY <1>t, <2>1 DEF QueuesOK, OneHolder, One
<1>11. CASE MapEndFrame
  <2>1. UNCHANGED <<ToWriteOK, Asked, SetRelayed, EndRelayed>>
    BY <1>11 DEF MapEndFrame, ToWriteOK, Asked, SetRelayed, EndRelayed
  <2>2. CASE SetCleared
    <3> DEFINE q == pipe["map_server"]
               m == [type |-> "GE"]
    <3>1. Playing /\ ~Playing'
      BY <1>11, <1>t, <2>2
         DEF MapEndFrame, SetCleared, Left, Playing, TypeInv, TypeOK, FrameOK
    <3>2. ~EndSent
      BY <1>t, <3>1 DEF OneHolder, One
    <3>3. m \in Msg /\ m.type = "GE"
      BY DEF Msg, GEMsg
    <3>4. pipe' = Sent("map_server", m)
      BY <1>11, <2>2 DEF MapEndFrame
    <3>5. /\ pipe'["map_server"] = Append(q, m)
          /\ \A r \in PipeNames : r # "map_server" => pipe'[r] = pipe[r]
      BY <1>t, <1>p, <3>3, <3>4, SentType
    <3>6. ReportQueueOK(pipe'["map_server"]) /\ EndSent'
      <4>1. q \in Seq(Msg) /\ ReportQueueOK(q)
        BY <1>p, <1>s, <1>t DEF QueuesOK
      <4> QED
        BY <3>2, <3>3, <3>5, <4>1, ReportQueueAppend DEF EndSent
    <3>7. UNCHANGED <<SetSent, SetComing, EndComing>>
      BY <1>p, <3>5 DEF SetSent, SetComing, EndComing
    <3>8. QueuesOK'
      BY <1>t, <1>p, <2>1, <3>5, <3>6, <3>7 DEF QueuesOK
    <3> QED
      BY <1>t, <2>1, <3>1, <3>6, <3>7, <3>8 DEF OneHolder, One
  <2>3. CASE ~SetCleared
    <3>1. pipe' = pipe
      BY <1>11, <2>3, Zenon DEF MapEndFrame
    <3>2. Playing' <=> Playing
      BY <1>11, <1>t, <2>3
         DEF MapEndFrame, SetCleared, Left, Playing, TypeInv, TypeOK, FrameOK
    <3>3. UNCHANGED <<SetSent, SetComing, EndSent, EndComing>>
      BY <3>1 DEF SetSent, SetComing, EndSent, EndComing
    <3> QED
      BY <1>t, <2>1, <3>1, <3>2, <3>3 DEF QueuesOK, OneHolder, One
  <2> QED
    BY <2>2, <2>3
<1>12. CASE DroneRead
  <2>1. \A r \in PipeNames : r # "server_drone" => pipe'[r] = pipe[r]
    BY <1>12, <1>t, <1>p, ReceivedType DEF DroneRead
  <2>2. UNCHANGED <<ToWriteOK, Asked, SetSent, SetRelayed, SetComing, Playing, EndSent,
                    EndRelayed, EndComing>>
    BY <1>12, <1>p, <2>1 DEF DroneRead, mapVars, ToWriteOK, Asked, SetSent,
       SetRelayed, SetComing, Playing, EndSent, EndRelayed, EndComing
  <2> QED
    BY <1>t, <1>p, <2>1, <2>2 DEF QueuesOK, OneHolder, One
<1>13. CASE UNCHANGED vars
  BY <1>t, <1>13 DEF vars, mapVars, droneVars, QueuesOK, ToWriteOK, OneHolder, One,
     Asked, SetSent, SetRelayed, SetComing, Playing, EndSent, EndRelayed, EndComing
<1> QED
  BY <1>1, <1>2, <1>3, <1>4, <1>5, <1>6, <1>7, <1>8, <1>9, <1>10, <1>11,
     <1>12, <1>13 DEF Next

LEMMA RoundInvariant == Spec => []RoundInv
<1>1. Init => RoundInv
  BY InitTypeInv, InitRound DEF RoundInv
<1>2. RoundInv /\ [Next]_vars => RoundInv'
  BY NextTypeInv, NextRound DEF RoundInv
<1> QED
  BY <1>1, <1>2, PTL DEF Spec

\* While a set is on its way to the map there is nothing it could overwrite.
LEMMA SetComingMeans ==
  ASSUME RoundInv, SetComing
  PROVE  target_num = 0 /\ pipe["map_server"] = <<>>
<1>1. ~Playing /\ ~EndSent
  BY DEF RoundInv, OneHolder, One
<1>2. target_num = 0
  BY <1>1 DEF Playing, RoundInv, TypeInv, TypeOK
<1> QED
  BY <1>1, <1>2 DEF RoundInv, QueuesOK

\* The map never receives a set while targets of the one before are left or
\* reports about them are unread, in any window and for any sets: the GE that
\* asks for the set is the last message of the set before.
THEOREM FreshSet == Spec => []FreshSetOnlyWhenCleared
<1>1. RoundInv => FreshSetOnlyWhenCleared
  BY SetComingMeans DEF FreshSetOnlyWhenCleared, Types, SetComing, HasT
<1> QED
  BY RoundInvariant, <1>1, PTL

----------------------------------------------------------------------------
(* Room for the reports. *)

\* The first hit of a frame, one entry of n at place f.
LEMMA FirstHitRoom ==
  ASSUME NEW r \in Int, NEW n \in Nat, NEW f \in 1..n, NEW K \in Int,
         2 * r + n * (n + 1) <= K
  PROVE  2 * ((r + 1) + n - (f + 1) + 1) + n * (n - 1) <= K
<1>1. n * (n + 1) = n * n + n /\ n * (n - 1) = n * n - n /\ n * n \in Int
  OBVIOUS
<1>2. 2 * ((r + 1) + n - (f + 1) + 1) = 2 * r + 2 * n - 2 * f + 2
  OBVIOUS
<1>3. 2 * r + 2 * n - 2 * f + 2 + (n * n - n) <= 2 * r + (n * n + n)
  BY <1>1
<1> QED
  BY <1>1, <1>2, <1>3

\* The end of a frame with a hit: one entry less is left.
LEMMA EndFrameRoom ==
  ASSUME NEW r \in Int, NEW n \in Nat, NEW f \in Int, f = n + 1, NEW K \in Int,
         2 * (r + n - f + 1) + n * (n - 1) <= K
  PROVE  2 * r + (n - 1) * ((n - 1) + 1) <= K
<1>1. (n - 1) * ((n - 1) + 1) = n * (n - 1)
  OBVIOUS
<1>2. 2 * (r + n - f + 1) = 2 * r
  OBVIOUS
<1> QED
  BY <1>1, <1>2

\* What the steps do to the number of reports under way.
LEMMA ReportsType == RoundInv => Reports \in Int /\ Len(pipe["map_server"]) \in Nat
<1> SUFFICES ASSUME RoundInv PROVE Reports \in Int /\ Len(pipe["map_server"]) \in Nat
  OBVIOUS
<1>1. pipe["map_server"] \in Seq(Msg)
  BY DEF RoundInv, TypeInv, TypeOK, PipeNames
<1>2. Len(pipe["map_server"]) \in Nat
  BY <1>1
<1>3. One(EndSent) \in Int
  BY DEF One
<1> QED
  BY <1>2, <1>3 DEF Reports

LEMMA InitRoom == Init => RoomOK
<1> SUFFICES ASSUME Init PROVE RoomOK
  OBVIOUS
<1>1. pipe["map_server"] = <<>>
  BY DEF Init, PipeNames
<1>2. Len(pipe["map_server"]) = 0 /\ ~EndSent
  BY <1>1 DEF EndSent, HasGE
<1>3. Reports = 0 /\ target_num = 0 /\ ~to_decrease
  BY <1>2 DEF Init, Reports, One
<1>4. N * (N + 1) >= 0
  BY NAssumption
<1> QED
  BY <1>3, <1>4 DEF RoomOK

LEMMA NextRoom == RoundInv /\ RoundInv' /\ RoomOK /\ [Next]_vars => RoomOK'
<1> SUFFICES ASSUME RoundInv, RoundInv', RoomOK, [Next]_vars PROVE RoomOK'
  OBVIOUS
<1> DEFINE q == pipe["map_server"]
           n == target_num
           K == N * (N + 1)
<1>t. /\ TypeOK /\ FrameOK /\ QueuesOK /\ OneHolder
      /\ n \in Nat /\ frame \in Nat /\ to_decrease \in BOOLEAN
      /\ q \in Seq(Msg) /\ K \in Int
  BY NAssumption DEF RoundInv, TypeInv, TypeOK, PipeNames
<1>p. PipeNames = {"server_map", "map_server", "server_drone",
                   "target_server", "server_target"}
  BY DEF PipeNames
<1>r. Reports \in Int /\ Len(q) \in Nat
  BY ReportsType
<1>u. ASSUME q' = q, UNCHANGED <<target_num, frame, to_decrease>>
      PROVE  RoomOK'
  <2>1. EndSent' = EndSent /\ Reports' = Reports
    BY <1>u DEF EndSent, Reports
  <2> QED
    BY <1>u, <2>1 DEF RoomOK
<1>1. CASE TargetSend
  <2>1. q' = q
    BY <1>1, <1>t, <1>p DEF TargetSend, Sent, TypeOK
  <2> QED
    BY <1>1, <1>u, <2>1 DEF TargetSend, mapVars
<1>2. CASE TargetRead
  <2>1. q' = q
    BY <1>2, <1>t, <1>p DEF TargetRead, Received, TypeOK
  <2> QED
    BY <1>2, <1>u, <2>1 DEF TargetRead, mapVars
<1>3. CASE ServerPosition
  BY <1>3, <1>u DEF ServerPosition, mapVars
<1>4. CASE ServerFromMap
  <2>1. q # <<>> /\ q' = Tail(q) /\ UNCHANGED <<target_num, frame, to_decrease>>
    BY <1>4, <1>t, <1>p DEF ServerFromMap, Received, mapVars, TypeOK
  <2>2. Len(q') = Len(q) - 1
    BY <1>t, <2>1, TailFacts
  <2>3. /\ Head(q).type = "GE" => EndSent
        /\ EndSent' <=> EndSent /\ Head(q).type # "GE"
    BY <1>t, <2>1, ReportQueueTail DEF QueuesOK, EndSent
  <2>4. Reports' <= Reports /\ Reports' \in Int
    <3>1. Reports' = Len(q') - One(EndSent') /\ Reports = Len(q) - One(EndSent)
      BY DEF Reports
    <3>2. CASE Head(q).type = "GE"
      <4>1. One(EndSent) = 1 /\ One(EndSent') = 0
        BY <2>3, <3>2 DEF One
      <4> QED
        BY <1>r, <2>2, <3>1, <4>1
    <3>3. CASE Head(q).type # "GE"
      <4>1. One(EndSent') = One(EndSent) /\ One(EndSent) \in Int
        BY <2>3, <3>3 DEF One
      <4> QED
        BY <1>r, <2>2, <3>1, <4>1
    <3> QED
      BY <3>2, <3>3
  <2>5. CASE to_decrease
    BY <1>t, <1>r, <2>1, <2>4, <2>5 DEF RoomOK
  <2>6. CASE ~to_decrease
    BY <1>t, <1>r, <2>1, <2>4, <2>6 DEF RoomOK
  <2> QED
    BY <2>5, <2>6
<1>5. CASE ServerFromTarget
  <2>1. q' = q
    BY <1>5, <1>t, <1>p DEF ServerFromTarget, Received, TypeOK
  <2> QED
    BY <1>5, <1>u, <2>1 DEF ServerFromTarget, mapVars
<1>6. CASE ServerWrite
  <2>1. to_write # <<>> /\ Head(to_write).to # "map_server"
    BY <1>6, <1>t DEF ServerWrite, QueuesOK, ToWriteOK, Write1
  <2>2. q' = q
    BY <1>6, <1>t, <1>p, <2>1 DEF ServerWrite, Sent, TypeOK
  <2> QED
    BY <1>6, <1>u, <2>2 DEF ServerWrite, mapVars
<1>7. CASE MapRead
  <2> DEFINE m == Head(pipe["server_map"])
  <2>1. q' = q /\ ~to_decrease /\ ~to_decrease'
    BY <1>7, <1>t, <1>p DEF MapRead, BeginFrame, Received, TypeOK, FrameOK
  <2>2. EndSent' = EndSent /\ Reports' = Reports
    BY <2>1 DEF EndSent, Reports
  <2>3. CASE m.type = "D"
    <3>1. target_num' = target_num
      BY <1>7, <2>3 DEF MapRead
    <3> QED
      BY <2>1, <2>2, <3>1 DEF RoomOK
  <2>4. CASE m.type = "T"
    <3>1. target_num' = N
      BY <1>7, <2>4 DEF MapRead
    <3>2. SetComing
      <4>1. pipe["server_map"] \in Seq(Msg) /\ MapQueueOK(pipe["server_map"])
        BY <1>t, <1>p DEF TypeOK, QueuesOK
      <4> QED
        BY <1>7, <2>4, <4>1, MapQueueTail DEF MapRead, SetComing
    <3>3. Reports = 0
      BY <3>2, SetComingMeans DEF Reports, EndSent, HasGE, One
    <3> QED
      BY <1>t, <2>1, <2>2, <3>1, <3>3 DEF RoomOK
  <2> QED
    BY <1>7, <2>3, <2>4 DEF MapRead
<1>8. CASE MapTimeout
  <2>1. /\ q' = q /\ target_num' = target_num /\ ~to_decrease /\ ~to_decrease'
    BY <1>8, <1>t DEF MapTimeout, BeginFrame, FrameOK
  <2>2. EndSent' = EndSent /\ Reports' = Reports
    BY <2>1 DEF EndSent, Reports
  <2> QED
    BY <2>1, <2>2 DEF RoomOK
<1>9. CASE MapHit
  <2>1. /\ frame \in 1..n /\ frame' = frame + 1 /\ target_num' = target_num
        /\ to_decrease'
    BY <1>9 DEF MapHit
  <2>2. q' = Append(q, HitReport(frame))
    BY <1>9, <1>t, <1>p DEF MapHit, Sent, TypeOK
  <2>3. Len(q') = Len(q) + 1
    BY <2>2, <1>t
  <2>4. ~EndSent /\ ~EndSent'
    <3>1. Playing /\ Playing'
      BY <1>t, <2>1 DEF Playing
    <3> QED
      BY <3>1 DEF RoundInv, OneHolder, One
  <2>5. Reports' = Reports + 1
    BY <1>r, <2>3, <2>4 DEF Reports, One
  <2>6. CASE to_decrease
    <3>1. 2 * (Reports + n - frame + 1) + n * (n - 1) <= K
      BY <2>6 DEF RoomOK
    <3>2. Reports' + n - (frame + 1) + 1 = Reports + n - frame + 1
      BY <1>t, <1>r, <2>5
    <3> QED
      BY <2>1, <3>1, <3>2 DEF RoomOK
  <2>7. CASE ~to_decrease
    <3>1. 2 * Reports + n * (n + 1) <= K
      BY <2>7 DEF RoomOK
    <3>2. 2 * ((Reports + 1) + n - (frame + 1) + 1) + n * (n - 1) <= K
      BY <1>t, <1>r, <2>1, <3>1, FirstHitRoom
    <3> QED
      BY <2>1, <2>5, <3>2 DEF RoomOK
  <2> QED
    BY <2>6, <2>7
<1>10. CASE MapDraw
  <2>1. /\ q' = q /\ target_num' = target_num /\ frame' = frame + 1
        /\ to_decrease' = to_decrease
    BY <1>10 DEF MapDraw
  <2>2. EndSent' = EndSent /\ Reports' = Reports
    BY <2>1 DEF EndSent, Reports
  <2>3. CASE to_decrease
    <3>1. 2 * (Reports + n - frame + 1) + n * (n - 1) <= K
      BY <2>3 DEF RoomOK
    <3>2. 2 * (Reports + n - (frame + 1) + 1) <= 2 * (Reports + n - frame + 1)
      BY <1>t, <1>r
    <3>3. n * (n - 1) \in Int
      BY <1>t
    <3>4. 2 * (Reports + n - (frame + 1) + 1) + n * (n - 1) <= K
      BY <1>t, <1>r, <3>1, <3>2, <3>3
    <3> QED
      BY <2>1, <2>2, <2>3, <3>4 DEF RoomOK
  <2>4. CASE ~to_decrease
    BY <2>1, <2>2, <2>4 DEF RoomOK
  <2> QED
    BY <2>3, <2>4
<1>11. CASE MapEndFrame
  <2>1. frame = n + 1 /\ target_num' = Left /\ ~to_decrease'
    BY <1>11 DEF MapEndFrame
  <2>2. Reports' = Reports
    <3>1. CASE SetCleared
      <4>1. q' = Append(q, [type |-> "GE"])
        BY <1>11, <1>t, <1>p, <3>1 DEF MapEndFrame, Sent, TypeOK
      <4>2. Len(q') = Len(q) + 1
        BY <4>1, <1>t
      <4>3. ~EndSent
        <5>1. Playing
          BY <1>t, <3>1 DEF SetCleared, FrameOK, Playing
        <5> QED
          BY <5>1 DEF RoundInv, OneHolder, One
      <4>4. EndSent'
        <5>1. q'[Len(q) + 1] = [type |-> "GE"] /\ Len(q) + 1 \in 1..Len(q')
          BY <1>t, <1>r, <4>1, <4>2
        <5> QED
          BY <5>1 DEF EndSent, HasGE
      <4> QED
        BY <1>r, <4>2, <4>3, <4>4 DEF Reports, One
    <3>2. CASE ~SetCleared
      <4>1. pipe' = pipe
        BY <1>11, <3>2, Zenon DEF MapEndFrame
      <4> QED
        BY <4>1 DEF Reports, EndSent
    <3> QED
      BY <3>1, <3>2
  <2>3. CASE to_decrease
    <3>1. 2 * (Reports + n - frame + 1) + n * (n - 1) <= K
      BY <2>3 DEF RoomOK
    <3>2. 2 * Reports + (n - 1) * ((n - 1) + 1) <= K
      BY <1>t, <1>r, <2>1, <3>1, EndFrameRoom
    <3>3. target_num' = n - 1
      BY <2>1, <2>3 DEF Left
    <3> QED
      BY <2>1, <2>2, <3>2, <3>3 DEF RoomOK
  <2>4. CASE ~to_decrease
    <3>1. target_num' = n
      BY <2>1, <2>4 DEF Left
    <3> QED
      BY <2>1, <2>2, <2>4, <3>1 DEF RoomOK
  <2> QED
    BY <2>3, <2>4
<1>12. CASE DroneRead
  <2>1. q' = q
    BY <1>12, <1>t, <1>p DEF DroneRead, Received, TypeOK
  <2> QED
    BY <1>12, <1>u, <2>1 DEF DroneRead, mapVars
<1>13. CASE UNCHANGED vars
  BY <1>13, <1>u DEF vars, mapVars
<1> QED
  BY <1>1, <1>2, <1>3, <1>4, <1>5, <1>6, <1>7, <1>8, <1>9, <1>10, <1>11,
     <1>12, <1>13 DEF Next

\* The invariant behind the other theorems, whatever the window: the types, the
\* kinds of messages of each pipe, one holder of the right to the next set, and
\* room for every report of the map (map.c:342-427, server.c:129-160).
THEOREM Invariant == Spec => []IndInv
<1>1. Init => RoomOK
  BY InitRoom
<1>2. RoundInv /\ RoundInv' /\ RoomOK /\ [Next]_vars => RoomOK'
  BY NextRoom
<1>3. Spec => []RoomOK
  BY <1>1, <1>2, RoundInvariant, PTL DEF Spec
<1>4. RoundInv /\ RoomOK => IndInv
  BY DEF IndInv
<1> QED
  BY <1>3, <1>4, RoundInvariant, PTL

\* Whatever the window and however many targets share a cell, the map never
\* waits in Write: its pipe holds all that it can report about a set.  Hence the
\* server, which may be waiting in Write for the map, is always served.
THEOREM ReportsFit == Spec => []MapWriteNeverBlocks
<1>1. IndInv => MapWriteNeverBlocks
  <2> SUFFICES ASSUME IndInv, frame > 0, target_num > 0
               PROVE  Len(pipe["map_server"]) < Cap["map_server"]
    BY DEF MapWriteNeverBlocks, HasRoom
  <2> DEFINE n == target_num
             K == N * (N + 1)
  <2>1. /\ n \in Nat /\ n > 0 /\ frame \in Nat /\ frame <= n + 1
        /\ to_decrease \in BOOLEAN
    BY DEF IndInv, RoundInv, TypeInv, TypeOK, FrameOK
  <2>2. Reports \in Int /\ Len(pipe["map_server"]) \in Nat
    BY ReportsType DEF IndInv
  <2>3. Reports = Len(pipe["map_server"])
    <3>1. Playing
      BY <2>1 DEF Playing
    <3>2. ~EndSent
      BY <3>1 DEF IndInv, RoundInv, OneHolder, One
    <3> QED
      BY <2>2, <3>2 DEF Reports, One
  <2>4. n * (n + 1) \in Nat /\ n * (n - 1) \in Nat /\ K \in Int
    <3>1. n - 1 \in Nat /\ n + 1 \in Nat
      BY <2>1
    <3> QED
      BY <2>1, <3>1, NAssumption
  <2>5. 2 * Reports <= K
    <3>1. CASE to_decrease
      <4>1. 2 * (Reports + n - frame + 1) + n * (n - 1) <= K
        BY <3>1 DEF IndInv, RoomOK
      <4>2. 2 * Reports <= 2 * (Reports + n - frame + 1)
        BY <2>1, <2>2
      <4> QED
        BY <2>1, <2>2, <2>4, <4>1, <4>2
    <3>2. CASE ~to_decrease
      <4>1. 2 * Reports + n * (n + 1) <= K
        BY <3>2 DEF IndInv, RoomOK
      <4> QED
        BY <2>2, <2>4, <4>1
    <3> QED
      BY <3>1, <3>2
  <2>6. 2 * Cap["map_server"] >= K + 2 /\ Cap["map_server"] \in Nat
    BY RoomAssumption, CapAssumption DEF PipeNames
  <2> QED
    BY <2>2, <2>3, <2>4, <2>5, <2>6
<1> QED
  BY Invariant, <1>1, PTL
============================================================================
