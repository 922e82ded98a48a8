---------------------------- MODULE Descriptors ----------------------------
(***************************************************************************)
(* The descriptor tables of master.c: it opens eleven pipes, forks the     *)
(* seven programs one after the other and closes in the father what no     *)
(* later program needs; each child closes what it does not use and execs.  *)
(* A pipe reports end of file or EPIPE only if nobody else holds its other *)
(* end, so every end must be left with the one program that uses it.       *)
(*                                                                         *)
(* The tables are private: what a child does between fork and exec is one  *)
(* step.  The konsole that runs input and map is taken with its program.   *)
(***************************************************************************)
EXTENDS Naturals, Sequences, SequencesExt

\* The programs in the order in which they are forked.
programs == <<"server", "drone", "input", "map", "target", "obstacles", "WD">>
Programs == ToSet(programs)

Pipes == {"input_drone", "server_drone", "drone_server", "server_input",
          "input_server", "map_server", "server_map", "target_server",
          "server_target", "obstacles_server", "server_obstacles"}
Ends == Pipes \X {0, 1}

\* Both ends of some pipes, in program order.
Both_OneTwo(pipes) == [i \in 1..(2 * Len(pipes)) |-> <<pipes[(i + 1) \div 2], 2 - (i % 2)>>]
Both(pipes) == [i \in 1..(2 * Len(pipes)) |-> <<pipes[(i + 1) \div 2], 1 - (i % 2)>>]

VARIABLES
  forked,   \* how many programs master has forked
  closing,  \* master: the closes left after the last fork
  table,    \* the open pipe ends of master and of every program
  execed    \* the programs that have closed their ends and run

vars == <<forked, closing, table, execed>>

\* The ends a program finds among its arguments.
Used(q) ==
  CASE q = "server" -> {<<"drone_server", 0>>, <<"server_drone", 1>>,
                        <<"input_server", 0>>, <<"server_input", 1>>,
                        <<"map_server", 0>>, <<"server_map", 1>>,
                        <<"target_server", 0>>, <<"server_target", 1>>,
                        <<"obstacles_server", 0>>, <<"server_obstacles", 1>>}
    [] q = "drone" -> {<<"input_drone", 0>>, <<"server_drone", 0>>, <<"drone_server", 1>>}
    [] q = "input" -> {<<"input_drone", 1>>, <<"input_server", 1>>, <<"server_input", 0>>}
    [] q = "map" -> {<<"map_server", 1>>, <<"server_map", 0>>}
    [] q = "target" -> {<<"target_server", 1>>, <<"server_target", 0>>}
    [] q = "obstacles" -> {<<"obstacles_server", 1>>, <<"server_obstacles", 0>>}
    [] q = "WD" -> {}

MapPipes == <<"map_server", "server_map">>
TargetPipes == <<"target_server", "server_target">>
ObstaclesPipes == <<"obstacles_server", "server_obstacles">>

\* What a child closes before it execs.
ChildCloses(q) ==
  CASE q = "server" -> <<<<"drone_server", 1>>, <<"server_drone", 0>>,
                         <<"input_server", 1>>, <<"server_input", 0>>,
                         <<"map_server", 1>>, <<"server_map", 0>>,
                         <<"target_server", 1>>, <<"server_target", 0>>,
                         <<"obstacles_server", 1>>, <<"server_obstacles", 0>>>>
                       \o Both(<<"input_drone">>)
    [] q = "drone" -> <<<<"input_drone", 1>>, <<"server_drone", 1>>, <<"drone_server", 0>>>>
                      \o Both(<<"server_input", "input_server">> \o MapPipes
                              \o TargetPipes \o ObstaclesPipes)
    [] q = "input" -> <<<<"input_drone", 0>>, <<"input_server", 0>>, <<"server_input", 1>>>>
                      \o Both(MapPipes \o TargetPipes \o ObstaclesPipes)
    [] q = "map" -> <<<<"map_server", 0>>, <<"server_map", 1>>>>
                    \o Both(TargetPipes \o ObstaclesPipes)
    [] q = "target" -> <<<<"target_server", 0>>, <<"server_target", 1>>>>
                       \o Both(ObstaclesPipes)
    [] q = "obstacles" -> <<<<"obstacles_server", 0>>, <<"server_obstacles", 1>>>>
    [] q = "WD" -> <<>>

\* What the father closes once it has forked the program.
FatherCloses_InputEarly(q) ==
  CASE q = "drone" -> Both(<<"server_drone", "drone_server", "input_drone">>)
    [] q = "input" -> Both(<<"server_input", "input_server">>)
    [] q = "map" -> Both(MapPipes)
    [] q = "target" -> Both(TargetPipes)
    [] q = "obstacles" -> Both(ObstaclesPipes)
    [] OTHER -> <<>>
FatherCloses_KeepsMap(q) ==
  CASE q = "drone" -> Both(<<"server_drone", "drone_server">>)
    [] q = "input" -> Both(<<"server_input", "input_server", "input_drone">>)
    [] q = "target" -> Both(TargetPipes)
    [] q = "obstacles" -> Both(ObstaclesPipes)
    [] OTHER -> <<>>
FatherCloses(q) ==
  CASE q = "drone" -> Both(<<"server_drone", "drone_server">>)
    [] q = "input" -> Both(<<"server_input", "input_server", "input_drone">>)
    [] q = "map" -> Both(<<"server_map", "map_server">>)
    [] q = "target" -> Both(TargetPipes)
    [] q = "obstacles" -> Both(ObstaclesPipes)
    [] OTHER -> <<>>

TypeOK ==
  /\ forked \in 0..Len(programs)
  /\ closing \in Seq(Ends)
  /\ table \in [Programs \cup {"master"} -> SUBSET Ends]
  /\ execed \subseteq Programs

\* The pipes have been opened.
Init ==
  /\ forked = 0
  /\ closing = <<>>
  /\ table = [q \in Programs \cup {"master"} |-> IF q = "master" THEN Ends ELSE {}]
  /\ execed = {}

\* The programs that have been forked.
Forked == {programs[i] : i \in 1..forked}

\* The child starts with a copy of the table of master.
Fork ==
  /\ closing = <<>> /\ forked < Len(programs)
  /\ forked' = forked + 1
  /\ table' = [table EXCEPT ![programs[forked + 1]] = table["master"]]
  /\ closing' = FatherCloses(programs[forked + 1])
  /\ UNCHANGED execed

\* Guarded by what ClosesAreOpen says: the close succeeds.
FatherClose ==
  /\ closing # <<>>
  /\ Head(closing) \in table["master"]
  /\ table' = [table EXCEPT !["master"] = @ \ {Head(closing)}]
  /\ closing' = Tail(closing)
  /\ UNCHANGED <<forked, execed>>

\* The child closes what it does not use, each close succeeding, and execs.
ChildExec(q) ==
  /\ q \in Forked \ execed
  /\ ToSet(ChildCloses(q)) \subseteq table[q]
  /\ table' = [table EXCEPT ![q] = @ \ ToSet(ChildCloses(q))]
  /\ execed' = execed \cup {q}
  /\ UNCHANGED <<forked, closing>>

Next == Fork \/ FatherClose \/ \E q \in Programs : ChildExec(q)

----------------------------------------------------------------------------
(* What must be true *)

\* A running program holds exactly the ends it was given, and master none in the
\* end: another holder and a peer would wait for an end of file that cannot come
\* (master.c:245-246).  It is the initial state of Shutdown and Targets.
OneHolder ==
  /\ \A q \in execed : table[q] = Used(q)
  /\ forked = Len(programs) /\ closing = <<>> => table["master"] = {}

\* No Close in master or in a child names a descriptor that is closed: the
\* wrapper would wait for a key and the program would never start.
ClosesAreOpen ==
  /\ closing # <<>> => Head(closing) \in table["master"]
  /\ \A q \in Forked \ execed :
       /\ ToSet(ChildCloses(q)) \subseteq table[q]
       /\ IsInjective(ChildCloses(q))
============================================================================
