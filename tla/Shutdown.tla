------------------------------ MODULE Shutdown ------------------------------
(***************************************************************************)
(* How the processes end: the key p, the STOP that server.c relays, the    *)
(* pipe ends that each process closes, what its peers then see (end of     *)
(* file on a read, EPIPE on a write), and the watchdog that signals every  *)
(* process in turn and kills them all when one does not answer.            *)
(*                                                                         *)
(* A handler is a list of system calls; the steps between calls are where  *)
(* the other processes, signals and the watchdog come in.  Payloads are    *)
(* left out: a message is its kind.  The konsole around input and map holds  *)
(* the same pipe ends as its program, and closes some time after it.       *)
(***************************************************************************)
EXTENDS Naturals, Sequences, FiniteSets

CONSTANTS
  Peers,    \* the processes that run besides input and server
  Cap,      \* how many messages each pipe holds
  Budget,   \* bound: unrequested messages that map and obstacles still send
  Crashes   \* bound: processes that are killed from outside

AllPeers == {"drone", "map", "target", "obstacles"}
Processes == {"input", "server"} \cup Peers

\* Who writes to and who reads from the pipes of master.c.
Writer == [input_drone |-> "input", input_server |-> "input",
           server_input |-> "server", server_drone |-> "server",
           server_map |-> "server", server_target |-> "server",
           server_obstacles |-> "server", drone_server |-> "drone",
           map_server |-> "map", target_server |-> "target",
           obstacles_server |-> "obstacles"]
Reader == [p \in DOMAIN Writer |->
             CASE p \in {"input_drone", "server_drone"} -> "drone"
               [] p = "server_input" -> "input"
               [] p = "server_map" -> "map"
               [] p = "server_target" -> "target"
               [] p = "server_obstacles" -> "obstacles"
               [] OTHER -> "server"]
Pipes == {p \in DOMAIN Writer : {Writer[p], Reader[p]} \subseteq Processes}

ASSUME PeersAssumption == Peers \subseteq AllPeers
ASSUME CapAssumption == Cap \in [Pipes -> Nat \ {0}]
ASSUME BoundAssumption == Budget \in [{"map", "obstacles"} -> Nat] /\ Crashes \in Nat

\* The order in which a select loop visits its descriptors.
Scan == [server |-> <<"drone_server", "input_server", "map_server",
                      "target_server", "obstacles_server">>,
         drone |-> <<"input_drone", "server_drone">>]

\* What a list has at some of its places, in its order.
AtPlaces(list, places) ==
  [k \in 1..Cardinality(places) |->
     list[CHOOSE i \in places : Cardinality({j \in places : j <= i}) = k]]

\* The order in which the watchdog signals and kills.
Running(list) == AtPlaces(list, {i \in 1..Len(list) : list[i] \in Processes})
p_pids_MissesObstacles == Running(<<"input", "map", "server", "drone", "target">>)
p_pids == Running(<<"input", "map", "server", "drone", "target", "obstacles">>)

Messages == {"STOP", "U", "F", "D", "T", "O", "TH", "GE", "reply"}
Calls == [op : {"write"}, pipe : Pipes, msg : Messages]
           \cup [op : {"close"}, pipe : Pipes]
Write(p, m) == [op |-> "write", pipe |-> p, msg |-> m]
Close(p) == [op |-> "close", pipe |-> p]

\* The calls on the pipes of this instance.
Present(calls) == AtPlaces(calls, {i \in 1..Len(calls) : calls[i].pipe \in Pipes})

VARIABLES
  pipe,     \* the pipes, oldest message first
  open,     \* the pipe ends that are open
  status,   \* of each process: run, leave its loop, fail (sleep(100) before
            \* exit), hang (getchar before exit), or how it ended
  pc,       \* where each process is when it has no call left to make
  todo,     \* the calls each process has still to make
  ready,    \* the descriptors a select pass has still to serve
  pending,  \* processes with a SIGUSR1 they have not handled
  wd,       \* the watchdog: alive, zombie (ended, not waited for), gone
  wd_pc,    \* about to signal, in its one second sleep, killing
  wd_at,    \* index into p_pids
  count,    \* SIGUSR2 answers since the last check
  WD_pid,   \* input: the watchdog has signalled it, so it knows the pid
  konsoles, \* the programs whose konsole still runs
  left      \* what is left of Budget and Crashes

wdVars == <<wd, wd_pc, wd_at, count>>
vars == <<pipe, open, status, pc, todo, ready, pending, wdVars, WD_pid, konsoles, left>>

Ended == {"done", "error", "died", "killed"}

TypeOK ==
  /\ pipe \in [Pipes -> Seq(Messages)]
  /\ open \subseteq {"r", "w"} \X Pipes
  /\ status \in [Processes -> {"run", "leave", "fail", "hang"} \cup Ended]
  /\ pc \in [Processes -> {"getch", "reply", "select", "scan", "send", "read"}]
  /\ todo \in [Processes -> Seq(Calls)]
  /\ ready \in [{"server", "drone"} -> SUBSET Pipes]
  /\ pending \subseteq Processes
  /\ wd \in {"alive", "zombie", "gone"}
  /\ wd_pc \in {"signal", "sleep", "kill"}
  /\ wd_at \in 1..Len(p_pids)
  /\ count \in Nat
  /\ WD_pid \in BOOLEAN
  /\ konsoles \subseteq {"input", "map"}
  /\ left \in [{"map", "obstacles", "crash"} -> Nat]

Init ==
  /\ pipe = [p \in Pipes |-> <<>>]
  /\ open = {"r", "w"} \X Pipes
  /\ status = [q \in Processes |-> "run"]
  /\ pc = [q \in Processes |-> CASE q = "input" -> "getch"
                                 [] q \in {"target", "obstacles"} -> "send"
                                 [] OTHER -> "select"]
  /\ todo = [q \in Processes |-> <<>>]
  /\ ready = [q \in {"server", "drone"} |-> {}]
  /\ pending = {}
  /\ wd = "alive" /\ wd_pc = "signal" /\ wd_at = 1 /\ count = 0
  /\ WD_pid = FALSE
  /\ konsoles = {"input", "map"} \cap Processes
  /\ left = [k \in {"map", "obstacles", "crash"} |->
               IF k = "crash" THEN Crashes ELSE Budget[k]]

----------------------------------------------------------------------------
(* System calls *)

EndOf(q, p) == IF Writer[p] = q THEN <<"w", p>> ELSE <<"r", p>>
EndsOf(q) == {EndOf(q, p) : p \in {p \in Pipes : q \in {Writer[p], Reader[p]}}}

\* A konsole neither reads nor writes: its copy of an end only keeps the others
\* from seeing that the program has closed it.
HasReader(p) == <<"r", p>> \in open \/ Reader[p] \in konsoles
Eof(p) == pipe[p] = <<>> /\ <<"w", p>> \notin open /\ Writer[p] \notin konsoles
Readable(p) == <<"r", p>> \in open /\ (pipe[p] # <<>> \/ Eof(p))

\* A process that is in its loop with no call left to make.
AtRest(q) == status[q] = "run" /\ todo[q] = <<>>

\* Process q ends: the kernel closes its descriptors, its signals are void.
End(q, how) ==
  /\ status' = [status EXCEPT ![q] = how]
  /\ todo' = [todo EXCEPT ![q] = <<>>]
  /\ open' = open \ EndsOf(q)
  /\ pending' = pending \ {q}

\* A write blocks while the pipe is full; without a reader it fails with EPIPE
\* and the wrapper sleeps before it exits.
DoWrite(q) ==
  /\ status[q] \in {"run", "leave"} /\ todo[q] # <<>>
  /\ LET call == Head(todo[q])
     IN  /\ call.op = "write"
         /\ \/ /\ HasReader(call.pipe) /\ Len(pipe[call.pipe]) < Cap[call.pipe]
               /\ pipe' = [pipe EXCEPT ![call.pipe] = Append(@, call.msg)]
               /\ todo' = [todo EXCEPT ![q] = Tail(@)]
               /\ UNCHANGED status
            \/ /\ ~HasReader(call.pipe)
               /\ status' = [status EXCEPT ![q] = "fail"]
               /\ todo' = [todo EXCEPT ![q] = <<>>]
               /\ UNCHANGED pipe
  /\ UNCHANGED <<open, pc, ready, pending, wdVars, WD_pid, konsoles, left>>

\* Closing a descriptor that is closed fails and the wrapper waits for a key.
DoClose(q) ==
  /\ status[q] \in {"run", "leave"} /\ todo[q] # <<>>
  /\ LET call == Head(todo[q])
         end == EndOf(q, call.pipe)
     IN  /\ call.op = "close"
         /\ \/ /\ end \in open
               /\ open' = open \ {end}
               /\ todo' = [todo EXCEPT ![q] = Tail(@)]
               /\ UNCHANGED status
            \/ /\ end \notin open
               /\ status' = [status EXCEPT ![q] = "hang"]
               /\ todo' = [todo EXCEPT ![q] = <<>>]
               /\ UNCHANGED open
  /\ UNCHANGED <<pipe, pc, ready, pending, wdVars, WD_pid, konsoles, left>>

\* The end of main, of the sleep or of the wait for a key of a failed call.
Exit(q) ==
  /\ \/ status[q] = "leave" /\ todo[q] = <<>> /\ End(q, "done")
     \/ status[q] = "fail" /\ End(q, "error")
  /\ UNCHANGED <<pipe, pc, ready, wdVars, WD_pid, konsoles, left>>

KeyAfterError(q) ==
  /\ status[q] = "hang"
  /\ End(q, "error")
  /\ UNCHANGED <<pipe, pc, ready, wdVars, WD_pid, konsoles, left>>

Crash(q) ==
  /\ left["crash"] > 0
  /\ status[q] = "run"
  /\ End(q, "killed")
  /\ left' = [left EXCEPT !["crash"] = @ - 1]
  /\ UNCHANGED <<pipe, pc, ready, wdVars, WD_pid, konsoles>>

\* Process q goes to label l with the calls of its branch to make; it may take
\* a message from a pipe on the way.
Goto(q, l, calls) ==
  /\ pc' = [pc EXCEPT ![q] = l]
  /\ todo' = [todo EXCEPT ![q] = Present(calls)]
Leave(q, calls) ==
  /\ status' = [status EXCEPT ![q] = "leave"]
  /\ todo' = [todo EXCEPT ![q] = Present(calls)]
Take(p) == pipe' = [pipe EXCEPT ![p] = Tail(@)]

----------------------------------------------------------------------------
(* input.c *)

InputCloses == <<Close("input_drone"), Close("input_server"), Close("server_input")>>

\* The key p: the watchdog is killed if input knows it, then STOP is sent.
KeyP ==
  /\ AtRest("input") /\ pc["input"] = "getch"
  /\ wd' = IF WD_pid /\ wd = "alive" THEN "zombie" ELSE wd
  /\ Leave("input", <<Write("input_server", "STOP")>> \o InputCloses)
  /\ UNCHANGED <<pipe, open, pc, ready, pending, wd_pc, wd_at, count, WD_pid, konsoles, left>>

\* Another key or none: the force if it changed, then the update request.
KeyOther ==
  /\ AtRest("input") /\ pc["input"] = "getch"
  /\ \E force \in {<<>>, <<Write("input_drone", "F")>>} :
       Goto("input", "reply", force \o <<Write("input_server", "U")>>)
  /\ UNCHANGED <<pipe, open, status, ready, pending, wdVars, WD_pid, konsoles, left>>

InputRead ==
  /\ AtRest("input") /\ pc["input"] = "reply"
  /\ \/ /\ pipe["server_input"] # <<>>
        /\ Take("server_input")
        /\ Goto("input", "getch", <<>>)
        /\ UNCHANGED status
     \/ /\ Eof("server_input")
        /\ Leave("input", InputCloses)
        /\ UNCHANGED <<pipe, pc>>
  /\ UNCHANGED <<open, ready, pending, wdVars, WD_pid, konsoles, left>>

----------------------------------------------------------------------------
(* The select loops of server.c and drone.c; SIGUSR1 is masked in select *)

\* Select_wmask returns with the descriptors that are ready; the drone does not
\* wait for one.
SelectReturns(q) ==
  /\ q \in Processes /\ AtRest(q) /\ pc[q] = "select"
  /\ LET now == {p \in Pipes : Reader[p] = q /\ Readable(p)}
     IN  /\ q = "server" => now # {}
         /\ ready' = [ready EXCEPT ![q] = now]
  /\ Goto(q, "scan", <<>>)
  /\ UNCHANGED <<pipe, open, status, pending, wdVars, WD_pid, konsoles, left>>

\* The next descriptor of the pass.  A signal that select held back is handled
\* as it is unmasked, before the pass.
Serving(q, p) ==
  /\ q \in Processes \ pending /\ AtRest(q) /\ pc[q] = "scan"
  /\ \E i \in 1..Len(Scan[q]) :
       /\ p = Scan[q][i] /\ p \in ready[q]
       /\ \A j \in 1..(i - 1) : Scan[q][j] \notin ready[q]

\* End of file: the descriptor is closed and leaves the set.
ServeEof(q, p) ==
  /\ Serving(q, p) /\ Eof(p)
  /\ open' = open \ {<<"r", p>>}
  /\ ready' = [ready EXCEPT ![q] = @ \ {p}]
  /\ UNCHANGED <<pipe, status, pc, todo, pending, wdVars, WD_pid, konsoles, left>>

\* STOP goes to the drone, the map, the obstacles and the targets; then the
\* server closes its ten descriptors.
StopWrites_NoMap == <<Write("server_drone", "STOP"),
                      Write("server_obstacles", "STOP"), Write("server_target", "STOP")>>
StopWrites_NoTarget == <<Write("server_drone", "STOP"), Write("server_map", "STOP"),
                         Write("server_obstacles", "STOP")>>
StopWrites_MapTwice == <<Write("server_drone", "STOP"), Write("server_map", "STOP"),
                         Write("server_map", "STOP"), Write("server_target", "STOP")>>
StopWrites == <<Write("server_drone", "STOP"), Write("server_map", "STOP"),
                Write("server_obstacles", "STOP"), Write("server_target", "STOP")>>
ServerCloses_MapTwice == <<Close("drone_server"), Close("input_server"),
                           Close("map_server"), Close("map_server"),
                           Close("target_server"), Close("server_drone"),
                           Close("server_map"), Close("server_target"),
                           Close("server_input")>>
ServerCloses == <<Close("drone_server"), Close("input_server"),
                  Close("map_server"), Close("obstacles_server"),
                  Close("target_server"), Close("server_drone"),
                  Close("server_map"), Close("server_obstacles"),
                  Close("server_target"), Close("server_input")>>

\* What the server writes on a message other than STOP.
Relayed(p, m) ==
  CASE p = "input_server" -> <<Write("server_input", "reply")>>
    [] p = "drone_server" -> <<Write("server_map", "D")>>
    [] p = "map_server" /\ m = "GE" -> <<Write("server_target", "GE")>>
    [] p = "map_server" /\ m = "TH" -> <<Write("server_drone", "TH")>>
    [] p \in {"target_server", "obstacles_server"} ->
         <<Write("server_map", m), Write("server_drone", m)>>

ServerServe(p) ==
  /\ Serving("server", p) /\ pipe[p] # <<>>
  /\ Take(p)
  /\ \/ /\ Head(pipe[p]) = "STOP"
        /\ Leave("server", StopWrites \o ServerCloses)
        /\ UNCHANGED ready
     \/ /\ Head(pipe[p]) # "STOP"
        /\ todo' = [todo EXCEPT !["server"] = Present(Relayed(p, Head(pipe[p])))]
        /\ ready' = [ready EXCEPT !["server"] = @ \ {p}]
        /\ UNCHANGED status
  /\ UNCHANGED <<open, pc, pending, wdVars, WD_pid, konsoles, left>>

\* The descriptor of input is closed even if it was closed on end of file.
DroneCloses == <<Close("input_drone"), Close("drone_server")>>

DroneServe(p) ==
  /\ Serving("drone", p) /\ pipe[p] # <<>>
  /\ Take(p)
  /\ \/ /\ Head(pipe[p]) = "STOP"
        /\ Leave("drone", DroneCloses)
        /\ UNCHANGED ready
     \/ /\ Head(pipe[p]) # "STOP"
        /\ ready' = [ready EXCEPT !["drone"] = @ \ {p}]
        /\ UNCHANGED <<status, todo>>
  /\ UNCHANGED <<open, pc, pending, wdVars, WD_pid, konsoles, left>>

\* The pass is over: the server selects again, the drone first reports where
\* its step has taken it.
PassOver(q) ==
  /\ q \in Processes \ pending /\ AtRest(q) /\ pc[q] = "scan" /\ ready[q] = {}
  /\ Goto(q, "select", IF q = "drone" THEN <<Write("drone_server", "D")>> ELSE <<>>)
  /\ UNCHANGED <<pipe, open, status, ready, pending, wdVars, WD_pid, konsoles, left>>

----------------------------------------------------------------------------
(* map.c, target.c and obstacles.c *)

\* What map has to tell the drone (a hit) and the target process (game over).
Reports == {m \in {"TH", "GE"} : (IF m = "TH" THEN "drone" ELSE "target") \in Peers}

\* A frame may make a report.
Frame ==
  \/ Goto("map", "select", <<>>) /\ UNCHANGED left
  \/ /\ left["map"] > 0
     /\ \E m \in Reports : Goto("map", "select", <<Write("map_server", m)>>)
     /\ left' = [left EXCEPT !["map"] = @ - 1]

MapSelect ==
  /\ "map" \in Peers /\ AtRest("map")
  /\ \/ /\ <<"r", "server_map">> \in open /\ pipe["server_map"] # <<>>
        /\ Take("server_map")
        /\ \/ /\ Head(pipe["server_map"]) = "STOP"
              /\ Leave("map", <<Close("map_server"), Close("server_map")>>)
              /\ UNCHANGED <<pc, left>>
           \/ /\ Head(pipe["server_map"]) # "STOP"
              /\ Frame
              /\ UNCHANGED status
        /\ UNCHANGED open
     \/ /\ <<"r", "server_map">> \in open /\ Eof("server_map")
        /\ open' = open \ {<<"r", "server_map">>}
        /\ Frame
        /\ UNCHANGED <<pipe, status>>
     \/ /\ ~Readable("server_map")
        /\ Frame
        /\ UNCHANGED <<pipe, open, status>>
  /\ UNCHANGED <<ready, pending, wdVars, WD_pid, konsoles>>

TargetSend ==
  /\ "target" \in Peers /\ AtRest("target") /\ pc["target"] = "send"
  /\ Goto("target", "read", <<Write("target_server", "T")>>)
  /\ UNCHANGED <<pipe, open, status, ready, pending, wdVars, WD_pid, konsoles, left>>

\* Only STOP leaves the loop; end of file is taken for a new request.
TargetRead ==
  /\ "target" \in Peers /\ AtRest("target") /\ pc["target"] = "read"
  /\ \/ /\ pipe["server_target"] # <<>>
        /\ Take("server_target")
        /\ \/ /\ Head(pipe["server_target"]) = "STOP"
              /\ Leave("target", <<Close("target_server")>>)
              /\ UNCHANGED pc
           \/ /\ Head(pipe["server_target"]) # "STOP"
              /\ Goto("target", "send", <<>>)
              /\ UNCHANGED status
     \/ /\ Eof("server_target")
        /\ Goto("target", "send", <<>>)
        /\ UNCHANGED <<pipe, status>>
  /\ UNCHANGED <<open, ready, pending, wdVars, WD_pid, konsoles, left>>

ObstaclesSend ==
  /\ "obstacles" \in Peers /\ AtRest("obstacles") /\ pc["obstacles"] = "send"
  /\ Goto("obstacles", "select", <<Write("obstacles_server", "O")>>)
  /\ UNCHANGED <<pipe, open, status, ready, pending, wdVars, WD_pid, konsoles, left>>

\* Select ends with a message, with end of file or after the spawn period.
ObstaclesSelect ==
  /\ "obstacles" \in Peers /\ AtRest("obstacles") /\ pc["obstacles"] = "select"
  /\ \/ /\ <<"r", "server_obstacles">> \in open /\ pipe["server_obstacles"] # <<>>
        /\ Take("server_obstacles")
        /\ Leave("obstacles", <<Close("obstacles_server")>>)
        /\ UNCHANGED <<open, pc, left>>
     \/ /\ <<"r", "server_obstacles">> \in open /\ Eof("server_obstacles")
        /\ open' = open \ {<<"r", "server_obstacles">>}
        /\ Goto("obstacles", "send", <<>>)
        /\ UNCHANGED <<pipe, status, left>>
     \/ /\ ~Readable("server_obstacles")
        /\ left["obstacles"] > 0
        /\ Goto("obstacles", "send", <<>>)
        /\ left' = [left EXCEPT !["obstacles"] = @ - 1]
        /\ UNCHANGED <<pipe, open, status>>
  /\ UNCHANGED <<ready, pending, wdVars, WD_pid, konsoles>>

----------------------------------------------------------------------------
(* SIGUSR1, SIGUSR2 and the watchdog *)

Masked(q) == pc[q] = "select" /\ AtRest(q) /\ q \in {"server", "drone"}

\* The handler answers the watchdog.  If it is gone, Kill fails and exits.
Handler(q) ==
  /\ q \in pending /\ ~Masked(q)
  /\ \/ /\ wd # "gone"
        /\ pending' = pending \ {q}
        /\ count' = IF wd = "alive" THEN count + 1 ELSE count
        /\ UNCHANGED <<open, status, todo>>
     \/ /\ wd = "gone"
        /\ End(q, "died")
        /\ UNCHANGED count
  /\ WD_pid' = (WD_pid \/ q = "input")
  /\ UNCHANGED <<pipe, pc, ready, wd, wd_pc, wd_at, konsoles, left>>

\* The next process is signalled; a process that has ended gets nothing.
WDSignal ==
  /\ wd = "alive" /\ wd_pc = "signal"
  /\ pending' = IF status[p_pids[wd_at]] \in Ended THEN pending
                ELSE pending \cup {p_pids[wd_at]}
  /\ wd_pc' = "sleep"
  /\ UNCHANGED <<pipe, open, status, pc, todo, ready, wd, wd_at, count, WD_pid, konsoles, left>>

\* The index of the process to signal after this one.
NextAt_OffByOne == IF wd_at > Len(p_pids) THEN 1 ELSE wd_at + 1
NextAt == IF wd_at = Len(p_pids) THEN 1 ELSE wd_at + 1

\* The count the next check starts from.
NewCount_Kept == count
NewCount == 0

\* The second is over: on to the next process.
WDNext ==
  /\ wd = "alive" /\ wd_pc = "sleep" /\ count > 0
  /\ count' = NewCount
  /\ wd_pc' = "signal"
  /\ wd_at' = NextAt
  /\ UNCHANGED <<pipe, open, status, pc, todo, ready, pending, wd, WD_pid, konsoles, left>>

\* One second is ample for a handler to run and for input or the drone to wake
\* the server.  The count stays at zero when the process has ended, or when it
\* masks the signal in a select that neither of them will end.
Silent(q) ==
  \/ status[q] \in Ended
  \/ /\ q \in pending /\ Masked(q)
     /\ \A p \in Pipes : Reader[p] = q => ~Readable(p)
     /\ \A r \in {"input", "drone"} \cap Processes : status[r] # "run"

WDAlarm ==
  /\ wd = "alive" /\ wd_pc = "sleep" /\ count = 0
  /\ Silent(p_pids[wd_at])
  /\ wd_pc' = "kill"
  /\ wd_at' = 1
  /\ UNCHANGED <<pipe, open, status, pc, todo, ready, pending, wd, count, WD_pid, konsoles, left>>

WDKill ==
  /\ wd = "alive" /\ wd_pc = "kill"
  /\ LET q == p_pids[wd_at]
     IN  IF status[q] \in Ended THEN UNCHANGED <<status, todo, open, pending>>
         ELSE End(q, "killed")
  /\ \/ wd_at < Len(p_pids) /\ wd_at' = wd_at + 1 /\ UNCHANGED <<wd, konsoles>>
     \/ wd_at = Len(p_pids) /\ wd' = "zombie" /\ konsoles' = {} /\ UNCHANGED wd_at
  /\ UNCHANGED <<pipe, pc, ready, wd_pc, count, WD_pid, left>>

\* The program in a konsole has ended and the konsole closes.
KonsoleCloses(q) ==
  /\ q \in konsoles /\ status[q] \in Ended
  /\ konsoles' = konsoles \ {q}
  /\ UNCHANGED <<pipe, open, status, pc, todo, ready, pending, wdVars, WD_pid, left>>

\* master.c waits for its children, the watchdog among them.
MasterWait ==
  /\ wd = "zombie"
  /\ wd' = "gone"
  /\ UNCHANGED <<pipe, open, status, pc, todo, ready, pending, wd_pc, wd_at,
                 count, WD_pid, konsoles, left>>

----------------------------------------------------------------------------

Serve == (\E p \in Pipes : ServerServe(p) \/ DroneServe(p))
           \/ \E q \in {"server", "drone"} : \E p \in Pipes : ServeEof(q, p)

Next ==
  \/ \E q \in Processes : DoWrite(q) \/ DoClose(q) \/ Exit(q) \/ Handler(q)
  \/ \E q \in Processes : KeyAfterError(q) \/ Crash(q)
  \/ KeyP \/ KeyOther \/ InputRead
  \/ \E q \in {"server", "drone"} : SelectReturns(q) \/ PassOver(q)
  \/ Serve
  \/ MapSelect \/ TargetSend \/ TargetRead \/ ObstaclesSend \/ ObstaclesSelect
  \/ WDSignal \/ WDNext \/ WDAlarm \/ WDKill \/ MasterWait
  \/ \E q \in Processes : KonsoleCloses(q)

Spec == Init /\ [][Next]_vars

\* What process q does by itself, one step at a time; it needs no key and no
\* report of map.
Runs(q) ==
  \/ DoWrite(q) \/ DoClose(q) \/ Exit(q)
  \/ q = "input" /\ (KeyOther \/ InputRead)
  \/ q \in {"server", "drone"} /\ (SelectReturns(q) \/ PassOver(q))
  \/ \E p \in Pipes : Reader[p] = q /\ (ServerServe(p) \/ DroneServe(p) \/ ServeEof(q, p))
  \/ q = "map" /\ MapSelect /\ UNCHANGED left
  \/ q = "target" /\ (TargetSend \/ TargetRead)
  \/ q = "obstacles" /\ (ObstaclesSend \/ ObstaclesSelect)

\* Every process runs, signals are delivered, a konsole closes after its program,
\* the watchdog keeps its rounds and master waits for it.
Fairness ==
  /\ \A q \in Processes : WF_vars(Runs(q))
  /\ WF_vars(\E q \in Processes : Handler(q))
  /\ WF_vars(\E q \in Processes : KonsoleCloses(q))
  /\ WF_vars(WDSignal \/ WDNext \/ WDAlarm \/ WDKill \/ MasterWait)

FairSpec == Spec /\ Fairness

----------------------------------------------------------------------------
(* What must be true *)

\* A process whose end nobody planned: killed, or ended by its own handler.
Lost(q) == status[q] \in {"killed", "died"}

\* STOP comes before end of file: a peer that still runs when the server has
\* ended by STOP has the STOP in its pipe (server.c:115-118, 169-178).
NobodyLeftBehind ==
  status["server"] = "done" /\ (\A q \in Processes : ~Lost(q)) =>
    \A p \in Pipes :
      Writer[p] = "server" /\ Reader[p] \in Peers /\ status[Reader[p]] = "run" =>
        \E i \in 1..Len(pipe[p]) : pipe[p][i] = "STOP"

\* The server relays STOP to the end unless a process is lost: its peers keep
\* their pipes open until they have read it.
ServerNotHindered ==
  status["server"] \in {"fail", "hang", "error"} => \E q \in Processes : Lost(q)

\* Unless a process is lost only the drone can fail to close a descriptor.
OnlyDroneHangs ==
  \A q \in Processes : status[q] = "hang" => q = "drone" \/ \E r \in Processes : Lost(r)

\* One count for all processes is enough: whatever it counts is the answer of the
\* process the watchdog is waiting for, never a late one of another (WD.c:24, 40, 146).
AnswerIsOwn ==
  wd = "alive" =>
    /\ wd_pc = "signal" => count = 0 /\ pending = {}
    /\ wd_pc = "sleep" => \/ count = 0 /\ pending \subseteq {p_pids[wd_at]}
                          \/ count = 1 /\ pending = {}

\* p was pressed with the watchdog known and no SIGUSR1 on its way.
CleanPress ==
  /\ status["input"] = "leave"
  /\ wd # "alive" /\ pending = {}
  /\ \A q \in Processes : ~Lost(q) /\ status[q] # "fail"
  /\ todo["input"] # <<>> /\ Head(todo["input"]) = Write("input_server", "STOP")

\* Then every process ends, but for a drone that waits for a key.
CloseCompletes ==
  CleanPress ~> \A q \in Processes : status[q] \in Ended \cup {"hang"}

\* When a process ends, whatever the reason, the watchdog ends all the others,
\* those that fail or hang included, unless the key p kills it first
\* (README.md:187-190).
WatchdogCleans ==
  (wd = "alive" /\ \E q \in Processes : status[q] \in Ended)
    ~> \/ \A q \in Processes : status[q] \in Ended
       \/ wd # "alive" /\ wd_pc # "kill"

----------------------------------------------------------------------------
(* What the documentation promises and the program does not keep *)

\* "all the processes will be safely closed" (README.md:142): no process waits
\* for a key to end when nothing was lost, with the watchdog that would end the
\* wait already killed.
NoHang ==
  \A q \in Processes : status[q] = "hang" =>
    wd = "alive" \/ \E r \in Processes : Lost(r)
============================================================================
