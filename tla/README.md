# A verification project for the drone simulation

TLA+ models of the processes under `src/`, checked with TLC and, where it is
said so, proved with TLAPS. Line numbers refer to the files under `src/`.

## 1. The system

`master` opens eleven pipes and starts seven programs. One message is one write
of `MAX_MSG_LEN` = 1024 bytes, below `PIPE_BUF`, so writes are atomic, a pipe
is a FIFO queue of whole messages and holds 64 of them. Every process also
answers the watchdog's SIGUSR1 with SIGUSR2 in a signal handler.

    input --input_drone--> drone          force x|y
    input --input_server-> server         U (update request), STOP
    server --server_input--> input        position and velocity
    drone --drone_server--> server        position and velocity
    server --server_drone--> drone        T set, TH hit, O obstacles, STOP
    server --server_map--> map            D position, T set, O obstacles, STOP
    map --map_server--> server            TH hit, GE game end
    target --target_server--> server      T set
    server --server_target--> target      GE, STOP
    obstacles --obstacles_server--> server    O obstacles
    server --server_obstacles--> obstacles    STOP

### Components, state and operations

| part | source | state | operations |
|---|---|---|---|
| master | `src/master.c` | pipe ends, children | fork, close, exec, wait |
| server | `src/server.c` | watched descriptors, last position | select pass: relay a message, answer U, relay STOP, end of file; close |
| map | `src/map.c` | target and obstacle arrays with their counts, drone position, score, screen cells | read D/T/O/STOP, time out, draw a frame: hits, free cells, GE |
| drone | `src/drone.c` | its own arrays and counts, force, the last two positions, parameters | read T/TH/O/force/STOP, end of file, one step of the dynamics, report |
| input | `src/input.c` | force, watchdog's pid, last position | key, force update, update request, key p |
| target | `src/target.c` | none between sets | draw a set, wait for GE or STOP |
| obstacles | `src/obstacles.c` | none between sets | draw a set every 20 s, STOP, end of file |
| watchdog | `src/WD.c` | pids, answer count | signal in turn, sleep 1 s, check, kill all |
| wrappers | `headers/wrapFuncs/wrapFunc.c` | none | system calls that end the process on an error, after `sleep(100)` (Read, Write), a key (Close and most others) or at once (Kill) |
| utilities | `headers/utils/utils.c` | none | configuration parser, `tokenization`, `remove_target`, log |

### What is hard, and what makes each part correct

* **Targets** are held three times: as the message that was drawn, as the map's
  array and as the drone's array. The map decides hits while it runs over its
  array, the drone follows by index. Correct means: every target is scored once,
  the drone is attracted by the targets the map shows, a new set comes exactly
  when the old one is used up, and nobody blocks for ever on a full pipe.
* **Closing** races five processes, end of file, EPIPE, signals held back by a
  masked select and the watchdog. Correct means: STOP reaches every process,
  every process ends, and the watchdog neither interferes nor leaves anything
  behind when a process is lost.
* **Pipe ends** must be left with one holder each, or end of file never comes.
* **The watchdog** counts the answers of all processes in one counter.
* **Start-up** uses two named pipes created by whoever comes first.
* **Numbers**: the dynamics divides by distances and clamps positions; the
  screen may have no free cell; the parser has fixed arrays.

The hazards, each at its line and with the properties that cover it, are listed
in `PROJECT.json`.

## 2. What is modelled

### Targets (`Targets.tla`), the core

One action per branch or step of the four processes:

| action | code |
|---|---|
| `TargetSend`, `TargetRead` | `target.c:71-90`, `92-103` |
| `ServerPosition`, `ServerFromMap`, `ServerFromTarget` | the branches of `server.c:129-160`; they queue their `Write` calls in `to_write` |
| `ServerWrite` | the next of these calls; it blocks while the pipe is full |
| `MapRead`, `MapTimeout` | `map.c:265-304`, and the select that timed out |
| `MapHit`, `MapDraw` | one turn of the target loop, `map.c:342-384` |
| `MapEndFrame` | `map.c:386-427` |
| `DroneRead` | `drone.c:219-254` |

The index `frame` is the loop variable, `to_decrease` the flag of the code. The
array keeps its stale entries as the code does, and an entry never written is
`Junk`. Arrays are 1-based here.

Abstractions: coordinates are model values, and integers printed with three
decimals, so what the drone compares in `drone.c:231` is exact. The window is
a function from coordinates to cells that may change between frames
(`layout`); a hit is an equality of cells, because `find_spot` never puts a
target on the drone and a target that starts on the drone is not moved. The
score is the number of increments (`awards`). Positions come from the drone
at any time (`ServerPosition`): the dynamics is not part of this module. The
server serves one ready descriptor at a time; the code serves all that are
ready in descriptor order, which is one of the orders of the model. STOP
and obstacles do not occur in this module.

`TargetGame.tla` is the abstract promise: sets come into play one after the
other, targets are reached one at a time, and the drone learns of every change
in order. `Targets` implements it (`PlaysGame`) under the mapping: the set in
play is what the map holds, or what is on its way to it; the news are what the
drone's array will be after each message on its way.

### Closing (`Shutdown.tla`)

Each handler is the list of the system calls it makes (`todo`), one step each,
so that every other process, signal and watchdog step can come in between. A
process is in its loop (`run`), closing (`leave`), in the sleep of a failed
write (`fail`), in the `getchar` of a failed close (`hang`), or ended: `done`,
`error`, `died` (in its own signal handler), `killed`. `open` holds the pipe
ends that the programs have open. The konsoles in which input and map run
inherit the same ends from master and never use them; `konsoles` holds those
that still run. A konsole closes some time after its program (`KonsoleCloses`) or
is killed by the watchdog after all the rest (`WD.c:162-164`). End of file and
EPIPE follow from both: they come when neither the program nor its konsole has
the other end (`Eof`, `HasReader`). The server and the drone take
a snapshot of the ready descriptors and serve it in descriptor order, and
SIGUSR1 is held back while they are in select (`Masked`). The watchdog's round
(`WDSignal`, `WDNext`, `WDAlarm`, `WDKill`) and master's wait (`MasterWait`)
are steps of their own, so a killed watchdog is a zombie before it is gone.

Abstractions: a message is its kind. One second is long: a process that can
run its handler has answered before the check (`Silent`), and input or the
drone wake the server's select within it. What the program does with the stale
buffer after end of file is not followed, only that it goes on. Map reports what
a process of the instance is told of (`Reports`): a hit needs the drone, the end
of a game the target process.

### Start-up (`Descriptors.tla`, `Startup.tla`)

`Descriptors` is the fork loop of `master.c:77-289`: `Fork` copies the table of
master, `FatherClose` makes one of master's closes, `ChildExec` the child's
closes and its exec. `Startup` extends it by what the programs do next, each
following a `Script` of the calls that matter:

| action | code |
|---|---|
| `Boot` | master and the children up to exec (`Descriptors`) |
| `Sigaction` | the handlers of `server.c`, `drone.c`, `input.c`, `map.c`, `target.c`, `obstacles.c`, `WD.c` |
| `Access`, `Mkfifo` | the two system calls in `Mkfifo`, `wrapFunc.c:459-475` |
| `Open`, `WritePid`, `ReadPid` | `input.c:249-258`, `map.c:196-209`, `WD.c:80-118` |
| `WDSignal` | the first round, `WD.c:120-134` |

The named pipes of an earlier run may be there (`old`), or not. SIGUSR1 to a
process without a handler ends it, before or after its exec. `Open` of a named
pipe waits until the other side has begun its own. Master's table is the
initial state of `Targets` and `Shutdown`: every end is open at one process.

### Parameters (`Params.tla`)

`read_parameter_file` as an automaton over kinds of lines: `ReadLine` is one
turn of the loop (`utils.c:64-135`), `ReadLastLine` the same for a line that
has no newline and therefore loses a character that counts, `ReadEof` the store
at the end. `Lookup` is `get_param`. The variable `aux`, which the code does not
initialise, starts with an empty name or one longer than any title, and its keys
are zeroes or random. A value is a natural number, so the lost character
divides it by ten and may make a number of a value that was none (`Shortened`);
titles are equally long. A section is stored whether the array has a slot for it or
not (`Push`), as in the code; `Overrun` says that it has not. The second fixed array,
`MAX_VALUES_FOR_PROCESS` pairs in a section, holds 30 and is not reached by files
of five lines; it is not modelled. `Meaning` is the reference: what the file
says, defined over its lines without the parser, where a title ends the section
before it as a blank line does. `BlockOf` is the weaker notion that the parser
keeps to in every file: the lines between two blank ones.

### A frame (`Screen.tla`)

`DrawTarget` and `DrawObstacle` are one turn of the loops at `map.c:342-384` and
`392-419`; `TargetsDone` and `NextFrame` are the rest of the main loop, with a
terminal whose size may change between frames. `ToCell` is the conversion of
coordinates, in integers, `IsOverlapping` and `FindSpot` are the functions of
`map.c:73-161` with their order of search. Targets and obstacles come at any
position. The positions of the drone include the one a NaN is converted to, for
which `Dynamics` shows that it occurs. `MAX_RING` is the bound of 101 in the
code. This module is why `Targets` may model a hit by an equality of cells.

### The force and the motion (`Force.tla`, `Dynamics.tla`)

| action | code |
|---|---|
| `InputTurn` | a turn of the loop: `input.c:342-384`, `update_force` `input.c:146-216`, the message |
| `InputEnds` | the key p, and the end of the server |
| `EditFile` | the user; outside the program |
| `DroneReadsForce`, `DroneReadsObjects`, `DroneStops` | the branches of `drone.c:202-268` |
| `DroneEof` | end of file: the pipe is dropped and the buffer interpreted once more |
| `UserForce`, `NewSituation` | a new message from input or the server, as `Move` sees it |
| `Move` | the step: the forces `drone.c:33-42`, `275-381`, the equation `387-425`, the clamps `427-443` |

In `Force` a force is a pair of integers, half of a step on a diagonal is
`7071/10000` of it rounded down. The buffer of the drone is what was read last,
or junk before the first message; junk may spell a force (`Wild`).

In `Dynamics` mass, viscosity and time step are 1, so velocity and force move
the drone by half their sum, rounded either way. The float arithmetic at a
distance of zero is kept: `NaN`, `Inf` and `NegInf` are model values, `Plus` and
`Minus` follow IEEE 754, comparisons with NaN fail, and what a force returns at
zero distance or zero speed is what its formula gives. The size of a finite
force is left open, up to the caps of the code; the walls have none there, so
`MaxWallForce` is a bound of the model. Targets and obstacles appear in three
situations: out of reach, near, and on the drone, where the formulas degenerate.

## 3. The runs

| run | instance | question |
|---|---|---|
| `targets_distinct` | N = 3, 3 positions, all on different cells, pipes of one message | type, every target scored once, drone and map agree, no report dropped, refinement of `TargetGame` |
| `targets_shared` | N = 2, all 9 sets, a window in which two positions share a cell | what holds without any assumption on the window: order of sets, room in `map_server`, the inductive invariant; a used-up set is replaced, every hit reaches the drone |
| `shared_agrees` | as above | violated: two hits in one frame |
| `shutdown_relay` | drone and map | STOP relay, no obstacle to the server, hangs, answers of the watchdog |
| `shutdown_live` | target and map | STOP before end of file; after a clean p everything ends |
| `shutdown_crash` | obstacles, one crash | the watchdog ends everything |
| `close_hang` | drone | violated: input's end of file before STOP, without a watchdog |
| `startup` | the real seven programs and eleven pipes, any named pipes left over | each end is left with one holder, no close fails, the meetings complete or stop the watchdog, nobody who announced himself is killed by the first signal |
| `params` | files of up to five lines, two sections of two parameters, three slots | the parser returns what a well-formed file says; blank lines divide any file; when the slots are overrun |
| `screen` | windows of 1, 4, 6 and 9 cells, three targets, two obstacles | a cell for every object, none on the drone, the nearest one, exit only when full |
| `dynamics` | a 7 x 7 field, forces 0 and +-9 | where a coordinate is lost, rest, walls |
| `force` | two limits, one step, a pipe of two messages | shown and applied force, the stop key, end of file |

**Bounds.** Three targets give a first, a middle and a last entry, so that
removal shifts entries and stale tails occur; two are enough for two hits in
one frame. Pipes of one message make every write block somewhere; only
`map_server` must hold a whole set's reports, as it does in the program: 56 of
64 messages (`RoomAssumption`). In `Shutdown` the instance has one or two of the
four peers: peers exchange messages with the server only, and the drone with
input as well. `server_drone` holds four messages, for the STOP and one of each
kind of the others: with less, server and drone could block each other on
traffic that 64 messages absorb. `Budget` bounds the reports
and obstacle sets that are sent besides; `Crashes` the processes ended from
outside. `startup` has no bound. In `params`, five lines give two sections
and a blank line before, between or after them, and three slots are overrun by
three blank lines, as five are by five. In `screen` the largest window has nine
cells and the smallest is filled by its first object; two squares around any
cell cover all of it. In `dynamics` a force of 9 crosses the field in a turn, so
every wall is met from inside, at rest and in flight. In `force` two limits
around the step make the clamp weaken, keep and turn a force.

Deadlock is checked in the runs of `Targets`. Elsewhere the system is meant to
stop (`Shutdown`, `Startup`, `Params`, `Screen` after an exit) or never does
(`Dynamics`, `Force`), so it is not.

**Fairness.** In `Targets` each process keeps running its loop: weak fairness
for each action of target, map and drone and for the server's next write;
strong fairness for the server's two sources, since the branch is disabled
while another is being executed and a select pass serves every ready
descriptor. Nothing forces a hit, a timeout or a new position. In `Shutdown`
every process, the delivery of signals, the konsoles and the watchdog with
master's wait for it are weakly fair (`Runs` is what one process does by itself,
one step at a time); no key is ever pressed by fairness, neither p nor the one a
failed close waits for, no crash is forced, and the map's loop is fair without
the branch that reports a hit or the end of the game. In `Startup` master,
every program and the watchdog's round are weakly fair. In `Force` only the
drone is: it polls its pipes in every turn. The other runs check safety only.

## 4. What the runs show

What holds:

* With targets on different cells the three copies of a set agree through every
  interleaving and the processes play the abstract game. Whatever the window,
  a set never overtakes the end of the one before and the map never blocks in
  `Write`.
* STOP reaches every process before end of file; the server completes the relay
  unless a process was lost; only the drone can hang; after a p without a
  signal on its way all processes end, save for a drone waiting for a key. If
  the watchdog is alive, no lost process leaves others behind. Its counter is
  never fed by another process.
* Every pipe end has one holder, in every order of forks and execs. Input and map
  have their handler before they tell their pid. A lost race for a named
  pipe stops the watchdog before it signals anybody.
* A well-formed file, with a blank line before every title and nothing but comments
  between them, is parsed to what it says, whatever was on the stack. In any
  file whose last line is complete a process gets a parameter only from between
  two blank lines where its title stands too.
* Every object of a frame has its own cell, the nearest free one, never the
  drone's; the map exits only when the window is full.
* A drone at rest is moved by the user alone. A coordinate is lost only at rest
  exactly on a wall, on a target, or near a wall when the other one is lost
  already. The walls it crosses at the left, right and top put
  it back where it came from.
* Input never shows a force that is stronger than the applied one or opposite to
  it, and the stop key reaches the drone.

What does not (`findings` in `PROJECT.json`):

1. Two targets on the drone's cell in one frame: both are scored and reported,
   one is taken out of the map's count (`map.c:373`, `386-387`). The drone ends
   with one target less than the map. `ScoredOnce` and `NoMismatch` fail on the
   same window: the remaining target is scored again, and with three targets a
   later report is dropped as mismatched.
2. The drone can see input's end of file before STOP, once input's konsole has
   closed as well, closes that descriptor twice and waits for a key, with no
   watchdog left to end the wait (`close_hang`).

More can be read off the models. It has no run of its own, because no text of the
repository says otherwise, or because a property of a passing run says what
happens and its comment what the text says:

* A target in the exact position of the drone costs it its y coordinate with the next
  move: the attraction has no least distance (`drone.c:322`), though README.md:115-129
  gives one for the "repulsive (and attractive, by means of a +/- sign) force".
  `NaNOrigin` says so.
* From beyond the lower wall the drone is put under the upper one (`drone.c:441`),
  although the comment above says that all walls are alike (`drone.c:434`). It is
  the exception in `FliesStraight`.
* A title without a blank line before it takes over the pairs of the title before
  (`utils.c:95-105`), unlike in TOML, which README.md:194 says the file follows.
  `BlanksDivide` speaks of the lines between two blank ones for that reason, and
  `ParserAgrees` asks for a blank line before every title.
* A p before input's first SIGUSR1 leaves the watchdog alive, since input does not
  know it yet (`input.c:364`); it takes the end of input for a failure and kills
  whatever is still closing, which the comment at `input.c:358-361` means to
  prevent. `CloseCompletes` asks for a watchdog that is not alive.
* A SIGUSR1 held back by the server's select can be answered after the watchdog
  has been waited for: `Kill` fails in the handler (`server.c:27`) and the server
  exits without STOP. `CloseCompletes` asks for a p with no signal on its way.
* The drone can be broken off by EPIPE when it writes its position after the server
  has closed the pipe.
* A process that loses the race for a named pipe waits for a key; the watchdog
  waits for it for ever. Server, drone, target and obstacles are not waited for
  and may be killed by the first SIGUSR1 when they come up slowly.
* The shipped `drone_parameters.toml` fills all slots of the array: one blank line
  more is one too many. A last line without a newline is misread.
* After a lowered `max_force` the displayed force is weaker than the one the
  drone applies until the next key (README.md:141 calls it the force applied).
* A position that is not a number stays so.
* `can_display_drone` (`map.c:393-400`) never becomes false.

## 5. What is proved

All proofs hold for every value of the constants that the named assumption of
the module allows. Every invariant and every action property of the passing runs
has its theorem, the refinement of `TargetGame` too.

| module | theorem | property |
|---|---|---|
| `TargetsProofs` | `TypeCorrect`, `Invariant` | `TypeOK`, `IndInv` |
| | `FreshSet`, `ReportsFit` | `FreshSetOnlyWhenCleared`, `MapWriteNeverBlocks` |
| `AgreementProofs` | `OnePointEach`, `DroneFollows`, `NoReportDropped` | `ScoredOnce`, `DroneAgrees`, `NoMismatch` |
| | `PlaysTheGame` | `PlaysGame`, the refinement |
| `ShutdownProofs` | `ShutdownTypes`, `OwnAnswers` | `TypeOK`, `AnswerIsOwn` |
| | `StopReachesAll`, `StopIsRelayed`, `OthersClose` | `NobodyLeftBehind`, `ServerNotHindered`, `OnlyDroneHangs` |
| `StartupProofs` | `StartupTypes`, `AnnouncedAnswer`, `RaceBlocks` | `TypeOK`, `AnnouncedCanAnswer`, `LostRaceBlocks` |
| | `EndsHaveOneHolder`, `EveryCloseSucceeds` | `OneHolder`, `ClosesAreOpen` |
| `ScreenProofs` | `ScreenType`, `OwnCells`, `DroneVisible` | `TypeOK`, `EachOnItsOwn`, `DroneStaysFree` |
| | `NearestSpot`, `ExitsWhenFull` | `SpotIsNearest`, `ExitsOnlyWhenFull` |
| `ParamsProofs` | `ParamsTypes`, `ParserIsRight` | `TypeOK`, `ParserAgrees` |
| | `OwnBlockOnly`, `BlanksOverrun` | `BlanksDivide`, `BlanksFillSlots` |
| `ForceProofs` | `ForceType`, `ShownForce`, `EofKeepsForce` | `TypeOK`, `ShownIsWeaker`, `ForceSurvivesEof` |
| `DynamicsProofs` | `DynamicsType`, `LostCoordinate` | `TypeOK`, `NaNOrigin` |
| | `NothingPushesAtRest`, `KeepsDirection` | `RestIsStable`, `FliesStraight` |

Two hypotheses stand in the theorems themselves. `DistinctCells`: no two targets
of a set fall on one cell of any window. The code does not see to it, and
`shared_agrees` shows what happens without it; TLC evaluates it for the window
of `targets_distinct` (`WideAssumption`). `SearchReaches`: the squares of
`find_spot` are more than the objects and the drone, as the 101 of the code are, or
reach across the window, as the two of run `screen` do.

**Targets.** The inductive invariant `IndInv` (also checked by TLC in
`targets_shared`) has four parts. `TypeInv` adds to the types that entries in
play are never junk. `QueuesOK` says which kinds of messages each pipe can
carry. `OneHolder` is the argument behind the order of sets: a baton is always
in at most one of eight places (target about to send, a set in each of three
places on its way, a set in play, GE in each of two places, ...), and each step
hands it on. `RoomOK` bounds the backlog: a set of n remaining targets can
still cause at most n(n+1)/2 reports even if cells are shared, since each frame
with a hit lowers the count, so reports waiting plus reports possible never
exceed N(N+1)/2. The plain properties are not inductive: nothing in them says
that a set and a GE cannot be on their way at the same time, or how many reports
are still possible.

**Agreement.** Within a frame (`FrameInv`) the entries in play stay apart, and
after a hit no entry that the loop has still to visit is on the drone's cell, the
stale last one included (`RemoveApart`): one hit a frame, and a score that
makes N with what is left. `DroneTold` says that the messages under way, applied in
turn, leave the drone with the set in play, and that each report names an entry
the drone has at that moment. It is kept because a step either moves a message
along (`SetWay`, `HitWay`, `SameWay`), adds one at the end together with the
change it tells of (`TellsSet`, `TellsHit`), or takes the first one away as the
drone applies it (`TellsTail`). `DroneAgrees` and `NoMismatch` are its two
halves. What a queue of messages makes of the drone is a recursive function;
its equation is not a definition for the prover and is derived
(`HistoryExists`, `HeardIsHistory`) by an induction over the numbers that is
proved by counting (`Induction`). The refinement follows: the news of
`TargetGame` are the arrays after each message, and each action is mapped to
`Spawn`, `Reach`, `Learn` or a stutter (`GameStep`).

**Shutdown.** `AnswerIsOwn` is inductive as it stands: a signal is sent only when
none is pending and none is counted, a process answers once for a pending
signal, and a process that ends takes its signal along. `Types` is inductive
too, once the calls of each process are on its own pipes. The rest needs `Inv`:
as long as no process is lost (`Calm`), a process that leaves has writes and then
closes before it, each of an end that is open (`Orderly`; the drone, which may
close one twice, has `DroneReady` instead); the server writes STOP when it
leaves and only then (`ServerLeads`); a peer runs, with all its ends open, until
its STOP has come and it has read it (`Told`); and between input and server there
is one request or one answer at a time, so the last answer finds input
still there (`Request`). None of the three properties mentions who still holds
which end, so none is inductive. The konsoles take no part in it: a read end that is
open has a reader, and end of file needs a write end that is closed, with or
without them. A crash ends `Calm` and with it all claims.

**Startup.** `Inv` follows the two meetings: a pid that is in a named pipe, or that
the watchdog has read, was written by input or map as the last call of its
script (`Met`); who misses a pipe, or has lost the race for it, still stands
before its `mkfifo` (`AtMkfifo`). The watchdog signals after both meetings, so
both have their handler and nobody can be left before an `mkfifo`. Neither
property says this of the pipes, so neither is inductive. `FdInv` does the
descriptors: after the n-th fork master keeps what the later programs need
(`Kept`) and what it has still to close, a child has what master had at its fork,
and the lists of closes, spelled out as sets, take each end once.

**Screen.** `Frame` is the type, the two properties and that the sets of cells are
finite, which the counting of `EachOnItsOwn` needs, and that of `TypeOK`: an
entry of the array for each object drawn so far and no more. The lemmas behind it are
that a cell that is not overlapping, or that `FindSpot` returns, is inside the
border and free, so each turn of a loop adds exactly one cell. `RingIs` says
that the four pieces of a square are the cells at that distance, whence the
nearest one. If no square has a free cell, but one beyond them is free, there are
cells of every distance in between (`Path`), all taken: more than there are
objects.

**Parameters.** A line is open if no blank line follows it. While the file is read
the slots hold what the closed lines say and `aux` what the open ones say. For
any file that is `OwnInv`: pairs and names come from lines of their block. For
one without two titles in a block (`Separated`) it is `AgreeInv`: pairs are in
the order of their lines, and the first slot that has a key is the first block
that says it (`Collected`). In a well-formed file the blocks say what the titles
say (`WellFormedBlocks`), which makes it `ParserAgrees`.
A last line without a newline leaves a state in which only what that line says
can differ (`Ready`). `BlanksInv` counts a slot for each blank line and one for a
last line that was emptied.

**Force.** `Inv` is the type, the property itself and that a force in the
buffer of the drone is the one it applies. The last part is what makes the
second interpretation at an end of file harmless. The clamp of input can only
weaken the force (`UpdatedForce`), and a key makes shown and last sent equal.

**Dynamics.** `Inv` adds to the type that a coordinate that is a number was one in
the turn before: the speed is then a number too. `MovedCoordinates` collects
where a NaN can come from: the walls, the targets, or a lost coordinate. No
infinity of a capped force is left to meet that of a wall. On a target the force
is NaN and every move loses y (`OnTargetLost`). For `FliesStraight` the walls
exert nothing out of their reach and half the sum of speed and force has their
common sign however it is rounded (`OpenField`); the clamps keep to it, except
that of the lower wall, which the property names.

Only model-checked: the liveness properties `NewSetArrives`, `HitsReachDrone`,
`StopReachesDrone`, `CloseCompletes`, `WatchdogCleans` and `StartupCompletes`,
because fairness and `ENABLED` are beyond the prover. The findings are
counterexamples.

## 6. Plan

The modules of the plan are written, and what could be proved of their
properties is. What is left is liveness, for which TLC's instances stand.

## 7. What is not modelled

* Displays, log and the wording of messages; the contents of a message beyond
  what its reader does with it.
* Periods of time. How far obstacle sets and positions fill the pipes between
  server, map and drone depends on the pauses of each loop; a model without
  clocks would only say that a slow reader can fill any pipe. The program has
  one second for it, after which the watchdog ends a process that stands still.
* What target, map and obstacles make of a stale buffer after end of file; in
  the drone, the same for messages other than a force.
* The re-reading of parameters in the drone, which has no partner to disagree
  with, and the number of pairs in a section of the file.
* Failing `exec`, `fork` or allocation, and wrappers that only report an error
  and exit. In `Descriptors` a konsole is taken with its program.
* Build files and data.
