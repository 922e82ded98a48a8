------------------------------ MODULE Startup ------------------------------
(***************************************************************************)
(* How the programs come up: master forks them (Descriptors), each one     *)
(* installs its signal handler, and input and map tell the watchdog their  *)
(* pids through two named pipes that whoever comes first creates.  Then    *)
(* the watchdog signals every process for the first time.                  *)
(*                                                                         *)
(* The named pipes are never removed, so a run may find those of an        *)
(* earlier one.  How long a program takes to come up is left open.         *)
(***************************************************************************)
EXTENDS Naturals, Sequences, FiniteSets

VARIABLES
  forked, closing, table, execed,   \* master and the descriptors
  old,        \* the named pipes left by an earlier run
  fifos,      \* the named pipes that exist
  at,         \* how many calls of its script each program has made
  absent,     \* the programs that have seen that their named pipe is missing
  failed,     \* the programs that wait for a key after a failed mkfifo
  letter,     \* what is in each named pipe: the program whose pid it is
  known,      \* the programs whose pid the watchdog has been told
  signalled,  \* how many processes the watchdog has signalled
  killed      \* the processes that SIGUSR1 found without a handler

Fd == INSTANCE Descriptors

fdVars == <<forked, closing, table, execed>>
vars == <<fdVars, old, fifos, at, absent, failed, letter, known, signalled, killed>>

Paths == {"FIFO1", "FIFO2"}
Nobody == "nobody"

\* The order in which the watchdog signals.
p_pids == <<"input", "map", "server", "drone", "target", "obstacles">>

\* The calls that matter here, in program order.  The close of a named pipe
\* goes with the write or the read before it.
Call(op, path) == [op |-> op, path |-> path]
Handle == Call("Sigaction", Nobody)
Meet(path, op) == <<Call("Mkfifo", path), Call("Open", path), Call(op, path)>>

Script_AnnouncesFirst ==
  [q \in Fd!Programs |->
     CASE q = "input" -> Meet("FIFO2", "Write") \o <<Handle>>
       [] q = "map" -> Meet("FIFO1", "Write") \o <<Handle>>
       [] q = "WD" -> <<Handle>> \o Meet("FIFO2", "Read") \o Meet("FIFO1", "Read")
       [] OTHER -> <<Handle>>]
Script_SameFifo ==
  [q \in Fd!Programs |->
     CASE q \in {"input", "map"} -> <<Handle>> \o Meet("FIFO2", "Write")
       [] q = "WD" -> <<Handle>> \o Meet("FIFO2", "Read") \o Meet("FIFO1", "Read")
       [] OTHER -> <<Handle>>]
Script_MapNotRead ==
  [q \in Fd!Programs |->
     CASE q = "input" -> <<Handle>> \o Meet("FIFO2", "Write")
       [] q = "map" -> <<Handle>> \o Meet("FIFO1", "Write")
       [] q = "WD" -> <<Handle>> \o Meet("FIFO2", "Read") \o <<Call("Mkfifo", "FIFO1")>>
       [] OTHER -> <<Handle>>]
Script ==
  [q \in Fd!Programs |->
     CASE q = "input" -> <<Handle>> \o Meet("FIFO2", "Write")
       [] q = "map" -> <<Handle>> \o Meet("FIFO1", "Write")
       [] q = "WD" -> <<Handle>> \o Meet("FIFO2", "Read") \o Meet("FIFO1", "Read")
       [] OTHER -> <<Handle>>]

\* The calls a program has begun: those it has made and the one it is in.
Begun(q) == {Script[q][i] : i \in 1..(IF at[q] < Len(Script[q]) THEN at[q] + 1 ELSE at[q])}
Made(q) == {Script[q][i] : i \in 1..at[q]}

TypeOK ==
  /\ Fd!TypeOK
  /\ old \subseteq fifos /\ fifos \subseteq Paths
  /\ at \in [Fd!Programs -> 0..7] /\ \A q \in Fd!Programs : at[q] <= Len(Script[q])
  /\ absent \subseteq Fd!Programs /\ failed \subseteq Fd!Programs
  /\ letter \in [Paths -> Fd!Programs \cup {Nobody}]
  /\ known \subseteq {"input", "map"}
  /\ signalled \in 0..Len(p_pids)
  /\ killed \subseteq Fd!Programs

Init ==
  /\ Fd!Init
  /\ old \in SUBSET Paths /\ fifos = old
  /\ at = [q \in Fd!Programs |-> 0]
  /\ absent = {} /\ failed = {} /\ killed = {} /\ known = {}
  /\ letter = [path \in Paths |-> Nobody]
  /\ signalled = 0

----------------------------------------------------------------------------

\* Master and the children up to exec.
Boot ==
  /\ Fd!Fork \/ Fd!FatherClose \/ \E q \in Fd!Programs \ killed : Fd!ChildExec(q)
  /\ UNCHANGED <<old, fifos, at, absent, failed, letter, known, signalled, killed>>

\* Program q runs and is about to make the call.
Calls(q, op, path) ==
  /\ q \in execed \ (failed \cup killed)
  /\ at[q] < Len(Script[q])
  /\ Script[q][at[q] + 1] = Call(op, path)
Return(q) == at' = [at EXCEPT ![q] = @ + 1]

Sigaction(q) ==
  /\ Calls(q, "Sigaction", Nobody)
  /\ Return(q)
  /\ UNCHANGED <<fdVars, old, fifos, absent, failed, letter, known, signalled, killed>>

\* Mkfifo, first system call: access looks whether the named pipe is there.
SeesFifo_Never(path) == FALSE
SeesFifo(path) == path \in fifos

Access(q, path) ==
  /\ Calls(q, "Mkfifo", path) /\ q \notin absent
  /\ \/ SeesFifo(path) /\ Return(q) /\ UNCHANGED absent
     \/ ~SeesFifo(path) /\ absent' = absent \cup {q} /\ UNCHANGED at
  /\ UNCHANGED <<fdVars, old, fifos, failed, letter, known, signalled, killed>>

\* Second system call: mkfifo fails if another process has created it meanwhile.
Mkfifo(q, path) ==
  /\ Calls(q, "Mkfifo", path) /\ q \in absent
  /\ absent' = absent \ {q}
  /\ \/ path \notin fifos /\ fifos' = fifos \cup {path} /\ Return(q) /\ UNCHANGED failed
     \/ path \in fifos /\ failed' = failed \cup {q} /\ UNCHANGED <<fifos, at>>
  /\ UNCHANGED <<fdVars, old, letter, known, signalled, killed>>

\* Opening either end waits for a process that opens the other.
Open(q, path) ==
  /\ Calls(q, "Open", path)
  /\ \E r \in Fd!Programs \ {q} : Call("Open", path) \in Begun(r)
  /\ Return(q)
  /\ UNCHANGED <<fdVars, old, fifos, absent, failed, letter, known, signalled, killed>>

WritePid(q, path) ==
  /\ Calls(q, "Write", path)
  /\ letter' = [letter EXCEPT ![path] = q]
  /\ Return(q)
  /\ UNCHANGED <<fdVars, old, fifos, absent, failed, known, signalled, killed>>

ReadPid(q, path) ==
  /\ Calls(q, "Read", path)
  /\ letter[path] # Nobody
  /\ known' = known \cup {letter[path]}
  /\ letter' = [letter EXCEPT ![path] = Nobody]
  /\ Return(q)
  /\ UNCHANGED <<fdVars, old, fifos, absent, failed, signalled, killed>>

\* SIGUSR1 kills a process that has no handler yet, be it before or after exec.
\* Its descriptors are not followed: the watchdog ends the others next.
WDSignal ==
  /\ "WD" \in execed /\ at["WD"] = Len(Script["WD"])
  /\ signalled < Len(p_pids) /\ killed = {}
  /\ signalled' = signalled + 1
  /\ LET q == p_pids[signalled + 1]
     IN  killed' = IF Handle \in Made(q) THEN killed ELSE {q}
  /\ UNCHANGED <<fdVars, old, fifos, at, absent, failed, letter, known>>

Run(q) ==
  \/ Sigaction(q)
  \/ \E path \in Paths : \/ Access(q, path) \/ Mkfifo(q, path) \/ Open(q, path)
                         \/ WritePid(q, path) \/ ReadPid(q, path)

Next == Boot \/ (\E q \in Fd!Programs : Run(q)) \/ WDSignal

Spec == Init /\ [][Next]_vars

\* Master, every program and the watchdog's rounds go on.
FairSpec ==
  Spec /\ WF_vars(Boot) /\ (\A q \in Fd!Programs : WF_vars(Run(q))) /\ WF_vars(WDSignal)

----------------------------------------------------------------------------
(* What must be true *)

\* The watchdog never kills input or map by asking whether they live: who has
\* told his pid has his handler (input.c:233, 249-258, map.c:177, 196-209).
\* The other four are not waited for.
AnnouncedCanAnswer == killed \cap {"input", "map"} = {}

\* Only a named pipe that was missing can be lost to another process between
\* access and mkfifo, so those left by an earlier run do no harm; and the race,
\* whoever lost it, stops the watchdog for good: it never signals a system of
\* which a part has failed to start (wrapFunc.c:460-461, WD.c:90, 110).
LostRaceBlocks ==
  /\ \A q \in failed : \E path \in Paths \ old : Call("Mkfifo", path) \in Begun(q)
  /\ failed # {} => signalled = 0

\* Without a lost race everybody meets everybody, in whatever order they come:
\* the watchdog reaches the end of its first round.
StartupCompletes ==
  <>(signalled = Len(p_pids) \/ killed # {} \/ failed # {})

\* Every pipe end is left with the one program that uses it, while programs come
\* up that already run (master.c:245-246, "close all the unused pipes").
OneHolder == Fd!OneHolder

\* No Close in master or in a child names a descriptor that is closed: the
\* wrapper would wait for a key and the program would never start.
ClosesAreOpen == Fd!ClosesAreOpen
============================================================================
