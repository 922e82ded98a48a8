---------------------------- MODULE StartupProofs ----------------------------
(***************************************************************************)
(* Proofs about Startup: in every order in which the programs come up, who *)
(* has told the watchdog his pid can answer it, a lost race for a named    *)
(* pipe stops the watchdog before it signals anybody, no close fails, and  *)
(* every pipe end is left with the one program that uses it.               *)
(***************************************************************************)
EXTENDS Startup, SequenceTheorems, TLAPS

SevenPrograms == {"server", "drone", "input", "map", "target", "obstacles", "WD"}

LEMMA TheProgramsAre == Fd!Programs = SevenPrograms
<1>1. Fd!programs = <<"server", "drone", "input", "map", "target", "obstacles", "WD">>
  BY DEF Fd!programs
<1>2. Fd!ToSet(Fd!programs) = {Fd!programs[i] : i \in DOMAIN Fd!programs}
  BY DEF Fd!ToSet
<1>3. DOMAIN Fd!programs = {1, 2, 3, 4, 5, 6, 7}
  BY <1>1
<1> QED
  BY <1>1, <1>2, <1>3 DEF Fd!Programs, SevenPrograms

LEMMA MeetIs ==
  ASSUME NEW path, NEW op
  PROVE  /\ Len(<<Handle>> \o Meet(path, op)) = 4
         /\ (<<Handle>> \o Meet(path, op))[1] = Handle
         /\ (<<Handle>> \o Meet(path, op))[2] = Call("Mkfifo", path)
         /\ (<<Handle>> \o Meet(path, op))[3] = Call("Open", path)
         /\ (<<Handle>> \o Meet(path, op))[4] = Call(op, path)
BY DEF Meet

LEMMA ScriptIs ==
  /\ Script["input"] = <<Handle>> \o Meet("FIFO2", "Write")
  /\ Script["map"] = <<Handle>> \o Meet("FIFO1", "Write")
  /\ Script["WD"] = <<Handle>> \o Meet("FIFO2", "Read") \o Meet("FIFO1", "Read")
  /\ \A q \in SevenPrograms \ {"input", "map", "WD"} : Script[q] = <<Handle>>
BY TheProgramsAre DEF Script, SevenPrograms

\* The calls of every program, by their place.
LEMMA Places ==
  /\ Len(Script["input"]) = 4 /\ Len(Script["map"]) = 4 /\ Len(Script["WD"]) = 7
  /\ \A q \in SevenPrograms : Script[q][1] = Handle /\ Len(Script[q]) \in Nat
  /\ \A q \in SevenPrograms \ {"input", "map", "WD"} : Len(Script[q]) = 1
  /\ Script["input"][2] = Call("Mkfifo", "FIFO2") /\ Script["map"][2] = Call("Mkfifo", "FIFO1")
  /\ Script["input"][3] = Call("Open", "FIFO2") /\ Script["map"][3] = Call("Open", "FIFO1")
  /\ Script["input"][4] = Call("Write", "FIFO2") /\ Script["map"][4] = Call("Write", "FIFO1")
  /\ Script["WD"][2] = Call("Mkfifo", "FIFO2") /\ Script["WD"][5] = Call("Mkfifo", "FIFO1")
  /\ Script["WD"][3] = Call("Open", "FIFO2") /\ Script["WD"][6] = Call("Open", "FIFO1")
  /\ Script["WD"][4] = Call("Read", "FIFO2") /\ Script["WD"][7] = Call("Read", "FIFO1")
<1>1. /\ Len(Script["input"]) = 4 /\ Script["input"][1] = Handle
      /\ Script["input"][2] = Call("Mkfifo", "FIFO2")
      /\ Script["input"][3] = Call("Open", "FIFO2")
      /\ Script["input"][4] = Call("Write", "FIFO2")
  BY ScriptIs, MeetIs
<1>4. /\ Len(Script["map"]) = 4 /\ Script["map"][1] = Handle
      /\ Script["map"][2] = Call("Mkfifo", "FIFO1")
      /\ Script["map"][3] = Call("Open", "FIFO1")
      /\ Script["map"][4] = Call("Write", "FIFO1")
  BY ScriptIs, MeetIs
<1>2. /\ Len(Script["WD"]) = 7
      /\ Script["WD"][1] = Handle
      /\ Script["WD"][2] = Call("Mkfifo", "FIFO2") /\ Script["WD"][5] = Call("Mkfifo", "FIFO1")
      /\ Script["WD"][3] = Call("Open", "FIFO2") /\ Script["WD"][6] = Call("Open", "FIFO1")
      /\ Script["WD"][4] = Call("Read", "FIFO2") /\ Script["WD"][7] = Call("Read", "FIFO1")
  BY ScriptIs DEF Meet
<1>3. \A q \in SevenPrograms \ {"input", "map", "WD"} :
        Len(Script[q]) = 1 /\ Script[q][1] = Handle
  <2>1. Len(<<Handle>>) = 1 /\ <<Handle>>[1] = Handle
    OBVIOUS
  <2> HIDE DEF Handle
  <2> QED
    BY <2>1, ScriptIs
<1>5. \A q \in SevenPrograms : Script[q][1] = Handle /\ Len(Script[q]) \in Nat
  <2> TAKE q \in SevenPrograms
  <2>1. CASE q \in SevenPrograms \ {"input", "map", "WD"}
    BY <1>3, <2>1
  <2>2. CASE q = "input" \/ q = "map" \/ q = "WD"
    BY <1>1, <1>2, <1>4, <2>2
  <2> QED
    BY <2>1, <2>2
<1> QED
  BY <1>1, <1>2, <1>3, <1>4, <1>5

----------------------------------------------------------------------------

Types ==
  /\ at \in [SevenPrograms -> Nat] /\ \A q \in SevenPrograms : at[q] <= Len(Script[q])
  /\ absent \subseteq SevenPrograms /\ failed \subseteq SevenPrograms
  /\ letter \in [Paths -> SevenPrograms \cup {Nobody}]
  /\ signalled \in 0..Len(p_pids)
  /\ old \subseteq fifos

\* A pid in a named pipe, or read from it, was written by its program.
Met ==
  /\ letter["FIFO2"] # Nobody \/ at["WD"] > 3 => at["input"] > 3
  /\ letter["FIFO1"] # Nobody \/ at["WD"] > 6 => at["map"] > 3

\* Who misses a named pipe, or has lost the race for it, stands before its mkfifo,
\* and the run did not begin with this pipe.
Before(q, path) ==
  at[q] < Len(Script[q]) /\ Script[q][at[q] + 1] = Call("Mkfifo", path)
AtMkfifo == \A q \in absent \cup failed : \E path \in Paths \ old : Before(q, path)

Inv ==
  /\ Types /\ Met /\ AtMkfifo
  /\ signalled > 0 => at["WD"] = 7
  /\ AnnouncedCanAnswer

\* Where a program is that makes a call.
LEMMA CallPlace ==
  ASSUME Types, NEW q \in SevenPrograms, NEW op, NEW path, Calls(q, op, path)
  PROVE  /\ op = "Write" => \/ q = "input" /\ path = "FIFO2" /\ at[q] = 3
                            \/ q = "map" /\ path = "FIFO1" /\ at[q] = 3
         /\ op = "Read" => q = "WD" /\ \/ at[q] = 3 /\ path = "FIFO2"
                                       \/ at[q] = 6 /\ path = "FIFO1"
         /\ op # "Read" => ~(q = "WD" /\ at[q] \in {3, 6})
<1>1. at[q] \in Nat /\ at[q] < Len(Script[q]) /\ Script[q][at[q] + 1] = Call(op, path)
  BY DEF Types, Calls
<1>2. Script[q][at[q] + 1].op = op /\ Script[q][at[q] + 1].path = path
  BY <1>1 DEF Call
<1>3. CASE q \in {"input", "map"}
  <2>1. at[q] \in {0, 1, 2, 3}
    BY <1>1, <1>3, Places
  <2> QED
    BY <1>2, <1>3, <2>1, Places DEF Call, Handle
<1>4. CASE q = "WD"
  <2>1. at[q] \in {0, 1, 2, 3, 4, 5, 6}
    BY <1>1, <1>4, Places
  <2> QED
    BY <1>2, <1>4, <2>1, Places DEF Call, Handle
<1>5. CASE q \notin {"input", "map", "WD"}
  <2>1. at[q] = 0
    BY <1>1, <1>5, Places
  <2> QED
    BY <1>2, <1>5, <2>1, Places DEF Call, Handle
<1> QED
  BY <1>3, <1>4, <1>5

\* A call that returns moves its program alone one place on.
LEMMA Returns ==
  ASSUME Types, NEW q \in SevenPrograms, NEW op, NEW path, Calls(q, op, path), Return(q)
  PROVE  /\ at' \in [SevenPrograms -> Nat]
         /\ \A r \in SevenPrograms : at'[r] <= Len(Script[r])
         /\ at'[q] = at[q] + 1 /\ \A r \in SevenPrograms \ {q} : at'[r] = at[r]
         /\ q \notin failed
         /\ op # "Mkfifo" => \A p \in Paths : ~Before(q, p)
<1>1. at \in [SevenPrograms -> Nat] /\ at[q] < Len(Script[q]) /\ Script[q][at[q] + 1] = Call(op, path)
  BY DEF Types, Calls
<1>2. at' = [at EXCEPT ![q] = at[q] + 1]
  BY DEF Return
<1>3. at[q] + 1 <= Len(Script[q])
  BY <1>1, Places
<1>4. op # "Mkfifo" => \A p \in Paths : ~Before(q, p)
  BY <1>1 DEF Before, Call
<1> QED
  BY <1>1, <1>2, <1>3, <1>4 DEF Types, Calls

LEMMA NobodyGoesBack ==
  ASSUME Types, NEW q \in SevenPrograms, NEW op, NEW path, Calls(q, op, path), Return(q)
  PROVE  /\ at["input"] > 3 => at'["input"] > 3
         /\ at["map"] > 3 => at'["map"] > 3
         /\ at["WD"] = 7 => at'["WD"] = 7
         /\ op # "Read" => /\ at'["WD"] > 3 => at["WD"] > 3
                           /\ at'["WD"] > 6 => at["WD"] > 6
<1>1. /\ at'[q] = at[q] + 1 /\ \A r \in SevenPrograms \ {q} : at'[r] = at[r]
      /\ \A r \in SevenPrograms : at[r] \in Nat
  BY Returns DEF Types
<1>2. "input" \in SevenPrograms /\ "map" \in SevenPrograms /\ "WD" \in SevenPrograms
  BY DEF SevenPrograms
<1>3. CASE q = "WD"
  <2>1. at["WD"] < 7
    BY <1>3, Places DEF Calls
  <2>2. op # "Read" => at["WD"] # 3 /\ at["WD"] # 6
    BY <1>3, CallPlace
  <2>3. at'["WD"] = at["WD"] + 1 /\ at'["input"] = at["input"] /\ at'["map"] = at["map"]
    BY <1>1, <1>2, <1>3
  <2>4. at["WD"] \in Nat
    BY <1>1, <1>2
  <2> QED
    BY <2>1, <2>2, <2>3, <2>4
<1>4. CASE q # "WD"
  <2>1. at'["WD"] = at["WD"]
    BY <1>1, <1>2, <1>4
  <2>2. at'["input"] \in {at["input"], at["input"] + 1} /\ at'["map"] \in {at["map"], at["map"] + 1}
    BY <1>1, <1>2
  <2>3. at["input"] \in Nat /\ at["map"] \in Nat
    BY <1>1, <1>2
  <2> QED
    BY <2>1, <2>2, <2>3
<1> QED
  BY <1>3, <1>4

LEMMA InitInv == Init => Inv
<1> SUFFICES ASSUME Init PROVE Inv
  OBVIOUS
<1>1. /\ at = [q \in SevenPrograms |-> 0] /\ letter = [path \in Paths |-> Nobody]
      /\ absent = {} /\ failed = {} /\ killed = {} /\ signalled = 0 /\ fifos = old
  BY TheProgramsAre DEF Init
<1>2. at["WD"] = 0 /\ letter["FIFO1"] = Nobody /\ letter["FIFO2"] = Nobody
  BY <1>1 DEF SevenPrograms, Paths
<1>3. \A q \in SevenPrograms : 0 <= Len(Script[q])
  BY Places
<1>4. Types
  BY <1>1, <1>3 DEF Types, p_pids
<1> QED
  BY <1>1, <1>2, <1>4 DEF Inv, Met, AtMkfifo, AnnouncedCanAnswer

\* A call that is neither an mkfifo nor changes a named pipe.
LEMMA QuietReturn ==
  ASSUME Inv, NEW q \in SevenPrograms, NEW op \in {"Sigaction", "Open"}, NEW path,
         Calls(q, op, path), Return(q),
         UNCHANGED <<old, fifos, absent, failed, letter, signalled, killed>>
  PROVE  Inv'
<1>1. /\ at' \in [SevenPrograms -> Nat] /\ \A r \in SevenPrograms : at'[r] <= Len(Script[r])
      /\ at'[q] = at[q] + 1 /\ \A r \in SevenPrograms \ {q} : at'[r] = at[r]
      /\ \A p \in Paths : ~Before(q, p)
      /\ q \notin failed
  BY Returns DEF Inv
<1>2. /\ at["input"] > 3 => at'["input"] > 3
      /\ at["map"] > 3 => at'["map"] > 3
      /\ at["WD"] = 7 => at'["WD"] = 7
      /\ at'["WD"] > 3 => at["WD"] > 3
      /\ at'["WD"] > 6 => at["WD"] > 6
  BY NobodyGoesBack DEF Inv
<1>3. Types'
  BY <1>1 DEF Inv, Types
<1>4. Met'
  BY <1>2 DEF Inv, Met
<1>5. AtMkfifo'
  <2>1. q \notin absent
    BY <1>1 DEF Inv, AtMkfifo, Paths
  <2> QED
    BY <1>1, <2>1 DEF Inv, AtMkfifo, Before, Types
<1>6. signalled' > 0 => at'["WD"] = 7
  BY <1>2 DEF Inv
<1> QED
  BY <1>3, <1>4, <1>5, <1>6 DEF Inv, AnnouncedCanAnswer

LEMMA AccessInv ==
  ASSUME Inv, NEW q \in SevenPrograms, NEW path \in Paths, Access(q, path)
  PROVE  Inv'
<1>1. CASE SeesFifo(path) /\ Return(q) /\ UNCHANGED absent
  <2>1. Calls(q, "Mkfifo", path) /\ q \notin absent
        /\ UNCHANGED <<old, fifos, failed, letter, signalled, killed>>
    BY DEF Access
  <2>2. /\ at' \in [SevenPrograms -> Nat] /\ \A r \in SevenPrograms : at'[r] <= Len(Script[r])
        /\ at'[q] = at[q] + 1 /\ \A r \in SevenPrograms \ {q} : at'[r] = at[r]
        /\ q \notin failed
    BY <1>1, <2>1, Returns DEF Inv
  <2>3. /\ at["input"] > 3 => at'["input"] > 3
        /\ at["map"] > 3 => at'["map"] > 3
        /\ at["WD"] = 7 => at'["WD"] = 7
        /\ at'["WD"] > 3 => at["WD"] > 3
        /\ at'["WD"] > 6 => at["WD"] > 6
    BY <1>1, <2>1, NobodyGoesBack DEF Inv
  <2>4. Types'
    BY <1>1, <2>1, <2>2 DEF Inv, Types
  <2>5. Met' /\ (signalled' > 0 => at'["WD"] = 7)
    BY <2>1, <2>3 DEF Inv, Met
  <2>6. AtMkfifo'
    BY <1>1, <2>1, <2>2 DEF Inv, AtMkfifo, Before, Types
  <2> QED
    BY <2>1, <2>4, <2>5, <2>6 DEF Inv, AnnouncedCanAnswer
<1>2. CASE ~SeesFifo(path) /\ absent' = absent \cup {q} /\ UNCHANGED at
  <2>1. Calls(q, "Mkfifo", path) /\ UNCHANGED <<old, fifos, failed, letter, signalled, killed>>
    BY DEF Access
  <2>2. path \in Paths \ old /\ Before(q, path)
    BY <1>2, <2>1 DEF Inv, Types, SeesFifo, Calls, Before
  <2>3. AtMkfifo'
    BY <1>2, <2>1, <2>2 DEF Inv, AtMkfifo, Before
  <2> QED
    BY <1>2, <2>1, <2>3 DEF Inv, Types, Met, AnnouncedCanAnswer
<1> QED
  BY <1>1, <1>2 DEF Access

LEMMA MkfifoInv ==
  ASSUME Inv, NEW q \in SevenPrograms, NEW path \in Paths, Mkfifo(q, path)
  PROVE  Inv'
<1>1. Calls(q, "Mkfifo", path) /\ q \in absent /\ absent' = absent \ {q}
      /\ UNCHANGED <<old, letter, signalled, killed>>
  BY DEF Mkfifo
<1>2. CASE fifos' = fifos \cup {path} /\ Return(q) /\ UNCHANGED failed
  <2>1. /\ at' \in [SevenPrograms -> Nat] /\ \A r \in SevenPrograms : at'[r] <= Len(Script[r])
        /\ at'[q] = at[q] + 1 /\ \A r \in SevenPrograms \ {q} : at'[r] = at[r]
        /\ q \notin failed
    BY <1>1, <1>2, Returns DEF Inv
  <2>2. /\ at["input"] > 3 => at'["input"] > 3
        /\ at["map"] > 3 => at'["map"] > 3
        /\ at["WD"] = 7 => at'["WD"] = 7
        /\ at'["WD"] > 3 => at["WD"] > 3
        /\ at'["WD"] > 6 => at["WD"] > 6
    BY <1>1, <1>2, NobodyGoesBack DEF Inv
  <2>3. Types'
    BY <1>1, <1>2, <2>1 DEF Inv, Types
  <2>4. Met' /\ (signalled' > 0 => at'["WD"] = 7)
    BY <1>1, <2>2 DEF Inv, Met
  <2>5. AtMkfifo'
    BY <1>1, <1>2, <2>1 DEF Inv, AtMkfifo, Before, Types
  <2> QED
    BY <1>1, <2>3, <2>4, <2>5 DEF Inv, AnnouncedCanAnswer
<1>3. CASE failed' = failed \cup {q} /\ UNCHANGED <<fifos, at>>
  <2>1. AtMkfifo'
    BY <1>1, <1>3 DEF Inv, AtMkfifo, Before
  <2> QED
    BY <1>1, <1>3, <2>1 DEF Inv, Types, Met, AnnouncedCanAnswer
<1> QED
  BY <1>2, <1>3 DEF Mkfifo

\* Input and map write their pid as their last call, and nobody else does.
LEMMA WritePidInv ==
  ASSUME Inv, NEW q \in SevenPrograms, NEW path \in Paths, WritePid(q, path)
  PROVE  Inv'
<1>1. /\ Calls(q, "Write", path) /\ Return(q) /\ letter' = [letter EXCEPT ![path] = q]
      /\ UNCHANGED <<old, fifos, absent, failed, signalled, killed>>
  BY DEF WritePid
<1>2. /\ at' \in [SevenPrograms -> Nat] /\ \A r \in SevenPrograms : at'[r] <= Len(Script[r])
      /\ at'[q] = at[q] + 1 /\ \A r \in SevenPrograms \ {q} : at'[r] = at[r]
      /\ q \notin failed
      /\ \A p \in Paths : ~Before(q, p)
  BY <1>1, Returns DEF Inv
<1>3. /\ at["input"] > 3 => at'["input"] > 3
      /\ at["map"] > 3 => at'["map"] > 3
      /\ at["WD"] = 7 => at'["WD"] = 7
      /\ at'["WD"] > 3 => at["WD"] > 3
      /\ at'["WD"] > 6 => at["WD"] > 6
  BY <1>1, NobodyGoesBack DEF Inv
<1>4. \/ q = "input" /\ path = "FIFO2" /\ at[q] = 3
      \/ q = "map" /\ path = "FIFO1" /\ at[q] = 3
  BY <1>1, CallPlace DEF Inv
<1>5. Types'
  BY <1>1, <1>2 DEF Inv, Types
<1>6. Met'
  <2>1. letter \in [Paths -> SevenPrograms \cup {Nobody}]
    BY DEF Inv, Types
  <2>2. CASE q = "input" /\ path = "FIFO2" /\ at[q] = 3
    <3>1. at'["input"] > 3 /\ letter'["FIFO1"] = letter["FIFO1"]
      BY <1>1, <1>2, <2>1, <2>2 DEF Paths
    <3> QED
      BY <1>3, <3>1 DEF Inv, Met
  <2>3. CASE q = "map" /\ path = "FIFO1" /\ at[q] = 3
    <3>1. at'["map"] > 3 /\ letter'["FIFO2"] = letter["FIFO2"]
      BY <1>1, <1>2, <2>1, <2>3 DEF Paths
    <3> QED
      BY <1>3, <3>1 DEF Inv, Met
  <2> QED
    BY <1>4, <2>2, <2>3
<1>7. AtMkfifo'
  <2>1. q \notin absent
    BY <1>2 DEF Inv, AtMkfifo, Paths
  <2> QED
    BY <1>1, <1>2, <2>1 DEF Inv, AtMkfifo, Before, Types
<1> QED
  BY <1>1, <1>3, <1>5, <1>6, <1>7 DEF Inv, AnnouncedCanAnswer

\* The watchdog passes a meeting only with a pid that was written there.
LEMMA ReadPidInv ==
  ASSUME Inv, NEW q \in SevenPrograms, NEW path \in Paths, ReadPid(q, path)
  PROVE  Inv'
<1>1. /\ Calls(q, "Read", path) /\ Return(q) /\ letter[path] # Nobody
      /\ letter' = [letter EXCEPT ![path] = Nobody]
      /\ UNCHANGED <<old, fifos, absent, failed, signalled, killed>>
  BY DEF ReadPid
<1>2. /\ at' \in [SevenPrograms -> Nat] /\ \A r \in SevenPrograms : at'[r] <= Len(Script[r])
      /\ at'[q] = at[q] + 1 /\ \A r \in SevenPrograms \ {q} : at'[r] = at[r]
      /\ q \notin failed
      /\ \A p \in Paths : ~Before(q, p)
  BY <1>1, Returns DEF Inv
<1>3. /\ at["input"] > 3 => at'["input"] > 3
      /\ at["map"] > 3 => at'["map"] > 3
      /\ at["WD"] = 7 => at'["WD"] = 7
  BY <1>1, NobodyGoesBack DEF Inv
<1>4. q = "WD" /\ \/ at[q] = 3 /\ path = "FIFO2"
                  \/ at[q] = 6 /\ path = "FIFO1"
  BY <1>1, CallPlace DEF Inv
<1>5. letter \in [Paths -> SevenPrograms \cup {Nobody}]
  BY DEF Inv, Types
<1>6. Types'
  BY <1>1, <1>2 DEF Inv, Types
<1>7. Met'
  <2>1. CASE at["WD"] = 3 /\ path = "FIFO2"
    <3>1. at'["WD"] = 4 /\ at["input"] > 3 /\ letter'["FIFO1"] = letter["FIFO1"]
      BY <1>1, <1>2, <1>4, <1>5, <2>1 DEF Inv, Met, Paths
    <3>2. ~(at'["WD"] > 6)
      BY <3>1
    <3> QED
      BY <1>3, <3>1, <3>2 DEF Inv, Met
  <2>2. CASE at["WD"] = 6 /\ path = "FIFO1"
    <3>1. at["map"] > 3 /\ at["WD"] > 3
      BY <1>1, <2>2 DEF Inv, Met
    <3> QED
      BY <1>3, <3>1 DEF Inv, Met
  <2> QED
    BY <1>4, <2>1, <2>2
<1>8. AtMkfifo'
  <2>1. q \notin absent
    BY <1>2 DEF Inv, AtMkfifo, Paths
  <2> QED
    BY <1>1, <1>2, <2>1 DEF Inv, AtMkfifo, Before, Types
<1> QED
  BY <1>1, <1>3, <1>6, <1>7, <1>8 DEF Inv, AnnouncedCanAnswer

\* When the watchdog begins to signal, input and map have made all their calls.
LEMMA WDSignalInv ==
  ASSUME Inv, WDSignal
  PROVE  Inv'
<1>1. /\ at["WD"] = 7 /\ signalled < Len(p_pids) /\ killed = {} /\ signalled' = signalled + 1
      /\ killed' = IF Handle \in Made(p_pids[signalled + 1]) THEN killed ELSE {p_pids[signalled + 1]}
      /\ UNCHANGED <<old, fifos, at, absent, failed, letter>>
  BY Places DEF WDSignal
<1>2. at["input"] > 3 /\ at["map"] > 3
  BY <1>1 DEF Inv, Met
<1>3. Handle \in Made("input") /\ Handle \in Made("map")
  <2>1. at["input"] \in Nat /\ at["map"] \in Nat
    BY DEF Inv, Types, SevenPrograms
  <2>2. 1 \in 1..at["input"] /\ 1 \in 1..at["map"]
    BY <1>2, <2>1
  <2>3. Script["input"][1] = Handle /\ Script["map"][1] = Handle
    BY Places DEF SevenPrograms
  <2> QED
    BY <2>2, <2>3 DEF Made
<1>4. killed' \cap {"input", "map"} = {}
  BY <1>1, <1>3
<1>5. signalled' \in 0..Len(p_pids)
  BY <1>1 DEF Inv, Types, p_pids
<1> QED
  BY <1>1, <1>4, <1>5 DEF Inv, Types, Met, AtMkfifo, Before, AnnouncedCanAnswer

LEMMA StepInv == Inv /\ [Next]_vars => Inv'
<1> SUFFICES ASSUME Inv, [Next]_vars PROVE Inv'
  OBVIOUS
<1>1. CASE Boot
  BY <1>1 DEF Boot, Inv, Types, Met, AtMkfifo, Before, AnnouncedCanAnswer
<1>2. CASE WDSignal
  BY <1>2, WDSignalInv
<1>3. ASSUME NEW q \in SevenPrograms, Run(q) PROVE Inv'
  <2>1. CASE Sigaction(q)
    BY <2>1, QuietReturn DEF Sigaction
  <2>2. ASSUME NEW path \in Paths, Open(q, path) PROVE Inv'
    BY <2>2, QuietReturn DEF Open
  <2>3. ASSUME NEW path \in Paths,
               Access(q, path) \/ Mkfifo(q, path) \/ WritePid(q, path) \/ ReadPid(q, path)
        PROVE  Inv'
    BY <2>3, AccessInv, MkfifoInv, WritePidInv, ReadPidInv
  <2> QED
    BY <1>3, <2>1, <2>2, <2>3 DEF Run
<1>4. CASE UNCHANGED vars
  BY <1>4 DEF vars, Inv, Types, Met, AtMkfifo, Before, AnnouncedCanAnswer
<1> QED
  BY <1>1, <1>2, <1>3, <1>4, TheProgramsAre DEF Next

\* Neither input nor map, once it has told its pid, dies of the watchdog's
\* signal, in whatever order the programs come up (input.c:233, map.c:177).
THEOREM AnnouncedAnswer == Spec => []AnnouncedCanAnswer
<1>1. Inv => AnnouncedCanAnswer
  BY DEF Inv
<1> QED
  BY <1>1, InitInv, StepInv, PTL DEF Spec

\* A race is lost only for a named pipe that was not there when the run began,
\* and then nobody is ever signalled (wrapFunc.c:460-461, WD.c:90, 110).
THEOREM RaceBlocks == Spec => []LostRaceBlocks
<1>1. Inv => LostRaceBlocks
  <2> SUFFICES ASSUME Inv PROVE LostRaceBlocks
    OBVIOUS
  <2>1. ASSUME NEW q \in failed
        PROVE  \E path \in Paths \ old : Call("Mkfifo", path) \in Begun(q)
    <3>1. PICK path \in Paths \ old : Before(q, path)
      BY <2>1 DEF Inv, AtMkfifo
    <3>2. at[q] \in Nat /\ at[q] + 1 \in 1..(at[q] + 1)
      BY <2>1 DEF Inv, Types
    <3> QED
      BY <3>1, <3>2 DEF Begun, Before
  <2>2. ASSUME NEW q \in failed, signalled # 0
        PROVE  FALSE
    <3>1. /\ at["WD"] = 7 /\ at["input"] > 3 /\ at["map"] > 3
      BY <2>2 DEF Inv, Types, Met
    <3>2. PICK path \in Paths \ old : Before(q, path)
      BY <2>2 DEF Inv, AtMkfifo
    <3>3. q \in SevenPrograms /\ at[q] \in Nat /\ at[q] < Len(Script[q])
      BY <3>2 DEF Inv, Types, Before
    <3>4. CASE q \in {"input", "map"}
      <4>1. at[q] > 3 /\ Len(Script[q]) = 4
        BY <3>1, <3>4, Places
      <4> QED
        BY <3>3, <4>1
    <3>5. CASE q = "WD"
      BY <3>1, <3>3, <3>5, Places
    <3>6. CASE q \notin {"input", "map", "WD"}
      <4>1. Len(Script[q]) = 1 /\ Script[q][1] = Handle
        BY <3>3, <3>6, Places
      <4>2. at[q] = 0
        BY <3>3, <4>1
      <4> QED
        BY <3>2, <4>1, <4>2 DEF Before, Handle, Call
    <3> QED
      BY <3>4, <3>5, <3>6
  <2> QED
    BY <2>1, <2>2 DEF LostRaceBlocks
<1> QED
  BY <1>1, InitInv, StepInv, PTL DEF Spec

----------------------------------------------------------------------------
(* The lists of closes as sets of pipe ends.                               *)

Elements(s) == {s[i] : i \in 1..Len(s)}
Distinct(s) == \A i, j \in 1..Len(s) : s[i] = s[j] => i = j

LEMMA ConcatElements ==
  ASSUME NEW S, NEW s \in Seq(S), NEW t \in Seq(S), Distinct(s), Distinct(t),
         Elements(s) \cap Elements(t) = {}
  PROVE  s \o t \in Seq(S) /\ Elements(s \o t) = Elements(s) \cup Elements(t) /\ Distinct(s \o t)
<1> DEFINE u == s \o t
           m == Len(s)
           n == Len(t)
<1>1. /\ u \in Seq(S) /\ Len(u) = m + n /\ m \in Nat /\ n \in Nat
      /\ \A i \in 1..(m + n) : u[i] = IF i <= m THEN s[i] ELSE t[i - m]
  BY ConcatProperties
<1> HIDE DEF u
<1>2. \A i \in 1..(m + n) : \/ i \in 1..m /\ u[i] = s[i]
                            \/ i \notin 1..m /\ i - m \in 1..n /\ u[i] = t[i - m]
  BY <1>1
<1>3. ASSUME NEW j \in 1..m PROVE \E i \in 1..(m + n) : u[i] = s[j]
  <2>1. j \in 1..(m + n) /\ j <= m
    BY <1>1
  <2> QED
    BY <1>1, <2>1
<1>4. ASSUME NEW j \in 1..n PROVE \E i \in 1..(m + n) : u[i] = t[j]
  <2>1. j + m \in 1..(m + n) /\ ~(j + m <= m) /\ (j + m) - m = j
    BY <1>1
  <2> QED
    BY <1>1, <2>1
<1>5. /\ Elements(u) = {u[i] : i \in 1..(m + n)}
      /\ Elements(s) = {s[i] : i \in 1..m} /\ Elements(t) = {t[i] : i \in 1..n}
  BY <1>1 DEF Elements
<1>6. Elements(u) = Elements(s) \cup Elements(t)
  <2> HIDE DEF m, n
  <2> QED
    BY <1>2, <1>3, <1>4, <1>5, Zenon
<1>7. Distinct(u)
  <2> SUFFICES ASSUME NEW i \in 1..(m + n), NEW j \in 1..(m + n), u[i] = u[j] PROVE i = j
    BY <1>1 DEF Distinct
  <2>1. CASE i \in 1..m /\ j \in 1..m
    BY <1>2, <2>1 DEF Distinct
  <2>2. CASE i \notin 1..m /\ j \notin 1..m
    <3>1. i - m \in 1..n /\ j - m \in 1..n /\ t[i - m] = t[j - m]
      BY <1>2, <2>2
    <3>2. i - m = j - m
      BY <3>1 DEF Distinct
    <3> QED
      BY <1>1, <3>2
  <2>3. CASE i \in 1..m /\ j \notin 1..m
    <3>1. u[i] \in Elements(s) /\ u[j] \in Elements(t)
      BY <1>2, <1>5, <2>3
    <3> QED
      BY <3>1
  <2>4. CASE i \notin 1..m /\ j \in 1..m
    <3>1. u[j] \in Elements(s) /\ u[i] \in Elements(t)
      BY <1>2, <1>5, <2>4
    <3> QED
      BY <3>1
  <2> QED
    BY <2>1, <2>2, <2>3, <2>4
<1> QED
  BY <1>1, <1>6, <1>7 DEF u

LEMMA FunctionIsSeq ==
  ASSUME NEW S, NEW n \in Nat, NEW f \in [1..n -> S]
  PROVE  f \in Seq(S) /\ Len(f) = n
<1>1. f \in Seq(S)
  BY SeqDef
<1>2. Len(f) \in Nat /\ DOMAIN f = 1..Len(f) /\ DOMAIN f = 1..n
  BY <1>1, LenProperties
<1>3. Len(f) = n
  BY <1>2
<1> QED
  BY <1>1, <1>3

\* Both ends of every pipe in the list, each once.
LEMMA BothIs ==
  ASSUME NEW s \in Seq(Fd!Pipes), Distinct(s)
  PROVE  LET b == Fd!Both(s)
         IN  b \in Seq(Fd!Ends) /\ Elements(b) = Elements(s) \X {0, 1} /\ Distinct(b)
<1> DEFINE b == Fd!Both(s)
           n == Len(s)
           half(i) == (i + 1) \div 2
           end(i) == 1 - (i % 2)
<1>1. n \in Nat /\ b = [i \in 1..(2 * n) |-> <<s[half(i)], end(i)>>]
  BY DEF Fd!Both
<1>2. ASSUME NEW i \in 1..(2 * n)
      PROVE  half(i) \in 1..n /\ end(i) \in {0, 1} /\ i = 2 * half(i) - 1 + end(i)
  <2>1. /\ half(i) \in Int /\ 2 * half(i) <= i + 1 /\ i + 1 < 2 * half(i) + 2
    BY <1>1
  <2>2. end(i) \in {0, 1} /\ i % 2 \in {0, 1} /\ i = 2 * (i \div 2) + (i % 2) /\ i \div 2 \in Int
    BY <1>1
  <2> DEFINE k == i \div 2
             r == i % 2
             h == half(i)
  <2>3. k \in Int /\ r \in {0, 1} /\ i = 2 * k + r /\ end(i) = 1 - r
    BY <2>2
  <2>4. h \in Int /\ 2 * h <= i + 1 /\ i + 1 < 2 * h + 2
    BY <2>1
  <2> HIDE DEF k, r, h
  <2>5. h \in 1..n /\ i = 2 * h - r
    BY <1>1, <2>3, <2>4
  <2> QED
    BY <2>2, <2>3, <2>5 DEF h
<1>3. ASSUME NEW j \in 1..n, NEW e \in {0, 1}
      PROVE  2 * j - 1 + e \in 1..(2 * n) /\ half(2 * j - 1 + e) = j /\ end(2 * j - 1 + e) = e
  BY <1>1
<1> HIDE DEF b, half, end
<1>4. \A j \in 1..n : s[j] \in Fd!Pipes
  BY ElementOfSeq
<1>5. b \in [1..(2 * n) -> Fd!Ends]
  BY <1>1, <1>2, <1>4 DEF Fd!Ends
<1>6. b \in Seq(Fd!Ends) /\ Len(b) = 2 * n
  <2>1. 2 * n \in Nat
    BY <1>1
  <2> QED
    BY <1>5, <2>1, FunctionIsSeq
<1>7. Elements(b) = {b[i] : i \in 1..(2 * n)} /\ Elements(s) = {s[i] : i \in 1..n}
  BY <1>6 DEF Elements
<1>8. Elements(b) = Elements(s) \X {0, 1}
  <2>1. ASSUME NEW i \in 1..(2 * n) PROVE b[i] \in Elements(s) \X {0, 1}
    BY <1>1, <1>2, <1>7
  <2>2. ASSUME NEW x \in Elements(s) \X {0, 1} PROVE \E i \in 1..(2 * n) : b[i] = x
    <3>1. PICK j \in 1..n, e \in {0, 1} : x = <<s[j], e>>
      BY <1>7
    <3>2. b[2 * j - 1 + e] = x
      BY <1>1, <1>3, <3>1
    <3> QED
      BY <1>3, <3>2
  <2>3. \A x : x \in Elements(b) <=> \E i \in 1..(2 * n) : b[i] = x
    BY <1>7
  <2> QED
    BY <2>1, <2>2, <2>3, Zenon
<1>9. Distinct(b)
  <2> SUFFICES ASSUME NEW i \in 1..(2 * n), NEW j \in 1..(2 * n), b[i] = b[j] PROVE i = j
    BY <1>6 DEF Distinct
  <2>1. s[half(i)] = s[half(j)] /\ end(i) = end(j)
    BY <1>1
  <2>2. half(i) = half(j)
    BY <1>2, <2>1 DEF Distinct
  <2> QED
    BY <1>2, <2>1, <2>2
<1> QED
  BY <1>6, <1>8, <1>9 DEF b

LEMMA List1 ==
  ASSUME NEW S, NEW a \in S
  PROVE  <<a>> \in Seq(S) /\ Elements(<<a>>) = {a} /\ Distinct(<<a>>)
BY DEF Elements, Distinct

LEMMA List2 ==
  ASSUME NEW S, NEW a \in S, NEW b \in S, a # b
  PROVE  <<a, b>> \in Seq(S) /\ Elements(<<a, b>>) = {a, b} /\ Distinct(<<a, b>>)
<1> DEFINE s == <<a, b>>
<1>1. s \in Seq(S) /\ 1..Len(s) = {1, 2} /\ s[1] = a /\ s[2] = b
  OBVIOUS
<1> HIDE DEF s
<1>2. Elements(s) = {a, b} /\ Distinct(s)
  BY <1>1 DEF Elements, Distinct
<1> QED
  BY <1>1, <1>2 DEF s

LEMMA List3 ==
  ASSUME NEW S, NEW a \in S, NEW b \in S, NEW c \in S, a # b, a # c, b # c
  PROVE  <<a, b, c>> \in Seq(S) /\ Elements(<<a, b, c>>) = {a, b, c} /\ Distinct(<<a, b, c>>)
<1> DEFINE s == <<a, b, c>>
<1>1. s \in Seq(S) /\ 1..Len(s) = {1, 2, 3} /\ s[1] = a /\ s[2] = b /\ s[3] = c
  OBVIOUS
<1> HIDE DEF s
<1>2. Elements(s) = {a, b, c} /\ Distinct(s)
  BY <1>1 DEF Elements, Distinct
<1> QED
  BY <1>1, <1>2 DEF s

\* The pairs of pipes that join the server to the other programs.
LEMMA PairsOfPipes ==
  /\ Fd!MapPipes \in Seq(Fd!Pipes) /\ Distinct(Fd!MapPipes)
  /\ Elements(Fd!MapPipes) = {"map_server", "server_map"}
  /\ Fd!TargetPipes \in Seq(Fd!Pipes) /\ Distinct(Fd!TargetPipes)
  /\ Elements(Fd!TargetPipes) = {"target_server", "server_target"}
  /\ Fd!ObstaclesPipes \in Seq(Fd!Pipes) /\ Distinct(Fd!ObstaclesPipes)
  /\ Elements(Fd!ObstaclesPipes) = {"obstacles_server", "server_obstacles"}
<1>1. /\ "map_server" \in Fd!Pipes /\ "server_map" \in Fd!Pipes
      /\ "target_server" \in Fd!Pipes /\ "server_target" \in Fd!Pipes
      /\ "obstacles_server" \in Fd!Pipes /\ "server_obstacles" \in Fd!Pipes
  BY DEF Fd!Pipes
<1>2. /\ "map_server" # "server_map" /\ "target_server" # "server_target"
      /\ "obstacles_server" # "server_obstacles"
  OBVIOUS
<1>3. /\ Fd!MapPipes \in Seq(Fd!Pipes) /\ Distinct(Fd!MapPipes)
      /\ Elements(Fd!MapPipes) = {"map_server", "server_map"}
  BY <1>1, <1>2, List2 DEF Fd!MapPipes
<1>4. /\ Fd!TargetPipes \in Seq(Fd!Pipes) /\ Distinct(Fd!TargetPipes)
      /\ Elements(Fd!TargetPipes) = {"target_server", "server_target"}
  BY <1>1, <1>2, List2 DEF Fd!TargetPipes
<1>5. /\ Fd!ObstaclesPipes \in Seq(Fd!Pipes) /\ Distinct(Fd!ObstaclesPipes)
      /\ Elements(Fd!ObstaclesPipes) = {"obstacles_server", "server_obstacles"}
  BY <1>1, <1>2, List2 DEF Fd!ObstaclesPipes
<1> QED
  BY <1>3, <1>4, <1>5

\* The list s closes each of the ends in E once.
CloseList(s, E) == s \in Seq(Fd!Ends) /\ Elements(s) = E /\ Distinct(s)

\* What the father closes after the fork of a program, pipe by pipe.
Closed(q) ==
  CASE q = "drone" -> {"server_drone", "drone_server"}
    [] q = "input" -> {"server_input", "input_server", "input_drone"}
    [] q = "map" -> {"map_server", "server_map"}
    [] q = "target" -> {"target_server", "server_target"}
    [] q = "obstacles" -> {"obstacles_server", "server_obstacles"}
    [] OTHER -> {}

LEMMA FatherList ==
  ASSUME NEW q \in SevenPrograms
  PROVE  CloseList(Fd!FatherCloses(q), Closed(q) \X {0, 1}) /\ Closed(q) \subseteq Fd!Pipes
<1>1. /\ Fd!Pipes = {"input_drone", "server_drone", "drone_server", "server_input",
          "input_server", "map_server", "server_map", "target_server",
          "server_target", "obstacles_server", "server_obstacles"}
  BY DEF Fd!Pipes
<1>2. CASE q = "drone"
  <2> DEFINE s == <<"server_drone", "drone_server">>
  <2>1. s \in Seq(Fd!Pipes) /\ Elements(s) = {"server_drone", "drone_server"} /\ Distinct(s)
    <3>1. "server_drone" \in Fd!Pipes /\ "drone_server" \in Fd!Pipes /\ "server_drone" # "drone_server"
      BY <1>1
    <3> QED
      BY <3>1, List2
  <2>2. Fd!FatherCloses(q) = Fd!Both(s) /\ Closed(q) = {"server_drone", "drone_server"}
    BY <1>2 DEF Fd!FatherCloses, Closed
  <2> HIDE DEF s
  <2> QED
    BY <1>1, <2>1, <2>2, BothIs DEF CloseList
<1>3. CASE q = "input"
  <2> DEFINE s == <<"server_input", "input_server", "input_drone">>
  <2>1. /\ s \in Seq(Fd!Pipes) /\ Distinct(s)
        /\ Elements(s) = {"server_input", "input_server", "input_drone"}
    <3>1. /\ "server_input" \in Fd!Pipes /\ "input_server" \in Fd!Pipes /\ "input_drone" \in Fd!Pipes
          /\ "server_input" # "input_server" /\ "server_input" # "input_drone"
          /\ "input_server" # "input_drone"
      BY <1>1
    <3> QED
      BY <3>1, List3
  <2>2. /\ Fd!FatherCloses(q) = Fd!Both(s)
        /\ Closed(q) = {"server_input", "input_server", "input_drone"}
    BY <1>3 DEF Fd!FatherCloses, Closed
  <2> HIDE DEF s
  <2> QED
    BY <1>1, <2>1, <2>2, BothIs DEF CloseList
<1>4. CASE q = "map"
  <2> DEFINE s == <<"server_map", "map_server">>
  <2>1. s \in Seq(Fd!Pipes) /\ Elements(s) = {"server_map", "map_server"} /\ Distinct(s)
    <3>1. "server_map" \in Fd!Pipes /\ "map_server" \in Fd!Pipes /\ "server_map" # "map_server"
      BY <1>1
    <3> QED
      BY <3>1, List2
  <2>2. Fd!FatherCloses(q) = Fd!Both(s) /\ Closed(q) = {"server_map", "map_server"}
    BY <1>4 DEF Fd!FatherCloses, Closed
  <2> HIDE DEF s
  <2> QED
    BY <1>1, <2>1, <2>2, BothIs DEF CloseList
<1>5. CASE q = "target"
  <2>1. /\ Fd!FatherCloses(q) = Fd!Both(Fd!TargetPipes)
        /\ Closed(q) = {"target_server", "server_target"}
    BY <1>5 DEF Fd!FatherCloses, Closed
  <2> QED
    BY <1>1, <2>1, BothIs, PairsOfPipes DEF CloseList
<1>6. CASE q = "obstacles"
  <2>1. /\ Fd!FatherCloses(q) = Fd!Both(Fd!ObstaclesPipes)
        /\ Closed(q) = {"obstacles_server", "server_obstacles"}
    BY <1>6 DEF Fd!FatherCloses, Closed
  <2> QED
    BY <1>1, <2>1, BothIs, PairsOfPipes DEF CloseList
<1>7. CASE q \in {"server", "WD"}
  <2>1. Fd!FatherCloses(q) = <<>> /\ Closed(q) = {}
    BY <1>7 DEF Fd!FatherCloses, Closed
  <2>2. <<>> \in Seq(Fd!Ends) /\ Len(<<>>) = 0
    BY EmptySeq
  <2> QED
    BY <2>1, <2>2 DEF CloseList, Elements, Distinct
<1> QED
  BY <1>2, <1>3, <1>4, <1>5, <1>6, <1>7 DEF SevenPrograms

\* What a child closes: the ends that its peers use, and both ends of the pipes
\* of others.
Opposite(q) ==
  CASE q = "server" -> {<<"drone_server", 1>>, <<"server_drone", 0>>,
                        <<"input_server", 1>>, <<"server_input", 0>>,
                        <<"map_server", 1>>, <<"server_map", 0>>,
                        <<"target_server", 1>>, <<"server_target", 0>>,
                        <<"obstacles_server", 1>>, <<"server_obstacles", 0>>}
    [] q = "drone" -> {<<"input_drone", 1>>, <<"server_drone", 1>>, <<"drone_server", 0>>}
    [] q = "input" -> {<<"input_drone", 0>>, <<"input_server", 0>>, <<"server_input", 1>>}
    [] q = "map" -> {<<"map_server", 0>>, <<"server_map", 1>>}
    [] q = "target" -> {<<"target_server", 0>>, <<"server_target", 1>>}
    [] q = "obstacles" -> {<<"obstacles_server", 0>>, <<"server_obstacles", 1>>}
    [] q = "WD" -> {}
Unused(q) ==
  CASE q = "server" -> {"input_drone"}
    [] q = "drone" -> {"server_input", "input_server"} \cup {"map_server", "server_map"}
                      \cup {"target_server", "server_target"}
                      \cup {"obstacles_server", "server_obstacles"}
    [] q = "input" -> {"map_server", "server_map"} \cup {"target_server", "server_target"}
                      \cup {"obstacles_server", "server_obstacles"}
    [] q = "map" -> {"target_server", "server_target"} \cup {"obstacles_server", "server_obstacles"}
    [] q = "target" -> {"obstacles_server", "server_obstacles"}
    [] OTHER -> {}

LEMMA List10 ==
  ASSUME NEW S, NEW s \in Seq(S), Len(s) = 10,
         Distinct(s)
  PROVE  Elements(s) = {s[1], s[2], s[3], s[4], s[5], s[6], s[7], s[8], s[9], s[10]}
<1>1. 1..Len(s) = {1, 2, 3, 4, 5, 6, 7, 8, 9, 10}
  OBVIOUS
<1> QED
  BY <1>1 DEF Elements

\* Two lists of closes with no end in common are one list.
LEMMA JoinLists ==
  ASSUME NEW s, NEW t, NEW E, NEW F, CloseList(s, E), CloseList(t, F), E \cap F = {}
  PROVE  CloseList(s \o t, E \cup F)
BY ConcatElements DEF CloseList

LEMMA PipesList ==
  ASSUME NEW s \in Seq(Fd!Pipes), NEW E, Distinct(s), Elements(s) = E
  PROVE  CloseList(Fd!Both(s), E \X {0, 1})
BY BothIs DEF CloseList

LEMMA ServerEnds ==
  CloseList(<<<<"drone_server", 1>>, <<"server_drone", 0>>,
              <<"input_server", 1>>, <<"server_input", 0>>,
              <<"map_server", 1>>, <<"server_map", 0>>,
              <<"target_server", 1>>, <<"server_target", 0>>,
              <<"obstacles_server", 1>>, <<"server_obstacles", 0>>>>, Opposite("server"))
<1> DEFINE names == <<"drone_server", "server_drone", "input_server", "server_input",
                      "map_server", "server_map", "target_server", "server_target",
                      "obstacles_server", "server_obstacles">>
           s == <<<<"drone_server", 1>>, <<"server_drone", 0>>,
              <<"input_server", 1>>, <<"server_input", 0>>,
              <<"map_server", 1>>, <<"server_map", 0>>,
              <<"target_server", 1>>, <<"server_target", 0>>,
              <<"obstacles_server", 1>>, <<"server_obstacles", 0>>>>
<1>1. s \in Seq(Fd!Ends) /\ Len(s) = 10
  BY DEF Fd!Ends, Fd!Pipes
<1>2. \A i \in 1..10 : s[i][1] = names[i]
  <2>1. 1..10 = {1, 2, 3, 4, 5, 6, 7, 8, 9, 10}
    OBVIOUS
  <2> QED
    BY <2>1
<1>3. \A i, j \in 1..10 : names[i] = names[j] => i = j
  <2>1. 1..10 = {1, 2, 3, 4, 5, 6, 7, 8, 9, 10}
    OBVIOUS
  <2> QED
    BY <2>1
<1>4. {s[1], s[2], s[3], s[4], s[5], s[6], s[7], s[8], s[9], s[10]} = Opposite("server")
  BY DEF Opposite
<1> HIDE DEF s, names
<1>5. Distinct(s)
  BY <1>1, <1>2, <1>3 DEF Distinct
<1>6. Elements(s) = Opposite("server")
  BY <1>1, <1>4, <1>5, List10
<1> QED
  BY <1>1, <1>5, <1>6 DEF CloseList, s

LEMMA JoinPipes ==
  ASSUME NEW s \in Seq(Fd!Pipes), NEW t \in Seq(Fd!Pipes), NEW E, NEW F,
         Elements(s) = E, Elements(t) = F, Distinct(s), Distinct(t), E \cap F = {}
  PROVE  s \o t \in Seq(Fd!Pipes) /\ Elements(s \o t) = E \cup F /\ Distinct(s \o t)
BY ConcatElements

LEMMA ChildList ==
  ASSUME NEW q \in SevenPrograms
  PROVE  CloseList(Fd!ChildCloses(q), Opposite(q) \cup Unused(q) \X {0, 1})
<1>p. /\ Fd!Pipes = {"input_drone", "server_drone", "drone_server", "server_input",
          "input_server", "map_server", "server_map", "target_server",
          "server_target", "obstacles_server", "server_obstacles"}
      /\ Fd!Ends = Fd!Pipes \X {0, 1}
  BY DEF Fd!Pipes, Fd!Ends
<1> DEFINE mp == {"map_server", "server_map"}
           tp == {"target_server", "server_target"}
           op == {"obstacles_server", "server_obstacles"}
           TO == Fd!TargetPipes \o Fd!ObstaclesPipes
           MTO == Fd!MapPipes \o Fd!TargetPipes \o Fd!ObstaclesPipes
<1>1. TO \in Seq(Fd!Pipes) /\ Elements(TO) = tp \cup op /\ Distinct(TO)
  <2>1. tp \cap op = {}
    OBVIOUS
  <2> QED
    BY <2>1, PairsOfPipes, ConcatElements
<1>2. MTO \in Seq(Fd!Pipes) /\ Elements(MTO) = mp \cup tp \cup op /\ Distinct(MTO)
  <2> DEFINE MT == Fd!MapPipes \o Fd!TargetPipes
  <2>1. MT \in Seq(Fd!Pipes) /\ Elements(MT) = mp \cup tp /\ Distinct(MT)
    <3>1. mp \cap tp = {}
      OBVIOUS
    <3> QED
      BY <3>1, PairsOfPipes, ConcatElements
  <2>2. MTO = MT \o Fd!ObstaclesPipes /\ (mp \cup tp) \cap op = {}
    OBVIOUS
  <2> DEFINE ob == Fd!ObstaclesPipes
             mt == mp \cup tp
  <2>3. ob \in Seq(Fd!Pipes) /\ Elements(ob) = op /\ Distinct(ob)
    BY PairsOfPipes
  <2>4. MTO = MT \o ob /\ mt \cap op = {} /\ Elements(MT) = mt
    BY <2>1, <2>2
  <2> HIDE DEF MT, MTO, mt, op, ob
  <2>5. MT \o ob \in Seq(Fd!Pipes) /\ Elements(MT \o ob) = mt \cup op /\ Distinct(MT \o ob)
    BY <2>1, <2>3, <2>4, JoinPipes
  <2> QED
    BY <2>4, <2>5 DEF mt
<1>3. CASE q = "server"
  <2> DEFINE t == <<"input_drone">>
  <2>1. t \in Seq(Fd!Pipes) /\ Distinct(t) /\ Elements(t) = {"input_drone"}
    BY <1>p, List1
  <2>2. Unused(q) = {"input_drone"} /\ Opposite(q) \cap Unused(q) \X {0, 1} = {}
    BY <1>3 DEF Opposite, Unused
  <2> HIDE DEF t
  <2>3. CloseList(Fd!Both(t), Unused(q) \X {0, 1})
    BY <2>1, <2>2, PipesList
  <2> DEFINE s == <<<<"drone_server", 1>>, <<"server_drone", 0>>,
              <<"input_server", 1>>, <<"server_input", 0>>,
              <<"map_server", 1>>, <<"server_map", 0>>,
              <<"target_server", 1>>, <<"server_target", 0>>,
              <<"obstacles_server", 1>>, <<"server_obstacles", 0>>>>
  <2>4. Fd!ChildCloses(q) = s \o Fd!Both(t)
    BY <1>3 DEF Fd!ChildCloses, t
  <2>5. CloseList(s, Opposite(q))
    BY <1>3, ServerEnds
  <2> HIDE DEF s
  <2> QED
    BY <2>2, <2>3, <2>4, <2>5, JoinLists
<1>4. CASE q = "drone"
  <2> DEFINE si == <<"server_input", "input_server">>
             t == si \o Fd!MapPipes \o Fd!TargetPipes \o Fd!ObstaclesPipes
             s == <<<<"input_drone", 1>>, <<"server_drone", 1>>, <<"drone_server", 0>>>>
  <2>1. si \in Seq(Fd!Pipes) /\ Distinct(si) /\ Elements(si) = {"server_input", "input_server"}
    <3>1. "server_input" \in Fd!Pipes /\ "input_server" \in Fd!Pipes /\ "server_input" # "input_server"
      BY <1>p
    <3> QED
      BY <3>1, List2
  <2>2. t \in Seq(Fd!Pipes) /\ Distinct(t) /\ Elements(t) = Unused(q)
    <3> DEFINE sm == si \o Fd!MapPipes
               st == sm \o Fd!TargetPipes
    <3>1. /\ {"server_input", "input_server"} \cap mp = {}
          /\ ({"server_input", "input_server"} \cup mp) \cap tp = {}
          /\ ({"server_input", "input_server"} \cup mp \cup tp) \cap op = {}
      OBVIOUS
    <3> HIDE DEF si
    <3>2. /\ sm \in Seq(Fd!Pipes) /\ Distinct(sm)
          /\ Elements(sm) = {"server_input", "input_server"} \cup mp
      BY <2>1, <3>1, PairsOfPipes, ConcatElements
    <3> HIDE DEF sm
    <3>3. /\ st \in Seq(Fd!Pipes) /\ Distinct(st)
          /\ Elements(st) = {"server_input", "input_server"} \cup mp \cup tp
      BY <3>1, <3>2, PairsOfPipes, ConcatElements
    <3> HIDE DEF st
    <3>4. t = st \o Fd!ObstaclesPipes
      BY DEF st, sm
    <3>5. Unused(q) = {"server_input", "input_server"} \cup mp \cup tp \cup op
      BY <1>4 DEF Unused
    <3> DEFINE ob == Fd!ObstaclesPipes
               rest == {"server_input", "input_server"} \cup mp \cup tp
    <3>6. ob \in Seq(Fd!Pipes) /\ Elements(ob) = op /\ Distinct(ob)
      BY PairsOfPipes
    <3>7. /\ t = st \o ob /\ rest \cap op = {} /\ Elements(st) = rest
          /\ Unused(q) = rest \cup op
      BY <3>1, <3>3, <3>4, <3>5
    <3> HIDE DEF t, ob, rest, op
    <3>8. st \o ob \in Seq(Fd!Pipes) /\ Elements(st \o ob) = rest \cup op /\ Distinct(st \o ob)
      BY <3>3, <3>6, <3>7, JoinPipes
    <3> QED
      BY <3>7, <3>8
  <2>3. CloseList(s, Opposite(q))
    <3>1. /\ <<"input_drone", 1>> \in Fd!Ends /\ <<"server_drone", 1>> \in Fd!Ends
          /\ <<"drone_server", 0>> \in Fd!Ends
          /\ <<"input_drone", 1>> # <<"server_drone", 1>>
          /\ <<"input_drone", 1>> # <<"drone_server", 0>>
          /\ <<"server_drone", 1>> # <<"drone_server", 0>>
      BY <1>p
    <3>2. Opposite(q) = {<<"input_drone", 1>>, <<"server_drone", 1>>, <<"drone_server", 0>>}
      BY <1>4 DEF Opposite
    <3> QED
      BY <3>1, <3>2, List3 DEF CloseList
  <2>4. Opposite(q) \cap Unused(q) \X {0, 1} = {}
    BY <1>4 DEF Opposite, Unused
  <2> HIDE DEF s
  <2>5. Fd!ChildCloses(q) = s \o Fd!Both(t)
    BY <1>4 DEF Fd!ChildCloses, s
  <2> HIDE DEF t
  <2>6. CloseList(Fd!Both(t), Unused(q) \X {0, 1})
    BY <2>2, PipesList
  <2> QED
    BY <2>3, <2>4, <2>5, <2>6, JoinLists
<1>5. CASE q = "input"
  <2> DEFINE s == <<<<"input_drone", 0>>, <<"input_server", 0>>, <<"server_input", 1>>>>
  <2>1. CloseList(s, Opposite(q))
    <3>1. /\ <<"input_drone", 0>> \in Fd!Ends /\ <<"input_server", 0>> \in Fd!Ends
          /\ <<"server_input", 1>> \in Fd!Ends
          /\ <<"input_drone", 0>> # <<"input_server", 0>>
          /\ <<"input_drone", 0>> # <<"server_input", 1>>
          /\ <<"input_server", 0>> # <<"server_input", 1>>
      BY <1>p
    <3>2. Opposite(q) = {<<"input_drone", 0>>, <<"input_server", 0>>, <<"server_input", 1>>}
      BY <1>5 DEF Opposite
    <3> QED
      BY <3>1, <3>2, List3 DEF CloseList
  <2>2. Opposite(q) \cap Unused(q) \X {0, 1} = {} /\ Unused(q) = mp \cup tp \cup op
    BY <1>5 DEF Opposite, Unused
  <2>3. Fd!ChildCloses(q) = s \o Fd!Both(MTO)
    BY <1>5 DEF Fd!ChildCloses
  <2> HIDE DEF s, MTO
  <2>4. CloseList(Fd!Both(MTO), Unused(q) \X {0, 1})
    BY <1>2, <2>2, PipesList
  <2> QED
    BY <2>1, <2>2, <2>3, <2>4, JoinLists
<1>6. CASE q = "map"
  <2> DEFINE s == <<<<"map_server", 0>>, <<"server_map", 1>>>>
  <2>1. CloseList(s, Opposite(q))
    <3>1. /\ <<"map_server", 0>> \in Fd!Ends /\ <<"server_map", 1>> \in Fd!Ends
          /\ <<"map_server", 0>> # <<"server_map", 1>>
      BY <1>p
    <3>2. Opposite(q) = {<<"map_server", 0>>, <<"server_map", 1>>}
      BY <1>6 DEF Opposite
    <3> QED
      BY <3>1, <3>2, List2 DEF CloseList
  <2>2. Opposite(q) \cap Unused(q) \X {0, 1} = {} /\ Unused(q) = tp \cup op
    BY <1>6 DEF Opposite, Unused
  <2>3. Fd!ChildCloses(q) = s \o Fd!Both(TO)
    BY <1>6 DEF Fd!ChildCloses
  <2> HIDE DEF s, TO
  <2>4. CloseList(Fd!Both(TO), Unused(q) \X {0, 1})
    BY <1>1, <2>2, PipesList
  <2> QED
    BY <2>1, <2>2, <2>3, <2>4, JoinLists
<1>7. CASE q = "target"
  <2> DEFINE s == <<<<"target_server", 0>>, <<"server_target", 1>>>>
  <2>1. CloseList(s, Opposite(q))
    <3>1. /\ <<"target_server", 0>> \in Fd!Ends /\ <<"server_target", 1>> \in Fd!Ends
          /\ <<"target_server", 0>> # <<"server_target", 1>>
      BY <1>p
    <3>2. Opposite(q) = {<<"target_server", 0>>, <<"server_target", 1>>}
      BY <1>7 DEF Opposite
    <3> QED
      BY <3>1, <3>2, List2 DEF CloseList
  <2>2. Opposite(q) \cap Unused(q) \X {0, 1} = {} /\ Unused(q) = op
    BY <1>7 DEF Opposite, Unused
  <2>3. Fd!ChildCloses(q) = s \o Fd!Both(Fd!ObstaclesPipes)
    BY <1>7 DEF Fd!ChildCloses
  <2> HIDE DEF s
  <2>4. CloseList(Fd!Both(Fd!ObstaclesPipes), Unused(q) \X {0, 1})
    BY <2>2, PairsOfPipes, PipesList
  <2> QED
    BY <2>1, <2>2, <2>3, <2>4, JoinLists
<1>8. CASE q = "obstacles"
  <2>1. /\ <<"obstacles_server", 0>> \in Fd!Ends /\ <<"server_obstacles", 1>> \in Fd!Ends
        /\ <<"obstacles_server", 0>> # <<"server_obstacles", 1>>
    BY <1>p
  <2>2. /\ Opposite(q) = {<<"obstacles_server", 0>>, <<"server_obstacles", 1>>} /\ Unused(q) = {}
        /\ Fd!ChildCloses(q) = <<<<"obstacles_server", 0>>, <<"server_obstacles", 1>>>>
    BY <1>8 DEF Opposite, Unused, Fd!ChildCloses
  <2>3. CloseList(Fd!ChildCloses(q), Opposite(q))
    BY <2>1, <2>2, List2 DEF CloseList
  <2>4. Opposite(q) \cup Unused(q) \X {0, 1} = Opposite(q)
    BY <2>2
  <2> QED
    BY <2>3, <2>4
<1>9. CASE q = "WD"
  <2>1. Fd!ChildCloses(q) = <<>> /\ Opposite(q) = {} /\ Unused(q) = {}
    BY <1>9 DEF Fd!ChildCloses, Opposite, Unused
  <2>2. <<>> \in Seq(Fd!Ends) /\ Len(<<>>) = 0
    BY EmptySeq
  <2> QED
    BY <2>1, <2>2 DEF CloseList, Elements, Distinct
<1> QED
  BY <1>3, <1>4, <1>5, <1>6, <1>7, <1>8, <1>9 DEF SevenPrograms

----------------------------------------------------------------------------
(* What master has left when it has forked n programs and done its closes. *)

MapOn == {"map_server", "server_map", "target_server", "server_target",
          "obstacles_server", "server_obstacles"}
Left(n) ==
  CASE n \in {0, 1} -> Fd!Pipes
    [] n = 2 -> {"input_drone", "server_input", "input_server"} \cup MapOn
    [] n = 3 -> MapOn
    [] n = 4 -> {"target_server", "server_target", "obstacles_server", "server_obstacles"}
    [] n = 5 -> {"obstacles_server", "server_obstacles"}
    [] OTHER -> {}
Kept(n) == Left(n) \X {0, 1}

LEMMA ProgramAt ==
  /\ Len(Fd!programs) = 7
  /\ Fd!programs[1] = "server" /\ Fd!programs[2] = "drone" /\ Fd!programs[3] = "input"
  /\ Fd!programs[4] = "map" /\ Fd!programs[5] = "target" /\ Fd!programs[6] = "obstacles"
  /\ Fd!programs[7] = "WD"
  /\ \A i \in 1..7 : Fd!programs[i] \in SevenPrograms
  /\ \A i, j \in 1..7 : Fd!programs[i] = Fd!programs[j] => i = j
<1>1. 1..7 = {1, 2, 3, 4, 5, 6, 7}
  OBVIOUS
<1> QED
  BY <1>1 DEF Fd!programs, SevenPrograms

\* The closes of the father after a fork take it to what the next fork copies.
LEMMA LeftNext ==
  ASSUME NEW n \in 0..6
  PROVE  /\ Closed(Fd!programs[n + 1]) \subseteq Left(n)
         /\ Left(n + 1) = Left(n) \ Closed(Fd!programs[n + 1])
<1>1. n \in {0, 1, 2, 3, 4, 5, 6}
  OBVIOUS
<1>2. CASE n = 0
  BY <1>2, ProgramAt DEF Left, Closed
<1>3. CASE n = 1
  BY <1>3, ProgramAt DEF Left, Closed, Fd!Pipes, MapOn
<1>4. CASE n = 2
  BY <1>4, ProgramAt DEF Left, Closed, MapOn
<1>5. CASE n = 3
  BY <1>5, ProgramAt DEF Left, Closed, MapOn
<1>6. CASE n = 4
  BY <1>6, ProgramAt DEF Left, Closed
<1>7. CASE n = 5
  BY <1>7, ProgramAt DEF Left, Closed
<1>8. CASE n = 6
  BY <1>8, ProgramAt DEF Left, Closed
<1> QED
  BY <1>1, <1>2, <1>3, <1>4, <1>5, <1>6, <1>7, <1>8

\* What a child has copied falls apart into what it closes and what it uses.
LEMMA ChildLeaves ==
  ASSUME NEW n \in 0..6
  PROVE  LET q == Fd!programs[n + 1]
             out == Opposite(q) \cup Unused(q) \X {0, 1}
         IN  out \subseteq Kept(n) /\ Kept(n) \ out = Fd!Used(q)
<1>1. n \in {0, 1, 2, 3, 4, 5, 6}
  OBVIOUS
<1>2. CASE n = 0
  BY <1>2, ProgramAt DEF Kept, Left, Opposite, Unused, Fd!Used, Fd!Pipes
<1>3. CASE n = 1
  BY <1>3, ProgramAt DEF Kept, Left, Opposite, Unused, Fd!Used, Fd!Pipes
<1>4. CASE n = 2
  BY <1>4, ProgramAt DEF Kept, Left, Opposite, Unused, Fd!Used, MapOn
<1>5. CASE n = 3
  BY <1>5, ProgramAt DEF Kept, Left, Opposite, Unused, Fd!Used, MapOn
<1>6. CASE n = 4
  BY <1>6, ProgramAt DEF Kept, Left, Opposite, Unused, Fd!Used
<1>7. CASE n = 5
  BY <1>7, ProgramAt DEF Kept, Left, Opposite, Unused, Fd!Used
<1>8. CASE n = 6
  BY <1>8, ProgramAt DEF Kept, Left, Opposite, Unused, Fd!Used
<1> QED
  BY <1>1, <1>2, <1>3, <1>4, <1>5, <1>6, <1>7, <1>8

\* Master holds what the later programs need and what is left to close after the
\* last fork; a child holds what master had when it was forked until it runs.
FdInv ==
  /\ forked \in 0..7 /\ execed \subseteq Fd!Forked
  /\ closing \in Seq(Fd!Ends) /\ Distinct(closing)
  /\ Elements(closing) \cap Kept(forked) = {}
  /\ table \in [SevenPrograms \cup {"master"} -> SUBSET Fd!Ends]
  /\ table["master"] = Kept(forked) \cup Elements(closing)
  /\ \A i \in 1..forked :
       table[Fd!programs[i]] = IF Fd!programs[i] \in execed
                               THEN Fd!Used(Fd!programs[i])
                               ELSE Kept(i - 1)

LEMMA KeptEnds == \A n : Kept(n) \subseteq Fd!Ends
<1>1. \A n : Left(n) \subseteq Fd!Pipes
  BY DEF Left, Fd!Pipes, MapOn
<1> QED
  BY <1>1 DEF Kept, Fd!Ends

LEMMA FirstClose ==
  ASSUME NEW s \in Seq(Fd!Ends), s # <<>>, Distinct(s)
  PROVE  /\ Tail(s) \in Seq(Fd!Ends) /\ Distinct(Tail(s))
         /\ Elements(s) = {Head(s)} \cup Elements(Tail(s))
         /\ Head(s) \notin Elements(Tail(s))
<1> DEFINE t == Tail(s)
           n == Len(s)
<1>1. /\ t \in Seq(Fd!Ends) /\ n \in Nat /\ n > 0 /\ Len(t) = n - 1 /\ Head(s) = s[1]
      /\ \A i \in 1..(n - 1) : t[i] = s[i + 1]
  BY HeadTailProperties, EmptySeq
<1> HIDE DEF t, n
<1>2. Elements(t) = {t[i] : i \in 1..(n - 1)} /\ Elements(s) = {s[i] : i \in 1..n}
  BY <1>1 DEF Elements, n
<1>3. \A i \in 1..(n - 1) : i + 1 \in 1..n /\ t[i] = s[i + 1] /\ i + 1 # 1
  BY <1>1
<1>4. \A i \in 1..n : i = 1 \/ (i - 1 \in 1..(n - 1) /\ t[i - 1] = s[i])
  <2> TAKE i \in 1..n
  <2>1. CASE i # 1
    <3>1. i - 1 \in 1..(n - 1) /\ (i - 1) + 1 = i
      BY <1>1, <2>1
    <3> QED
      BY <1>1, <3>1
  <2> QED
    BY <2>1
<1>5. \A i, j \in 1..n : s[i] = s[j] => i = j
  BY DEF Distinct, n
<1>6. Distinct(t)
  <2> SUFFICES ASSUME NEW i \in 1..(n - 1), NEW j \in 1..(n - 1), t[i] = t[j] PROVE i = j
    BY <1>1 DEF Distinct
  <2>1. i + 1 = j + 1
    BY <1>3, <1>5
  <2> QED
    BY <2>1
<1>7. s[1] \notin Elements(t)
  <2> SUFFICES ASSUME NEW i \in 1..(n - 1), t[i] = s[1] PROVE FALSE
    BY <1>2
  <2> QED
    BY <1>1, <1>3, <1>5
<1>8. Elements(s) = {s[1]} \cup Elements(t)
  <2>1. 1 \in 1..n
    BY <1>1
  <2>2. ASSUME NEW x \in Elements(s) PROVE x \in {s[1]} \cup Elements(t)
    BY <1>2, <1>4
  <2>3. ASSUME NEW x \in Elements(t) PROVE x \in Elements(s)
    BY <1>2, <1>3
  <2>4. s[1] \in Elements(s)
    BY <1>2, <2>1
  <2> QED
    BY <2>2, <2>3, <2>4
<1> QED
  BY <1>1, <1>6, <1>7, <1>8 DEF t

LEMMA InitFd == Init => FdInv
<1> SUFFICES ASSUME Init PROVE FdInv
  OBVIOUS
<1>1. /\ forked = 0 /\ closing = <<>> /\ execed = {}
      /\ table = [q \in SevenPrograms \cup {"master"} |-> IF q = "master" THEN Fd!Ends ELSE {}]
  BY TheProgramsAre DEF Init, Fd!Init
<1>2. closing \in Seq(Fd!Ends) /\ Len(closing) = 0
  BY <1>1, EmptySeq
<1>3. Elements(closing) = {} /\ Distinct(closing)
  BY <1>2 DEF Elements, Distinct
<1>4. Kept(0) = Fd!Ends /\ table["master"] = Fd!Ends
  BY <1>1 DEF Kept, Left, Fd!Ends
<1>5. table \in [SevenPrograms \cup {"master"} -> SUBSET Fd!Ends]
  BY <1>1
<1>6. 1..forked = {}
  BY <1>1
<1> QED
  BY <1>1, <1>2, <1>3, <1>4, <1>5, <1>6 DEF FdInv

LEMMA ForkFd ==
  ASSUME FdInv, Fd!Fork
  PROVE  FdInv'
<1> DEFINE q == Fd!programs[forked + 1]
<1>1. /\ closing = <<>> /\ forked < 7 /\ forked' = forked + 1
      /\ table' = [table EXCEPT ![q] = table["master"]]
      /\ closing' = Fd!FatherCloses(q) /\ execed' = execed
  BY ProgramAt DEF Fd!Fork
<1>2. forked \in 0..6 /\ forked + 1 \in 1..7 /\ (forked + 1) - 1 = forked
  BY <1>1 DEF FdInv
<1>3. q \in SevenPrograms /\ q # "master" /\ \A i \in 1..forked : Fd!programs[i] # q
  <2>1. \A i \in 1..forked : i \in 1..7 /\ i # forked + 1
    BY <1>2
  <2> QED
    BY <1>2, <2>1, ProgramAt DEF SevenPrograms
<1>4. /\ closing' \in Seq(Fd!Ends) /\ Distinct(closing')
      /\ Elements(closing') = Closed(q) \X {0, 1}
  BY <1>1, <1>3, FatherList DEF CloseList
<1>5. /\ Closed(q) \subseteq Left(forked) /\ Left(forked') = Left(forked) \ Closed(q)
  BY <1>1, <1>2, LeftNext
<1>6. /\ Elements(closing') \cap Kept(forked') = {}
      /\ Kept(forked) = Kept(forked') \cup Elements(closing')
  BY <1>4, <1>5 DEF Kept
<1>7. table["master"] = Kept(forked)
  <2>1. Elements(closing) = {}
    BY <1>1, EmptySeq DEF Elements
  <2> QED
    BY <2>1 DEF FdInv
<1>8. /\ table' \in [SevenPrograms \cup {"master"} -> SUBSET Fd!Ends]
      /\ table'["master"] = table["master"] /\ table'[q] = table["master"]
      /\ \A r \in SevenPrograms \ {q} : table'[r] = table[r]
  BY <1>1, <1>3 DEF FdInv, SevenPrograms
<1>9. execed' \subseteq Fd!Forked' /\ q \notin execed'
  <2>1. execed \subseteq {Fd!programs[i] : i \in 1..forked}
    BY DEF FdInv, Fd!Forked
  <2>2. 1..forked \subseteq 1..forked'
    BY <1>1, <1>2
  <2>3. Fd!Forked' = {Fd!programs[i] : i \in 1..forked'}
    BY DEF Fd!Forked, Fd!programs
  <2> QED
    BY <1>1, <1>3, <2>1, <2>2, <2>3
<1>10. ASSUME NEW i \in 1..forked'
       PROVE  table'[Fd!programs[i]] = IF Fd!programs[i] \in execed'
                                       THEN Fd!Used(Fd!programs[i])
                                       ELSE Kept(i - 1)
  <2>1. CASE i = forked + 1
    <3>1. Fd!programs[i] = q /\ i - 1 = forked
      BY <1>2, <2>1
    <3> QED
      BY <1>7, <1>8, <1>9, <3>1
  <2>2. CASE i \in 1..forked
    <3>1. i \in 1..7
      BY <1>2, <2>2
    <3>2. Fd!programs[i] \in SevenPrograms \ {q}
      BY <1>3, <2>2, <3>1, ProgramAt
    <3> QED
      BY <1>1, <1>8, <2>2, <3>2 DEF FdInv
  <2>3. i = forked + 1 \/ i \in 1..forked
    BY <1>1, <1>2
  <2> QED
    BY <2>1, <2>2, <2>3
<1> HIDE DEF q
<1>11. /\ table'["master"] = Kept(forked') \cup Elements(closing')
       /\ forked' \in 0..7
  BY <1>1, <1>2, <1>6, <1>7, <1>8
<1> QED
  BY <1>4, <1>6, <1>8, <1>9, <1>10, <1>11 DEF FdInv

LEMMA FatherCloseFd ==
  ASSUME FdInv, Fd!FatherClose
  PROVE  FdInv'
<1>1. /\ closing # <<>> /\ closing' = Tail(closing) /\ forked' = forked /\ execed' = execed
      /\ table' = [table EXCEPT !["master"] = @ \ {Head(closing)}]
  BY DEF Fd!FatherClose
<1>2. /\ closing' \in Seq(Fd!Ends) /\ Distinct(Tail(closing))
      /\ Elements(closing) = {Head(closing)} \cup Elements(Tail(closing))
      /\ Head(closing) \notin Elements(Tail(closing))
  BY <1>1, FirstClose DEF FdInv
<1>3. /\ table' \in [SevenPrograms \cup {"master"} -> SUBSET Fd!Ends]
      /\ table'["master"] = table["master"] \ {Head(closing)}
      /\ \A r \in SevenPrograms : table'[r] = table[r]
  BY <1>1 DEF FdInv, SevenPrograms
<1>4. \A i \in 1..forked : i \in 1..7
  BY DEF FdInv
<1>5. \A i \in 1..forked : table'[Fd!programs[i]] = table[Fd!programs[i]]
  BY <1>3, <1>4, ProgramAt
<1>6. Head(closing) \notin Kept(forked)
  BY <1>2 DEF FdInv
<1>7. table'["master"] = Kept(forked) \cup Elements(Tail(closing))
  BY <1>2, <1>3, <1>6 DEF FdInv
<1>8. Elements(Tail(closing)) \cap Kept(forked) = {}
  BY <1>2 DEF FdInv
<1>9. Fd!Forked' = Fd!Forked
  BY <1>1 DEF Fd!Forked, Fd!programs
<1> QED
  BY <1>1, <1>2, <1>3, <1>5, <1>7, <1>8, <1>9 DEF FdInv

\* What a child closes, as a set.
LEMMA ChildSet ==
  ASSUME NEW q \in SevenPrograms
  PROVE  /\ Fd!ToSet(Fd!ChildCloses(q)) = Opposite(q) \cup Unused(q) \X {0, 1}
         /\ Fd!IsInjective(Fd!ChildCloses(q))
<1> DEFINE s == Fd!ChildCloses(q)
<1>1. /\ s \in Seq(Fd!Ends) /\ Distinct(s)
      /\ Elements(s) = Opposite(q) \cup Unused(q) \X {0, 1}
  BY ChildList DEF CloseList
<1> HIDE DEF s
<1>2. DOMAIN s = 1..Len(s)
  BY <1>1, LenProperties
<1>3. Fd!ToSet(s) = Elements(s) /\ Fd!IsInjective(s)
  BY <1>1, <1>2 DEF Fd!ToSet, Fd!IsInjective, Elements, Distinct
<1> QED
  BY <1>1, <1>3 DEF s

LEMMA ChildExecFd ==
  ASSUME FdInv, NEW q \in SevenPrograms, Fd!ChildExec(q)
  PROVE  FdInv'
<1>1. /\ q \in Fd!Forked \ execed /\ execed' = execed \cup {q}
      /\ table' = [table EXCEPT ![q] = @ \ Fd!ToSet(Fd!ChildCloses(q))]
      /\ forked' = forked /\ closing' = closing
  BY DEF Fd!ChildExec
<1>2. PICK k \in 1..forked : q = Fd!programs[k]
  BY <1>1 DEF Fd!Forked
<1>3. k \in 1..7 /\ k - 1 \in 0..6 /\ (k - 1) + 1 = k
  BY DEF FdInv
<1>4. table[q] = Kept(k - 1)
  BY <1>1, <1>2 DEF FdInv
<1>5. Kept(k - 1) \ Fd!ToSet(Fd!ChildCloses(q)) = Fd!Used(q)
  BY <1>2, <1>3, ChildSet, ChildLeaves
<1>6. /\ table' \in [SevenPrograms \cup {"master"} -> SUBSET Fd!Ends]
      /\ table'["master"] = table["master"] /\ table'[q] = Fd!Used(q)
      /\ \A r \in SevenPrograms \ {q} : table'[r] = table[r]
  BY <1>1, <1>4, <1>5 DEF FdInv, SevenPrograms
<1>7. ASSUME NEW i \in 1..forked
      PROVE  table'[Fd!programs[i]] = IF Fd!programs[i] \in execed'
                                      THEN Fd!Used(Fd!programs[i])
                                      ELSE Kept(i - 1)
  <2>1. i \in 1..7 /\ Fd!programs[i] \in SevenPrograms
    BY ProgramAt DEF FdInv
  <2>2. CASE Fd!programs[i] = q
    BY <1>1, <1>6, <2>2
  <2>3. CASE Fd!programs[i] # q
    BY <1>1, <1>6, <2>1, <2>3 DEF FdInv
  <2> QED
    BY <2>2, <2>3
<1>8. Fd!Forked' = Fd!Forked
  BY <1>1 DEF Fd!Forked, Fd!programs
<1> QED
  BY <1>1, <1>6, <1>7, <1>8 DEF FdInv

LEMMA StepFd == FdInv /\ [Next]_vars => FdInv'
<1> SUFFICES ASSUME FdInv, [Next]_vars PROVE FdInv'
  OBVIOUS
<1>1. CASE Boot
  BY <1>1, ForkFd, FatherCloseFd, ChildExecFd, TheProgramsAre DEF Boot
<1>2. ASSUME UNCHANGED fdVars PROVE FdInv'
  BY <1>2 DEF fdVars, FdInv, Fd!Forked
<1>3. ASSUME NEW q \in SevenPrograms, Run(q) PROVE UNCHANGED fdVars
  BY <1>3 DEF Run, Sigaction, Access, Mkfifo, Open, WritePid, ReadPid
<1>4. CASE WDSignal
  BY <1>2, <1>4 DEF WDSignal
<1>5. CASE UNCHANGED vars
  BY <1>2, <1>5 DEF vars
<1> QED
  BY <1>1, <1>2, <1>3, <1>4, <1>5, TheProgramsAre DEF Next

\* Every pipe end is left with the one program that uses it, in whatever order
\* the children close and exec (master.c:245-246).
THEOREM EndsHaveOneHolder == Spec => []OneHolder
<1>1. FdInv => OneHolder
  <2> SUFFICES ASSUME FdInv PROVE Fd!OneHolder
    BY DEF OneHolder
  <2>1. ASSUME NEW q \in execed PROVE table[q] = Fd!Used(q)
    BY <2>1 DEF FdInv, Fd!Forked
  <2>2. ASSUME forked = Len(Fd!programs), closing = <<>> PROVE table["master"] = {}
    <3>1. forked = 7 /\ Elements(closing) = {}
      BY <2>2, ProgramAt, EmptySeq DEF Elements
    <3>2. Kept(forked) = {}
      BY <3>1 DEF Kept, Left
    <3> QED
      BY <3>1, <3>2 DEF FdInv
  <2> QED
    BY <2>1, <2>2 DEF Fd!OneHolder
<1> QED
  BY <1>1, InitFd, StepFd, PTL DEF Spec

\* No Close of master or of a child meets a descriptor that is closed already:
\* no program stops in its wrapper before it runs (master.c:110-283).
THEOREM EveryCloseSucceeds == Spec => []ClosesAreOpen
<1>1. FdInv => ClosesAreOpen
  <2> SUFFICES ASSUME FdInv PROVE Fd!ClosesAreOpen
    BY DEF ClosesAreOpen
  <2>1. ASSUME closing # <<>> PROVE Head(closing) \in table["master"]
    <3>1. Elements(closing) = {Head(closing)} \cup Elements(Tail(closing))
      BY <2>1, FirstClose DEF FdInv
    <3> QED
      BY <3>1 DEF FdInv
  <2>2. ASSUME NEW q \in Fd!Forked \ execed
        PROVE  Fd!ToSet(Fd!ChildCloses(q)) \subseteq table[q] /\ Fd!IsInjective(Fd!ChildCloses(q))
    <3>1. PICK k \in 1..forked : q = Fd!programs[k]
      BY <2>2 DEF Fd!Forked
    <3>2. k \in 1..7 /\ k - 1 \in 0..6 /\ (k - 1) + 1 = k
      BY DEF FdInv
    <3>3. q \in SevenPrograms
      BY <3>1, <3>2, ProgramAt
    <3>4. table[q] = Kept(k - 1)
      BY <2>2, <3>1 DEF FdInv
    <3> QED
      BY <3>1, <3>2, <3>3, <3>4, ChildSet, ChildLeaves
  <2> QED
    BY <2>1, <2>2 DEF Fd!ClosesAreOpen
<1> QED
  BY <1>1, InitFd, StepFd, PTL DEF Spec

----------------------------------------------------------------------------

\* What a named pipe carries is the pid of the one program that writes to it.
Carries ==
  /\ letter["FIFO2"] \in {"input", Nobody} /\ letter["FIFO1"] \in {"map", Nobody}
  /\ known \subseteq {"input", "map"}
  /\ fifos \subseteq Paths /\ killed \subseteq SevenPrograms

LEMMA CarriesStep == Inv /\ Carries /\ [Next]_vars => Carries'
<1> SUFFICES ASSUME Inv, Carries, [Next]_vars PROVE Carries'
  OBVIOUS
<1>1. CASE Boot
  BY <1>1 DEF Boot, Carries
<1>2. CASE WDSignal
  <2>1. /\ killed' = IF Handle \in Made(p_pids[signalled + 1])
                     THEN killed ELSE {p_pids[signalled + 1]}
        /\ signalled < Len(p_pids) /\ UNCHANGED <<fifos, letter, known>>
    BY <1>2 DEF WDSignal
  <2>2. signalled + 1 \in {1, 2, 3, 4, 5, 6}
    BY <2>1 DEF Inv, Types, p_pids
  <2>3. p_pids[signalled + 1] \in SevenPrograms
    BY <2>2 DEF p_pids, SevenPrograms
  <2> QED
    BY <2>1, <2>3 DEF Carries
<1>3. ASSUME NEW q \in SevenPrograms, Run(q) PROVE Carries'
  <2>1. CASE Sigaction(q)
    BY <2>1 DEF Sigaction, Carries
  <2>2. ASSUME NEW path \in Paths, Access(q, path) \/ Mkfifo(q, path) \/ Open(q, path)
        PROVE  Carries'
    BY <2>2 DEF Access, Mkfifo, Open, Carries
  <2>3. ASSUME NEW path \in Paths, WritePid(q, path) PROVE Carries'
    <3>1. /\ Calls(q, "Write", path) /\ letter' = [letter EXCEPT ![path] = q]
          /\ UNCHANGED <<fifos, known, killed>>
      BY <2>3 DEF WritePid
    <3>2. (q = "input" /\ path = "FIFO2") \/ (q = "map" /\ path = "FIFO1")
      BY <3>1, CallPlace DEF Inv
    <3> QED
      BY <3>1, <3>2 DEF Carries, Inv, Types, Paths
  <2>4. ASSUME NEW path \in Paths, ReadPid(q, path) PROVE Carries'
    <3>1. /\ letter[path] # Nobody /\ known' = known \cup {letter[path]}
          /\ letter' = [letter EXCEPT ![path] = Nobody] /\ UNCHANGED <<fifos, killed>>
      BY <2>4 DEF ReadPid
    <3>2. letter[path] \in {"input", "map"}
      BY <3>1 DEF Carries, Paths
    <3>3. known' \subseteq {"input", "map"}
      BY <3>1, <3>2 DEF Carries
    <3>4. letter \in [Paths -> SevenPrograms \cup {Nobody}]
      BY DEF Inv, Types
    <3>5. \A p \in Paths : letter'[p] = letter[p] \/ letter'[p] = Nobody
      BY <3>1, <3>4
    <3>6. /\ letter'["FIFO2"] \in {"input", Nobody}
          /\ letter'["FIFO1"] \in {"map", Nobody}
      BY <3>5 DEF Carries, Paths
    <3> QED
      BY <3>1, <3>3, <3>6 DEF Carries
  <2> QED
    BY <1>3, <2>1, <2>2, <2>3, <2>4 DEF Run
<1>4. CASE UNCHANGED vars
  BY <1>4 DEF vars, Carries
<1> QED
  BY <1>1, <1>2, <1>3, <1>4, TheProgramsAre DEF Next

\* The type invariant: among others the watchdog comes to know the pids of input
\* and map only, and no program makes more calls than its script has.
THEOREM StartupTypes == Spec => []TypeOK
<1>1. Inv /\ FdInv /\ Carries => TypeOK
  <2> SUFFICES ASSUME Inv, FdInv, Carries PROVE TypeOK
    OBVIOUS
  <2>1. Fd!TypeOK
    <3>1. Fd!Forked \subseteq SevenPrograms
      <4>1. \A i \in 1..forked : i \in 1..7
        BY DEF FdInv
      <4> QED
        BY <4>1, ProgramAt DEF Fd!Forked
    <3> QED
      BY <3>1, ProgramAt, TheProgramsAre DEF FdInv, Fd!TypeOK
  <2>2. \A q \in SevenPrograms : at[q] \in 0..7
    <3> TAKE q \in SevenPrograms
    <3>1. Len(Script[q]) \in {1, 4, 7} /\ at[q] \in Nat /\ at[q] <= Len(Script[q])
      BY Places DEF Inv, Types
    <3> DEFINE n == Len(Script[q])
               k == at[q]
    <3> HIDE DEF n, k
    <3>2. n \in {1, 4, 7} /\ k \in Nat /\ k <= n
      BY <3>1 DEF n, k
    <3>3. k \in 0..7
      BY <3>2
    <3> QED
      BY <3>3 DEF k
  <2>3. at \in [SevenPrograms -> 0..7]
    BY <2>2 DEF Inv, Types
  <2> QED
    BY <2>1, <2>3, TheProgramsAre DEF TypeOK, Inv, Types, Carries
<1>2. Init => Carries
  BY DEF Init, Carries, Paths
<1>3. Inv /\ FdInv /\ Carries /\ [Next]_vars => (Inv /\ FdInv /\ Carries)'
  BY StepInv, StepFd, CarriesStep
<1> QED
  BY <1>1, <1>2, <1>3, InitInv, InitFd, PTL DEF Spec
=============================================================================
