--------------------------- MODULE ShutdownProofs ---------------------------
(***************************************************************************)
(* Theorems about Shutdown for every set of peers, every pipe capacity and *)
(* every bound.                                                            *)
(***************************************************************************)
EXTENDS Shutdown, FiniteSetTheorems, SequenceTheorems, TLAPS

\* The steps that take no part in the exchange of signals.
SignalsAlone == UNCHANGED <<pending, wdVars>>

\* A process that ends takes its pending signal along and leaves the watchdog
\* alone.
LEMMA EndKeeps ==
  ASSUME AnswerIsOwn, NEW q, NEW how, End(q, how), UNCHANGED wdVars
  PROVE  AnswerIsOwn'
BY DEF AnswerIsOwn, End, wdVars

\* Every step of a process but the handler of SIGUSR1 and the key p.
LEMMA ProcessKeeps ==
  ASSUME AnswerIsOwn,
         \/ \E q \in Processes : DoWrite(q) \/ DoClose(q) \/ Exit(q)
         \/ \E q \in Processes : KeyAfterError(q) \/ Crash(q)
         \/ KeyOther \/ InputRead
         \/ \E q \in {"server", "drone"} : SelectReturns(q) \/ PassOver(q)
         \/ Serve
         \/ MapSelect \/ TargetSend \/ TargetRead \/ ObstaclesSend \/ ObstaclesSelect
         \/ (\E q \in Processes : KonsoleCloses(q)) \/ UNCHANGED vars
  PROVE  AnswerIsOwn'
<1>1. SUFFICES ASSUME SignalsAlone PROVE AnswerIsOwn'
  <2>1. ASSUME NEW q \in Processes, DoWrite(q) \/ DoClose(q) PROVE SignalsAlone
    BY <2>1 DEF DoWrite, DoClose, SignalsAlone
  <2>2. ASSUME NEW q \in Processes, Exit(q) \/ KeyAfterError(q) \/ Crash(q)
        PROVE  AnswerIsOwn'
    BY <2>2, EndKeeps DEF Exit, KeyAfterError, Crash
  <2>3. ASSUME KeyOther \/ InputRead PROVE SignalsAlone
    BY <2>3 DEF KeyOther, InputRead, SignalsAlone
  <2>4. ASSUME NEW q \in {"server", "drone"}, SelectReturns(q) \/ PassOver(q)
        PROVE  SignalsAlone
    BY <2>4 DEF SelectReturns, PassOver, SignalsAlone
  <2>5. ASSUME Serve PROVE SignalsAlone
    BY <2>5 DEF Serve, ServerServe, DroneServe, ServeEof, SignalsAlone
  <2>6. ASSUME MapSelect \/ TargetSend \/ TargetRead PROVE SignalsAlone
    BY <2>6 DEF MapSelect, TargetSend, TargetRead, SignalsAlone
  <2>7. ASSUME ObstaclesSend \/ ObstaclesSelect PROVE SignalsAlone
    BY <2>7 DEF ObstaclesSend, ObstaclesSelect, SignalsAlone
  <2>8. ASSUME NEW q \in Processes, KonsoleCloses(q) PROVE SignalsAlone
    BY <2>8 DEF KonsoleCloses, SignalsAlone
  <2>9. ASSUME UNCHANGED vars PROVE SignalsAlone
    BY <2>9 DEF vars, SignalsAlone
  <2> QED
    BY <2>1, <2>2, <2>3, <2>4, <2>5, <2>6, <2>7, <2>8, <2>9
<1> QED
  BY <1>1 DEF AnswerIsOwn, SignalsAlone, wdVars

\* The handler turns the one pending signal into the one answer.
LEMMA HandlerKeeps ==
  ASSUME AnswerIsOwn, NEW q \in Processes, Handler(q)
  PROVE  AnswerIsOwn'
<1>1. q \in pending /\ UNCHANGED <<wd, wd_pc, wd_at>>
  BY DEF Handler
<1>2. CASE wd # "alive"
  BY <1>1, <1>2 DEF AnswerIsOwn
<1>3. CASE wd = "alive"
  <2>1. pending' = pending \ {q} /\ count' = count + 1
    BY <1>3 DEF Handler
  <2>2. ~(wd_pc = "signal")
    BY <1>1, <1>3 DEF AnswerIsOwn
  <2>3. wd_pc = "sleep" => count = 0 /\ pending = {q}
    BY <1>1, <1>3 DEF AnswerIsOwn
  <2> QED
    BY <1>1, <2>1, <2>2, <2>3 DEF AnswerIsOwn
<1> QED
  BY <1>2, <1>3

\* The watchdog waits for one answer at a time.
LEMMA WatchdogKeeps ==
  ASSUME AnswerIsOwn,
         KeyP \/ WDSignal \/ WDNext \/ WDAlarm \/ WDKill \/ MasterWait
  PROVE  AnswerIsOwn'
<1>1. CASE KeyP
  BY <1>1 DEF KeyP, AnswerIsOwn
<1>2. CASE WDSignal
  BY <1>2 DEF WDSignal, AnswerIsOwn
<1>3. CASE WDNext
  BY <1>3 DEF WDNext, NewCount, AnswerIsOwn
<1>4. CASE WDAlarm
  BY <1>4 DEF WDAlarm, AnswerIsOwn
<1>5. CASE WDKill
  BY <1>5 DEF WDKill, AnswerIsOwn
<1>6. CASE MasterWait
  BY <1>6 DEF MasterWait, AnswerIsOwn
<1> QED
  BY <1>1, <1>2, <1>3, <1>4, <1>5, <1>6

\* The watchdog takes no answer for that of another process: a process that does
\* not answer its signal is never passed over (WD.c:123-173).
THEOREM OwnAnswers == Spec => []AnswerIsOwn
<1>1. Init => AnswerIsOwn
  BY DEF Init, AnswerIsOwn
<1>2. AnswerIsOwn /\ [Next]_vars => AnswerIsOwn'
  <2> SUFFICES ASSUME AnswerIsOwn, [Next]_vars PROVE AnswerIsOwn'
    OBVIOUS
  <2>1. ASSUME NEW q \in Processes, Handler(q) PROVE AnswerIsOwn'
    BY <2>1, HandlerKeeps
  <2>2. ASSUME KeyP \/ WDSignal \/ WDNext \/ WDAlarm \/ WDKill \/ MasterWait
        PROVE  AnswerIsOwn'
    BY <2>2, WatchdogKeeps
  <2> QED
    BY <2>1, <2>2, ProcessKeeps DEF Next
<1> QED
  BY <1>1, <1>2, PTL DEF Spec

----------------------------------------------------------------------------
(* Lists of calls: what AtPlaces keeps of a list.                          *)

Elements(s) == {s[i] : i \in 1..Len(s)}
Distinct(s) == \A i, j \in 1..Len(s) : s[i] = s[j] => i = j
ClosesLast(s) == \A i, j \in 1..Len(s) : i < j /\ s[i].op = "close" => s[j].op = "close"

\* How many of the places come before i or are i.
Rank(K, i) == Cardinality({j \in K : j <= i})

\* The ranks of n places are the numbers from 1 to n, in order.
LEMMA Ranks ==
  ASSUME NEW m \in Nat, NEW K \in SUBSET (1..m)
  PROVE  /\ Cardinality(K) \in Nat
         /\ \A i \in K : Rank(K, i) \in 1..Cardinality(K)
         /\ \A i, j \in K : i < j => Rank(K, i) < Rank(K, j)
         /\ \A k \in 1..Cardinality(K) : \E i \in K : Rank(K, i) = k
<1> DEFINE n == Cardinality(K)
           upto(i) == {j \in K : j <= i}
<1>0. \A i \in K : i \in Int
  OBVIOUS
<1>1. IsFiniteSet(K) /\ n \in Nat
  <2>1. IsFiniteSet(1..m)
    BY FS_Interval
  <2> QED
    BY <2>1, FS_Subset, FS_CardinalityType
<1>2. ASSUME NEW i \in K
      PROVE  IsFiniteSet(upto(i)) /\ Cardinality(upto(i)) \in Nat /\ Cardinality(upto(i)) <= n
  <2>1. upto(i) \in SUBSET K
    OBVIOUS
  <2> QED
    BY <1>1, <2>1, FS_Subset, FS_CardinalityType
<1>3. ASSUME NEW i \in K PROVE Cardinality(upto(i)) \in 1..n
  <2>1. i \in upto(i)
    BY <1>0
  <2>2. Cardinality(upto(i)) # 0
    BY <1>2, <2>1, FS_EmptySet
  <2> QED
    BY <1>1, <1>2, <2>2
<1>4. ASSUME NEW i \in K, NEW j \in K, i < j
      PROVE  Cardinality(upto(i)) < Cardinality(upto(j))
  <2>1. upto(i) \in SUBSET upto(j) /\ j \in upto(j) /\ j \notin upto(i)
    <3>1. i \in Int /\ j \in Int /\ \A k \in K : k <= i => k <= j
      BY <1>0, <1>4
    <3>2. j <= j /\ ~(j <= i)
      BY <1>4, <3>1
    <3> QED
      BY <3>1, <3>2
  <2>2. IsFiniteSet(upto(j)) /\ upto(i) # upto(j)
    BY <1>2, <2>1
  <2>3. /\ Cardinality(upto(i)) <= Cardinality(upto(j))
        /\ Cardinality(upto(j)) = Cardinality(upto(i)) => upto(j) = upto(i)
    BY <2>1, <2>2, FS_Subset
  <2> QED
    BY <1>2, <2>2, <2>3
<1>5. \A k \in 1..n : \E i \in K : Rank(K, i) = k
  <2> DEFINE f == [i \in K |-> Rank(K, i)]
  <2>1. f \in [K -> 1..n]
    BY <1>3 DEF Rank
  <2>2. \A i, j \in K : f[i] = f[j] => i = j
    <3> SUFFICES ASSUME NEW i \in K, NEW j \in K, f[i] = f[j], i # j PROVE FALSE
      OBVIOUS
    <3>1. i < j \/ j < i
      BY <1>0
    <3>2. Rank(K, i) = Rank(K, j) /\ Rank(K, i) \in Nat
      BY <1>3 DEF Rank
    <3> QED
      BY <1>3, <1>4, <3>1, <3>2 DEF Rank
  <2>3. f \in Injection(K, 1..n)
    BY <2>1, <2>2, Zenon DEF Injection, IsInjective
  <2>4. IsFiniteSet(1..n) /\ Cardinality(1..n) = n
    BY <1>1, FS_Interval
  <2>5. f \in Surjection(K, 1..n)
    BY <2>3, <2>4, FS_Injection
  <2>6. \A k \in 1..n : \E i \in K : f[i] = k
    BY <2>5 DEF Surjection
  <2> QED
    BY <2>6
<1> QED
  BY <1>1, <1>3, <1>4, <1>5 DEF Rank

LEMMA FunctionIsSeq ==
  ASSUME NEW S, NEW n \in Nat, NEW f \in [1..n -> S]
  PROVE  f \in Seq(S) /\ Len(f) = n
<1>1. f \in Seq(S)
  BY SeqDef
<1>2. Len(f) \in Nat /\ DOMAIN f = 1..Len(f) /\ DOMAIN f = 1..n
  BY <1>1, LenProperties
<1>3. Len(f) = n
  BY <1>2
<1> QED
  BY <1>1, <1>3

LEMMA AtPlacesIs ==
  ASSUME NEW S, NEW s \in Seq(S), NEW K \in SUBSET (1..Len(s))
  PROVE  LET u == AtPlaces(s, K)
         IN  /\ u \in Seq(S) /\ Elements(u) = {s[i] : i \in K}
             /\ Distinct(s) => Distinct(u)
             /\ ClosesLast(s) => ClosesLast(u)
<1> DEFINE u == AtPlaces(s, K)
           n == Cardinality(K)
           g(k) == CHOOSE i \in K : Rank(K, i) = k
<1>0. Len(s) \in Nat /\ (\A i \in 1..Len(s) : s[i] \in S) /\ \A i \in K : i \in Int
  BY ElementOfSeq
<1>1. /\ n \in Nat /\ \A i \in K : Rank(K, i) \in 1..n
      /\ \A i, j \in K : i < j => Rank(K, i) < Rank(K, j)
      /\ \A k \in 1..n : \E i \in K : Rank(K, i) = k
  BY <1>0, Ranks
<1>2. \A k \in 1..n : g(k) \in K /\ Rank(K, g(k)) = k
  BY <1>1
<1>3. u = [k \in 1..n |-> s[g(k)]]
  BY DEF AtPlaces, Rank
<1> HIDE DEF u, g, n
<1>4. ASSUME NEW k \in 1..n, NEW l \in 1..n, k < l PROVE g(k) < g(l)
  <2>1. g(k) \in K /\ g(l) \in K /\ Rank(K, g(k)) = k /\ Rank(K, g(l)) = l
    BY <1>2
  <2>2. g(k) \in Int /\ g(l) \in Int
    BY <2>1, <1>0
  <2>3. ~(g(l) < g(k)) /\ g(l) # g(k)
    <3>1. g(l) < g(k) => Rank(K, g(l)) < Rank(K, g(k))
      BY <1>1, <2>1
    <3>2. k \in Int /\ l \in Int /\ ~(l < k)
      BY <1>1, <1>4
    <3> QED
      BY <1>4, <2>1, <3>1, <3>2
  <2> QED
    BY <2>2, <2>3
<1>5. u \in [1..n -> S]
  BY <1>0, <1>2, <1>3
<1>6. u \in Seq(S) /\ Len(u) = n
  <2>1. n \in Nat
    BY <1>1
  <2> QED
    BY <1>5, <2>1, FunctionIsSeq
<1>7. Elements(u) = {u[k] : k \in 1..n}
  BY <1>6 DEF Elements
<1>8. Elements(u) = {s[i] : i \in K}
  <2>1. ASSUME NEW k \in 1..n PROVE u[k] \in {s[i] : i \in K}
    BY <1>2, <1>3
  <2>2. ASSUME NEW i \in K PROVE \E k \in 1..n : u[k] = s[i]
    <3>1. Rank(K, i) \in 1..n
      BY <1>1
    <3> DEFINE k == Rank(K, i)
    <3>2. g(k) = i
      <4>1. g(k) \in K /\ Rank(K, g(k)) = Rank(K, i)
        BY <1>2, <3>1
      <4>2. g(k) \in Int /\ i \in Int
        BY <1>0, <4>1
      <4>3. Rank(K, i) \in Int /\ ~(Rank(K, i) < Rank(K, i))
        BY <1>1, <3>1
      <4>4. ~(g(k) < i) /\ ~(i < g(k))
        BY <1>1, <4>1, <4>3
      <4> QED
        BY <4>2, <4>4
    <3> QED
      BY <1>3, <3>1, <3>2
  <2>3. \A x : x \in Elements(u) <=> \E k \in 1..n : u[k] = x
    BY <1>7
  <2> QED
    BY <2>1, <2>2, <2>3, Zenon
<1>9. ASSUME Distinct(s) PROVE Distinct(u)
  <2> SUFFICES ASSUME NEW k \in 1..n, NEW l \in 1..n, u[k] = u[l], k # l PROVE FALSE
    BY <1>6 DEF Distinct
  <2>1. g(k) \in 1..Len(s) /\ g(l) \in 1..Len(s) /\ s[g(k)] = s[g(l)]
    BY <1>2, <1>3
  <2>2. g(k) = g(l)
    BY <1>9, <2>1 DEF Distinct
  <2>3. k < l \/ l < k
    BY <1>1
  <2> QED
    BY <1>0, <1>4, <2>1, <2>2, <2>3
<1>10. ASSUME ClosesLast(s) PROVE ClosesLast(u)
  <2> SUFFICES ASSUME NEW k \in 1..n, NEW l \in 1..n, k < l, u[k].op = "close"
               PROVE  u[l].op = "close"
    BY <1>6 DEF ClosesLast
  <2>1. g(k) \in 1..Len(s) /\ g(l) \in 1..Len(s) /\ g(k) < g(l)
        /\ s[g(k)] = u[k] /\ s[g(l)] = u[l]
    BY <1>2, <1>3, <1>4
  <2> QED
    BY <1>10, <2>1 DEF ClosesLast
<1> QED
  BY <1>6, <1>8, <1>9, <1>10 DEF u

LEMMA PresentIs ==
  ASSUME NEW S, NEW calls \in Seq(S), NEW T,
         \A c \in Elements(calls) : c.pipe \in Pipes => c \in T
  PROVE  /\ Present(calls) \in Seq(T)
         /\ Elements(Present(calls)) = {c \in Elements(calls) : c.pipe \in Pipes}
         /\ Distinct(calls) => Distinct(Present(calls))
         /\ ClosesLast(calls) => ClosesLast(Present(calls))
<1> DEFINE K == {i \in 1..Len(calls) : calls[i].pipe \in Pipes}
           u == Present(calls)
<1>1. K \in SUBSET (1..Len(calls)) /\ u = AtPlaces(calls, K)
  BY DEF Present
<1> HIDE DEF u
<1>2. /\ u \in Seq(S) /\ Elements(u) = {calls[i] : i \in K}
      /\ Distinct(calls) => Distinct(u)
      /\ ClosesLast(calls) => ClosesLast(u)
  BY <1>1, AtPlacesIs
<1>3. Elements(u) = {c \in Elements(calls) : c.pipe \in Pipes}
  BY <1>2 DEF Elements
<1>4. u \in Seq(T)
  <2>1. Len(u) \in Nat /\ u \in [1..Len(u) -> S]
    BY <1>2, LenProperties
  <2>2. \A i \in 1..Len(u) : u[i] \in T
    BY <1>3 DEF Elements
  <2>3. u \in [1..Len(u) -> T]
    BY <2>1, <2>2
  <2> QED
    BY <2>1, <2>3, FunctionIsSeq
<1> QED
  BY <1>2, <1>3, <1>4 DEF u

\* Writes, then closes, no call twice: what a process does when it leaves.
Parting(calls) == Distinct(calls) /\ ClosesLast(calls)

LEMMA WritesThenCloses ==
  ASSUME NEW S, NEW s \in Seq(S), NEW t \in Seq(S), Distinct(s), Distinct(t),
         \A c \in Elements(s) : c.op = "write", \A c \in Elements(t) : c.op = "close"
  PROVE  /\ s \o t \in Seq(S) /\ Elements(s \o t) = Elements(s) \cup Elements(t)
         /\ Parting(s \o t)
<1> DEFINE u == s \o t
           m == Len(s)
           n == Len(t)
<1>1. /\ u \in Seq(S) /\ Len(u) = m + n /\ m \in Nat /\ n \in Nat
      /\ \A i \in 1..(m + n) : u[i] = IF i <= m THEN s[i] ELSE t[i - m]
  BY ConcatProperties
<1> HIDE DEF u
<1>2. \A i \in 1..(m + n) : \/ i \in 1..m /\ u[i] = s[i]
                            \/ i \notin 1..m /\ i - m \in 1..n /\ u[i] = t[i - m]
  BY <1>1
<1>3. ASSUME NEW j \in 1..m PROVE \E i \in 1..(m + n) : u[i] = s[j]
  <2>1. j \in 1..(m + n) /\ j <= m
    BY <1>1
  <2> QED
    BY <1>1, <2>1
<1>4. ASSUME NEW j \in 1..n PROVE \E i \in 1..(m + n) : u[i] = t[j]
  <2>1. j + m \in 1..(m + n) /\ ~(j + m <= m) /\ (j + m) - m = j
    BY <1>1
  <2> QED
    BY <1>1, <2>1
<1>5. /\ Elements(u) = {u[i] : i \in 1..(m + n)}
      /\ Elements(s) = {s[i] : i \in 1..m} /\ Elements(t) = {t[i] : i \in 1..n}
  BY <1>1 DEF Elements
<1>6. Elements(u) = Elements(s) \cup Elements(t)
  <2>1. ASSUME NEW x \in Elements(u) PROVE x \in Elements(s) \cup Elements(t)
    BY <1>2, <1>5
  <2>2. ASSUME NEW x \in Elements(s) PROVE x \in Elements(u)
    BY <1>3, <1>5
  <2>3. ASSUME NEW x \in Elements(t) PROVE x \in Elements(u)
    BY <1>4, <1>5
  <2> QED
    BY <2>1, <2>2, <2>3
<1>7. \A i \in 1..(m + n) : /\ i \in 1..m => u[i].op = "write"
                            /\ i \notin 1..m => u[i].op = "close"
  BY <1>2, <1>5
<1>8. Distinct(u)
  <2> SUFFICES ASSUME NEW i \in 1..(m + n), NEW j \in 1..(m + n), u[i] = u[j] PROVE i = j
    BY <1>1 DEF Distinct
  <2>1. CASE i \in 1..m /\ j \in 1..m
    BY <1>2, <2>1 DEF Distinct
  <2>2. CASE i \notin 1..m /\ j \notin 1..m
    <3>1. i - m \in 1..n /\ j - m \in 1..n /\ t[i - m] = t[j - m]
      BY <1>2, <2>2
    <3>2. i - m = j - m
      BY <3>1 DEF Distinct
    <3> QED
      BY <1>1, <3>2
  <2> QED
    BY <1>7, <2>1, <2>2
<1>9. ClosesLast(u)
  <2> SUFFICES ASSUME NEW i \in 1..(m + n), NEW j \in 1..(m + n), i < j, u[i].op = "close"
               PROVE  u[j].op = "close"
    BY <1>1 DEF ClosesLast
  <2>1. i \notin 1..m
    BY <1>7
  <2>2. j \notin 1..m
    BY <1>1, <2>1
  <2> QED
    BY <1>7, <2>2
<1> QED
  BY <1>1, <1>6, <1>8, <1>9 DEF u, Parting

----------------------------------------------------------------------------
(* The pipes, what they carry and which calls a process may make.          *)

AllPipes == {"input_drone", "input_server", "server_input", "server_drone", "server_map",
             "server_target", "server_obstacles", "drone_server", "map_server",
             "target_server", "obstacles_server"}

Carried(p) ==
  CASE p = "input_drone" -> {"F"}
    [] p = "input_server" -> {"U", "STOP"}
    [] p = "server_input" -> {"reply"}
    [] p = "server_drone" -> {"STOP", "TH", "T", "O"}
    [] p = "server_map" -> {"STOP", "D", "T", "O"}
    [] p = "server_target" -> {"STOP", "GE"}
    [] p = "server_obstacles" -> {"STOP"}
    [] p = "drone_server" -> {"D"}
    [] p = "map_server" -> {"TH", "GE"}
    [] p = "target_server" -> {"T"}
    [] p = "obstacles_server" -> {"O"}

LegalWrites(q) == UNION {{Write(p, m) : m \in Carried(p)} : p \in {p \in Pipes : Writer[p] = q}}
LegalCloses(q) == {Close(p) : p \in {p \in Pipes : q \in {Writer[p], Reader[p]}}}
LegalCalls(q) == LegalWrites(q) \cup LegalCloses(q)

LEMMA PipeTable ==
  /\ DOMAIN Writer = AllPipes /\ Pipes \subseteq AllPipes
  /\ Writer["input_drone"] = "input" /\ Reader["input_drone"] = "drone"
  /\ Writer["input_server"] = "input" /\ Reader["input_server"] = "server"
  /\ Writer["server_input"] = "server" /\ Reader["server_input"] = "input"
  /\ Writer["server_drone"] = "server" /\ Reader["server_drone"] = "drone"
  /\ Writer["server_map"] = "server" /\ Reader["server_map"] = "map"
  /\ Writer["server_target"] = "server" /\ Reader["server_target"] = "target"
  /\ Writer["server_obstacles"] = "server" /\ Reader["server_obstacles"] = "obstacles"
  /\ Writer["drone_server"] = "drone" /\ Reader["drone_server"] = "server"
  /\ Writer["map_server"] = "map" /\ Reader["map_server"] = "server"
  /\ Writer["target_server"] = "target" /\ Reader["target_server"] = "server"
  /\ Writer["obstacles_server"] = "obstacles" /\ Reader["obstacles_server"] = "server"
<1>1. DOMAIN Writer = AllPipes
  BY DEF Writer, AllPipes
<1>2. Pipes \subseteq AllPipes
  BY <1>1 DEF Pipes
<1>3. /\ Writer["input_drone"] = "input" /\ Writer["input_server"] = "input"
      /\ Writer["server_input"] = "server" /\ Writer["server_drone"] = "server"
      /\ Writer["server_map"] = "server" /\ Writer["server_target"] = "server"
      /\ Writer["server_obstacles"] = "server" /\ Writer["drone_server"] = "drone"
      /\ Writer["map_server"] = "map" /\ Writer["target_server"] = "target"
      /\ Writer["obstacles_server"] = "obstacles"
  BY DEF Writer
<1>4. /\ Reader["input_drone"] = "drone" /\ Reader["input_server"] = "server"
      /\ Reader["server_input"] = "input" /\ Reader["server_drone"] = "drone"
      /\ Reader["server_map"] = "map" /\ Reader["server_target"] = "target"
      /\ Reader["server_obstacles"] = "obstacles" /\ Reader["drone_server"] = "server"
      /\ Reader["map_server"] = "server" /\ Reader["target_server"] = "server"
      /\ Reader["obstacles_server"] = "server"
  BY <1>1 DEF Reader, AllPipes
<1> QED
  BY <1>1, <1>2, <1>3, <1>4

\* Which pipes there are, by the peers that run.
LEMMA PipesThere ==
  /\ Pipes = {p \in AllPipes : Writer[p] \in Processes /\ Reader[p] \in Processes}
  /\ "input_server" \in Pipes /\ "server_input" \in Pipes
  /\ "drone" \in Peers <=> "input_drone" \in Pipes
  /\ "drone" \in Peers <=> "server_drone" \in Pipes
  /\ "drone" \in Peers <=> "drone_server" \in Pipes
  /\ "map" \in Peers <=> "server_map" \in Pipes
  /\ "map" \in Peers <=> "map_server" \in Pipes
  /\ "target" \in Peers <=> "server_target" \in Pipes
  /\ "target" \in Peers <=> "target_server" \in Pipes
  /\ "obstacles" \in Peers <=> "server_obstacles" \in Pipes
  /\ "obstacles" \in Peers <=> "obstacles_server" \in Pipes
<1>1. Pipes = {p \in AllPipes : Writer[p] \in Processes /\ Reader[p] \in Processes}
  BY PipeTable DEF Pipes
<1> QED
  BY <1>1, PipeTable DEF AllPipes, Processes

LEMMA CallIs ==
  ASSUME NEW q \in Processes, NEW c \in LegalCalls(q)
  PROVE  /\ c \in Calls /\ c.pipe \in Pipes /\ c.op \in {"write", "close"}
         /\ c.op = "write" => /\ Writer[c.pipe] = q /\ c.msg \in Carried(c.pipe)
                              /\ c = Write(c.pipe, c.msg)
         /\ c.op = "close" => q \in {Writer[c.pipe], Reader[c.pipe]} /\ c = Close(c.pipe)
<1>1. CASE c \in LegalWrites(q)
  <2>1. PICK p \in Pipes : Writer[p] = q /\ \E m \in Carried(p) : c = Write(p, m)
    BY <1>1 DEF LegalWrites
  <2>2. PICK m \in Carried(p) : c = Write(p, m)
    BY <2>1
  <2>3. m \in Messages
    BY PipeTable DEF Carried, Messages, AllPipes
  <2> QED
    BY <2>1, <2>2, <2>3 DEF Write, Calls
<1>2. CASE c \in LegalCloses(q)
  <2>1. PICK p \in Pipes : q \in {Writer[p], Reader[p]} /\ c = Close(p)
    BY <1>2 DEF LegalCloses
  <2> QED
    BY <2>1 DEF Close, Calls
<1> QED
  BY <1>1, <1>2 DEF LegalCalls

LEMMA WriteIs ==
  ASSUME NEW p, NEW m
  PROVE  /\ Write(p, m).op = "write" /\ Write(p, m).pipe = p /\ Write(p, m).msg = m
         /\ p \in Pipes /\ m \in Carried(p) => Write(p, m) \in LegalWrites(Writer[p])
<1>1. Write(p, m).op = "write" /\ Write(p, m).pipe = p /\ Write(p, m).msg = m
  BY DEF Write
<1>2. ASSUME p \in Pipes, m \in Carried(p) PROVE Write(p, m) \in LegalWrites(Writer[p])
  BY <1>2 DEF LegalWrites
<1> QED
  BY <1>1, <1>2

LEMMA CloseIs ==
  ASSUME NEW p
  PROVE  /\ Close(p).op = "close" /\ Close(p).pipe = p
         /\ p \in Pipes => \A q \in {Writer[p], Reader[p]} : Close(p) \in LegalCloses(q)
<1>1. Close(p).op = "close" /\ Close(p).pipe = p
  BY DEF Close
<1>2. ASSUME p \in Pipes, NEW q \in {Writer[p], Reader[p]} PROVE Close(p) \in LegalCloses(q)
  BY <1>2 DEF LegalCloses
<1> QED
  BY <1>1, <1>2

LEMMA NoCalls ==
  /\ Present(<<>>) = <<>> /\ Elements(<<>>) = {} /\ Parting(<<>>)
  /\ \A S : <<>> \in Seq(S)
<1>1. <<>> \in Seq({}) /\ Len(<<>>) = 0
  BY EmptySeq
<1>2. Elements(<<>>) = {} /\ Parting(<<>>)
  BY <1>1 DEF Elements, Parting, Distinct, ClosesLast
<1>3. Present(<<>>) \in Seq({})
  <2>1. \A c \in Elements(<<>>) : c.pipe \in Pipes => c \in {}
    BY <1>2
  <2> QED
    BY <1>1, <2>1, PresentIs
<1>4. Present(<<>>) = <<>>
  BY <1>3, EmptySeq
<1> QED
  BY <1>2, <1>4

LEMMA OneCall ==
  ASSUME NEW c, NEW T, c.pipe \in Pipes => c \in T
  PROVE  /\ Present(<<c>>) \in Seq(T) /\ Elements(Present(<<c>>)) \subseteq {c}
         /\ c.pipe \in Pipes => c \in Elements(Present(<<c>>))
         /\ Parting(Present(<<c>>))
<1> DEFINE s == <<c>>
<1>1. s \in Seq({c}) /\ 1..Len(s) = {1} /\ s[1] = c
  OBVIOUS
<1> HIDE DEF s
<1>2. Elements(s) = {c} /\ Distinct(s) /\ ClosesLast(s)
  BY <1>1 DEF Elements, Distinct, ClosesLast
<1>3. \A d \in Elements(s) : d.pipe \in Pipes => d \in T
  BY <1>2
<1>4. /\ Present(s) \in Seq(T)
      /\ Elements(Present(s)) = {d \in Elements(s) : d.pipe \in Pipes}
      /\ Distinct(Present(s)) /\ ClosesLast(Present(s))
  BY <1>1, <1>2, <1>3, PresentIs
<1>5. Elements(Present(s)) = {d \in {c} : d.pipe \in Pipes}
  BY <1>2, <1>4
<1>6. /\ Elements(Present(s)) \subseteq {c}
      /\ c.pipe \in Pipes => c \in Elements(Present(s))
  BY <1>5
<1> QED
  BY <1>4, <1>6 DEF s, Parting

LEMMA TwoCalls ==
  ASSUME NEW c, NEW d, NEW T, c # d, c.op = "close" => d.op = "close",
         c.pipe \in Pipes => c \in T, d.pipe \in Pipes => d \in T
  PROVE  /\ Present(<<c, d>>) \in Seq(T) /\ Elements(Present(<<c, d>>)) \subseteq {c, d}
         /\ c.pipe \in Pipes => c \in Elements(Present(<<c, d>>))
         /\ d.pipe \in Pipes => d \in Elements(Present(<<c, d>>))
         /\ Parting(Present(<<c, d>>))
<1> DEFINE s == <<c, d>>
<1>1. s \in Seq({c, d}) /\ 1..Len(s) = {1, 2} /\ s[1] = c /\ s[2] = d
  OBVIOUS
<1> HIDE DEF s
<1>2. Elements(s) = {c, d} /\ Distinct(s) /\ ClosesLast(s)
  BY <1>1 DEF Elements, Distinct, ClosesLast
<1>3. \A e \in Elements(s) : e.pipe \in Pipes => e \in T
  BY <1>2
<1>4. /\ Present(s) \in Seq(T)
      /\ Elements(Present(s)) = {e \in Elements(s) : e.pipe \in Pipes}
      /\ Distinct(Present(s)) /\ ClosesLast(Present(s))
  BY <1>1, <1>2, <1>3, PresentIs
<1>5. Elements(Present(s)) = {e \in {c, d} : e.pipe \in Pipes}
  BY <1>2, <1>4
<1>6. /\ Elements(Present(s)) \subseteq {c, d}
      /\ c.pipe \in Pipes => c \in Elements(Present(s))
      /\ d.pipe \in Pipes => d \in Elements(Present(s))
  BY <1>5
<1> QED
  BY <1>4, <1>6 DEF s, Parting

From == [x \in AllPeers |->
           CASE x = "drone" -> "server_drone" [] x = "map" -> "server_map"
             [] x = "target" -> "server_target" [] x = "obstacles" -> "server_obstacles"]

STOP == "STOP"
AskU == Write("input_server", "U")
Reply == Write("server_input", "reply")

LEMMA Pair ==
  ASSUME NEW a, NEW b
  PROVE  <<a>> \o <<b>> = <<a, b>>
<1> DEFINE s == <<a>>
           t == <<b>>
           v == <<a, b>>
           S == {a, b}
<1>1. /\ s \in Seq(S) /\ Len(s) = 1 /\ s[1] = a /\ t \in Seq(S) /\ Len(t) = 1 /\ t[1] = b
      /\ v \in Seq(S) /\ Len(v) = 2 /\ v[1] = a /\ v[2] = b
  OBVIOUS
<1> HIDE DEF s, t, v, S
<1>2. /\ s \o t \in Seq(S) /\ Len(s \o t) = 2
      /\ \A i \in 1..2 : (s \o t)[i] = IF i <= 1 THEN s[i] ELSE t[i - 1]
  BY <1>1, ConcatProperties
<1>3. \A i \in 1..2 : (s \o t)[i] = v[i]
  <2>1. 1..2 = {1, 2}
    OBVIOUS
  <2> QED
    BY <1>1, <1>2, <2>1
<1>4. s \o t = v
  BY <1>1, <1>2, <1>3, SeqEqual
<1> QED
  BY <1>4 DEF s, t, v

\* What input has to do when it asks for an update and when it leaves.
LEMMA InputLists ==
  /\ LET u == Present(<<Write("input_server", STOP)>> \o InputCloses)
     IN  /\ u \in Seq(LegalCalls("input")) /\ Parting(u)
         /\ Write("input_server", STOP) \in Elements(u) /\ AskU \notin Elements(u)
  /\ LET u == Present(InputCloses)
     IN  u \in Seq(LegalCalls("input")) /\ Parting(u) /\ \A c \in Elements(u) : c.op = "close"
  /\ \A force \in {<<>>, <<Write("input_drone", "F")>>} :
       LET u == Present(force \o <<AskU>>)
       IN  /\ u \in Seq(LegalCalls("input")) /\ Distinct(u)
           /\ \A c \in Elements(u) : c.op = "write"
<1> DEFINE w == Write("input_server", STOP)
           f == Write("input_drone", "F")
           a == Close("input_drone")
           b == Close("input_server")
           e == Close("server_input")
           S == {w, f, AskU, a, b, e}
           T == LegalCalls("input")
<1>1. "input_server" \in Pipes /\ "server_input" \in Pipes
  BY PipesThere
<1>2. w \in T /\ AskU \in T /\ b \in T /\ e \in T
      /\ (f.pipe \in Pipes => f \in T) /\ (a.pipe \in Pipes => a \in T)
  <2>1. STOP \in Carried("input_server") /\ "U" \in Carried("input_server")
        /\ "F" \in Carried("input_drone")
    BY DEF Carried, STOP
  <2> QED
    BY <1>1, <2>1, WriteIs, CloseIs, PipeTable DEF LegalCalls, AskU
<1>3. /\ a.op = "close" /\ b.op = "close" /\ e.op = "close"
      /\ w.op = "write" /\ f.op = "write" /\ AskU.op = "write"
      /\ w.pipe = "input_server" /\ AskU.pipe = "input_server" /\ w.msg = STOP /\ AskU.msg = "U"
      /\ f.pipe = "input_drone" /\ a # b /\ a # e /\ b # e
  BY WriteIs, CloseIs DEF AskU
<1>4. w # AskU /\ f # AskU
  BY <1>3 DEF STOP
<1>c. /\ InputCloses \in Seq(S) /\ Elements(InputCloses) = {a, b, e} /\ Distinct(InputCloses)
      /\ ClosesLast(InputCloses)
  <2> HIDE DEF a, b, e, w, f
  <2>1. /\ InputCloses = <<a, b, e>> /\ InputCloses \in Seq(S)
        /\ 1..Len(InputCloses) = {1, 2, 3} /\ InputCloses[1] = a /\ InputCloses[2] = b
        /\ InputCloses[3] = e
    BY DEF InputCloses, a, b, e
  <2>2. Elements(InputCloses) = {a, b, e}
    BY <2>1 DEF Elements
  <2> QED
    BY <1>3, <2>1, <2>2 DEF Distinct, ClosesLast
<1>w. <<w>> \in Seq(S) /\ Elements(<<w>>) = {w} /\ Distinct(<<w>>)
  BY DEF Elements, Distinct
<1> HIDE DEF a, b, e, w, f, T
<1>5. LET u == Present(<<w>> \o InputCloses)
      IN  u \in Seq(T) /\ Parting(u) /\ w \in Elements(u) /\ AskU \notin Elements(u)
  <2> DEFINE s == <<w>> \o InputCloses
  <2>1. s \in Seq(S) /\ Elements(s) = {w} \cup {a, b, e} /\ Parting(s)
    <3>1. /\ \A c \in Elements(<<w>>) : c.op = "write"
          /\ \A c \in Elements(InputCloses) : c.op = "close"
      BY <1>3, <1>c, <1>w
    <3> DEFINE one == <<w>>
    <3> HIDE DEF S, one
    <3>2. /\ one \in Seq(S) /\ InputCloses \in Seq(S)
          /\ Distinct(one) /\ Distinct(InputCloses)
          /\ \A c \in Elements(one) : c.op = "write"
          /\ Elements(one) = {w} /\ Elements(InputCloses) = {a, b, e}
      BY <1>c, <1>w, <3>1 DEF one
    <3>3. /\ one \o InputCloses \in Seq(S) /\ Parting(one \o InputCloses)
          /\ Elements(one \o InputCloses) = Elements(one) \cup Elements(InputCloses)
      BY <3>1, <3>2, WritesThenCloses
    <3> QED
      BY <3>2, <3>3 DEF one
  <2> HIDE DEF s
  <2>2. \A c \in Elements(s) : c.pipe \in Pipes => c \in T
    BY <1>2, <2>1
  <2>3. /\ Present(s) \in Seq(T) /\ Parting(Present(s))
        /\ Elements(Present(s)) = {c \in Elements(s) : c.pipe \in Pipes}
    BY <2>1, <2>2, PresentIs DEF Parting
  <2>4. w \in Elements(Present(s)) /\ AskU \notin Elements(Present(s))
    BY <1>1, <1>3, <1>4, <2>1, <2>3
  <2> QED
    BY <2>3, <2>4 DEF s
<1>6. LET u == Present(InputCloses)
      IN  u \in Seq(T) /\ Parting(u) /\ \A c \in Elements(u) : c.op = "close"
  <2>1. \A c \in Elements(InputCloses) : (c.pipe \in Pipes => c \in T) /\ c.op = "close"
    BY <1>2, <1>3, <1>c
  <2> QED
    BY <1>c, <2>1, PresentIs DEF Parting
<1>7. ASSUME NEW force \in {<<>>, <<f>>}
      PROVE  LET u == Present(force \o <<AskU>>)
             IN  u \in Seq(T) /\ Distinct(u) /\ \A c \in Elements(u) : c.op = "write"
  <2>1. CASE force = <<>>
    <3>1. force \o <<AskU>> = <<AskU>>
      BY <2>1
    <3>2. Present(<<AskU>>) \in Seq(T) /\ Elements(Present(<<AskU>>)) \subseteq {AskU}
          /\ Parting(Present(<<AskU>>))
      BY <1>2, OneCall
    <3> QED
      BY <1>3, <3>1, <3>2 DEF Parting
  <2>2. CASE force = <<f>>
    <3>1. force \o <<AskU>> = <<f, AskU>>
      BY <2>2, Pair
    <3> DEFINE u == Present(<<f, AskU>>)
    <3>2. u \in Seq(T) /\ Elements(u) \subseteq {f, AskU} /\ Parting(u)
      BY <1>2, <1>3, <1>4, TwoCalls
    <3> QED
      BY <1>3, <3>1, <3>2 DEF Parting
  <2> QED
    BY <2>1, <2>2
<1> QED
  BY <1>5, <1>6, <1>7 DEF T, w, f

LEMMA FromIs ==
  /\ From["drone"] = "server_drone" /\ From["map"] = "server_map"
  /\ From["target"] = "server_target" /\ From["obstacles"] = "server_obstacles"
  /\ \A x \in Peers : /\ x \in AllPeers /\ x \in Processes /\ x # "server" /\ x # "input"
                      /\ From[x] \in Pipes /\ Writer[From[x]] = "server"
                      /\ Reader[From[x]] = x /\ STOP \in Carried(From[x])
  /\ \A x, y \in AllPeers : From[x] = From[y] => x = y
  /\ \A p \in Pipes : Writer[p] = "server" => p = "server_input" \/ \E x \in Peers : p = From[x]
<1>1. /\ From["drone"] = "server_drone" /\ From["map"] = "server_map"
      /\ From["target"] = "server_target" /\ From["obstacles"] = "server_obstacles"
  BY DEF From, AllPeers
<1>2. ASSUME NEW x \in Peers
      PROVE  /\ x \in AllPeers /\ x \in Processes /\ x # "server" /\ x # "input"
             /\ From[x] \in Pipes /\ Writer[From[x]] = "server"
             /\ Reader[From[x]] = x /\ STOP \in Carried(From[x])
  <2>1. x \in AllPeers /\ x \in Processes /\ x # "server" /\ x # "input"
    BY PeersAssumption DEF AllPeers, Processes
  <2>2. From[x] \in Pipes /\ Writer[From[x]] = "server" /\ Reader[From[x]] = x
    BY <1>1, <2>1, PipesThere, PipeTable DEF AllPeers
  <2>3. STOP \in Carried(From[x])
    BY <1>1, <2>1 DEF AllPeers, Carried, STOP
  <2> QED
    BY <2>1, <2>2, <2>3
<1>3. \A x, y \in AllPeers : From[x] = From[y] => x = y
  BY <1>1 DEF AllPeers
<1>4. ASSUME NEW p \in Pipes, Writer[p] = "server"
      PROVE  p = "server_input" \/ \E x \in Peers : p = From[x]
  <2>1. p \in AllPipes
    BY PipeTable
  <2>2. p \in {"server_input", "server_drone", "server_map", "server_target", "server_obstacles"}
    BY <1>4, <2>1, PipeTable DEF AllPipes
  <2> QED
    BY <1>1, <2>2, PipesThere
<1> QED
  BY <1>1, <1>2, <1>3, <1>4

\* What the server has to do when it has read STOP.
LEMMA StopList ==
  LET u == Present(StopWrites \o ServerCloses)
  IN  /\ u \in Seq(LegalCalls("server")) /\ Parting(u)
      /\ \A x \in Peers : Write(From[x], STOP) \in Elements(u)
      /\ \A c \in Elements(u) : c.op = "write" => c.msg = STOP
<1> DEFINE w == <<"server_drone", "server_map", "server_obstacles", "server_target">>
           v == <<"drone_server", "input_server", "map_server", "obstacles_server",
                  "target_server", "server_drone", "server_map", "server_obstacles",
                  "server_target", "server_input">>
           S == {Write(p, STOP) : p \in AllPipes} \cup {Close(p) : p \in AllPipes}
           a == StopWrites
           b == ServerCloses
           T == LegalCalls("server")
<1>1. 1..4 = {1, 2, 3, 4} /\ 1..10 = {1, 2, 3, 4, 5, 6, 7, 8, 9, 10}
  OBVIOUS
<1>2. Len(w) = 4 /\ Len(v) = 10 /\ Len(a) = 4 /\ Len(b) = 10
  BY DEF StopWrites, ServerCloses
<1>3. /\ \A i \in 1..4 : w[i] \in AllPipes /\ a[i] = Write(w[i], STOP)
      /\ \A i, j \in 1..4 : w[i] = w[j] => i = j
  BY <1>1 DEF StopWrites, AllPipes, STOP
<1>4. /\ \A i \in 1..10 : v[i] \in AllPipes /\ b[i] = Close(v[i])
  <2> DEFINE e(i) == Close(v[i])
  <2> HIDE DEF e
  <2>1. /\ e(1) = Close("drone_server") /\ e(2) = Close("input_server")
        /\ e(3) = Close("map_server") /\ e(4) = Close("obstacles_server")
        /\ e(5) = Close("target_server") /\ e(6) = Close("server_drone")
        /\ e(7) = Close("server_map") /\ e(8) = Close("server_obstacles")
        /\ e(9) = Close("server_target") /\ e(10) = Close("server_input")
    BY DEF e
  <2>2. \A i \in 1..10 : b[i] = e(i)
    BY <1>1, <2>1 DEF ServerCloses
  <2>3. \A i \in 1..10 : v[i] \in AllPipes
    BY <1>1 DEF AllPipes
  <2> QED
    BY <2>2, <2>3 DEF e
<1>5. \A i, j \in 1..10 : v[i] = v[j] => i = j
  BY <1>1
<1>6. \A i \in 1..10 : Reader[v[i]] = "server" \/ Writer[v[i]] = "server"
  BY <1>1, PipeTable
<1>7. \A i \in 1..4 : Writer[w[i]] = "server" /\ STOP \in Carried(w[i])
  <2>1. \A i \in 1..4 : Writer[w[i]] = "server"
    BY <1>1, PipeTable
  <2>2. \A i \in 1..4 : STOP \in Carried(w[i])
    BY <1>1 DEF Carried, STOP
  <2> QED
    BY <2>1, <2>2
<1>8. \A x \in AllPeers : \E i \in 1..4 : w[i] = From[x]
  BY <1>1, FromIs DEF AllPeers
<1>s. a \in Seq(S) /\ b \in Seq(S)
  <2>1. DOMAIN a = 1..4 /\ DOMAIN b = 1..10 /\ a = [i \in 1..4 |-> a[i]] /\ b = [i \in 1..10 |-> b[i]]
    BY <1>1 DEF StopWrites, ServerCloses
  <2> HIDE DEF a, b, w, v
  <2>2. a \in [1..4 -> S] /\ b \in [1..10 -> S]
    BY <1>3, <1>4, <2>1
  <2> QED
    BY <2>2, FunctionIsSeq
<1> HIDE DEF a, b, w, v, S, T
<1>9. /\ Elements(a) = {a[i] : i \in 1..4} /\ Elements(b) = {b[i] : i \in 1..10}
  BY <1>2 DEF Elements
<1>10. Distinct(a) /\ Distinct(b)
  <2>1. ASSUME NEW i \in 1..4, NEW j \in 1..4, a[i] = a[j] PROVE i = j
    <3>1. Write(w[i], STOP).pipe = w[i] /\ Write(w[j], STOP).pipe = w[j]
      BY WriteIs
    <3> QED
      BY <1>3, <2>1, <3>1
  <2>2. ASSUME NEW i \in 1..10, NEW j \in 1..10, b[i] = b[j] PROVE i = j
    <3>1. Close(v[i]).pipe = v[i] /\ Close(v[j]).pipe = v[j]
      BY CloseIs
    <3> QED
      BY <1>4, <1>5, <2>2, <3>1
  <2> QED
    BY <1>2, <2>1, <2>2 DEF Distinct
<1>11. /\ \A c \in Elements(a) : c.op = "write" /\ c.msg = STOP /\ (c.pipe \in Pipes => c \in T)
       /\ \A c \in Elements(b) : c.op = "close" /\ (c.pipe \in Pipes => c \in T)
  <2>1. ASSUME NEW i \in 1..4
        PROVE  a[i].op = "write" /\ a[i].msg = STOP /\ (a[i].pipe \in Pipes => a[i] \in T)
    BY <1>3, <1>7, WriteIs DEF T, LegalCalls
  <2>2. ASSUME NEW i \in 1..10
        PROVE  b[i].op = "close" /\ (b[i].pipe \in Pipes => b[i] \in T)
    BY <1>4, <1>6, CloseIs DEF T, LegalCalls
  <2> QED
    BY <1>9, <2>1, <2>2
<1> DEFINE s == a \o b
<1>12. s \in Seq(S) /\ Elements(s) = Elements(a) \cup Elements(b) /\ Parting(s)
  BY <1>s, <1>10, <1>11, WritesThenCloses
<1> HIDE DEF s
<1>13. \A c \in Elements(s) : c.pipe \in Pipes => c \in T
  BY <1>11, <1>12
<1>14. /\ Present(s) \in Seq(T) /\ Parting(Present(s))
       /\ Elements(Present(s)) = {c \in Elements(s) : c.pipe \in Pipes}
  BY <1>12, <1>13, PresentIs DEF Parting
<1>15. ASSUME NEW x \in Peers PROVE Write(From[x], STOP) \in Elements(Present(s))
  <2>1. PICK i \in 1..4 : w[i] = From[x]
    BY <1>8, FromIs
  <2>2. Write(From[x], STOP) \in Elements(s)
    BY <1>3, <1>9, <1>12, <2>1
  <2>3. Write(From[x], STOP).pipe \in Pipes
    BY WriteIs, FromIs
  <2> QED
    BY <1>14, <2>2, <2>3
<1>16. ASSUME NEW c \in Elements(Present(s)), c.op = "write" PROVE c.msg = STOP
  BY <1>11, <1>12, <1>14, <1>16
<1> QED
  BY <1>14, <1>15, <1>16 DEF s, a, b, T

\* What the server has to do for any other message.
LEMMA RelayedList ==
  ASSUME NEW p \in Pipes, p \in {"drone_server", "input_server", "map_server",
                                 "target_server", "obstacles_server"},
         NEW m \in Carried(p), m # STOP
  PROVE  LET u == Present(Relayed(p, m))
         IN  /\ u \in Seq(LegalCalls("server")) /\ Distinct(u)
             /\ \A c \in Elements(u) : c.op = "write" /\ c.msg # STOP
             /\ p = "input_server" => \A c \in Elements(u) : c = Reply
             /\ p # "input_server" => Reply \notin Elements(u)
<1> DEFINE T == LegalCalls("server")
<1>1. ASSUME NEW to \in AllPipes, Writer[to] = "server", NEW k \in Carried(to)
      PROVE  /\ Write(to, k).op = "write" /\ Write(to, k).msg = k /\ Write(to, k).pipe = to
             /\ Write(to, k).pipe \in Pipes => Write(to, k) \in T
  BY <1>1, WriteIs DEF LegalCalls
<1>2. Reply.pipe = "server_input"
  BY WriteIs DEF Reply
<1>3. CASE p = "input_server"
  <2>1. Relayed(p, m) = <<Reply>>
    BY <1>3 DEF Relayed, Reply
  <2>2. Reply.op = "write" /\ Reply.msg = "reply" /\ (Reply.pipe \in Pipes => Reply \in T)
    <3>1. "reply" \in Carried("server_input") /\ "server_input" \in AllPipes
      BY DEF Carried, AllPipes
    <3> QED
      BY <1>1, <3>1, PipeTable DEF Reply
  <2>3. /\ Present(<<Reply>>) \in Seq(T) /\ Elements(Present(<<Reply>>)) \subseteq {Reply}
        /\ Parting(Present(<<Reply>>))
    BY <2>2, OneCall
  <2> QED
    BY <1>3, <2>1, <2>2, <2>3 DEF Parting, STOP
<1>4. ASSUME NEW c, Relayed(p, m) = <<c>>, c.op = "write", c.msg # STOP, c # Reply,
             c.pipe \in Pipes => c \in T, p # "input_server"
      PROVE  LET u == Present(Relayed(p, m))
             IN  /\ u \in Seq(LegalCalls("server")) /\ Distinct(u)
                 /\ \A d \in Elements(u) : d.op = "write" /\ d.msg # STOP
                 /\ p = "input_server" => \A d \in Elements(u) : d = Reply
                 /\ p # "input_server" => Reply \notin Elements(u)
  <2>1. /\ Present(<<c>>) \in Seq(T) /\ Elements(Present(<<c>>)) \subseteq {c}
        /\ Parting(Present(<<c>>))
    BY <1>4, OneCall
  <2> QED
    BY <1>4, <2>1 DEF Parting
<1>5. CASE p = "drone_server"
  <2>1. /\ Relayed(p, m) = <<Write("server_map", "D")>> /\ "server_map" \in AllPipes
        /\ "D" \in Carried("server_map") /\ "D" # STOP
    BY <1>5 DEF Relayed, AllPipes, Carried, STOP
  <2> DEFINE c == Write("server_map", "D")
  <2>2. /\ c.op = "write" /\ c.msg # STOP /\ c # Reply /\ (c.pipe \in Pipes => c \in T)
    BY <1>1, <1>2, <2>1, PipeTable
  <2> HIDE DEF c
  <2> QED
    BY <1>4, <1>5, <2>1, <2>2 DEF c
<1>6. CASE p = "map_server"
  <2>1. m \in {"TH", "GE"}
    BY <1>6 DEF Carried
  <2>2. CASE m = "GE"
    <3>1. /\ Relayed(p, m) = <<Write("server_target", "GE")>> /\ "server_target" \in AllPipes
          /\ "GE" \in Carried("server_target") /\ "GE" # STOP
      BY <1>6, <2>2 DEF Relayed, AllPipes, Carried, STOP
    <3> DEFINE c == Write("server_target", "GE")
    <3>2. /\ c.op = "write" /\ c.msg # STOP /\ c # Reply /\ (c.pipe \in Pipes => c \in T)
      BY <1>1, <1>2, <3>1, PipeTable
    <3> HIDE DEF c
    <3> QED
      BY <1>4, <1>6, <3>1, <3>2 DEF c
  <2>3. CASE m = "TH"
    <3>1. /\ Relayed(p, m) = <<Write("server_drone", "TH")>> /\ "server_drone" \in AllPipes
          /\ "TH" \in Carried("server_drone") /\ "TH" # STOP
      BY <1>6, <2>3 DEF Relayed, AllPipes, Carried, STOP
    <3> DEFINE c == Write("server_drone", "TH")
    <3>2. /\ c.op = "write" /\ c.msg # STOP /\ c # Reply /\ (c.pipe \in Pipes => c \in T)
      BY <1>1, <1>2, <3>1, PipeTable
    <3> HIDE DEF c
    <3> QED
      BY <1>4, <1>6, <3>1, <3>2 DEF c
  <2> QED
    BY <2>1, <2>2, <2>3
<1>7. CASE p \in {"target_server", "obstacles_server"}
  <2> DEFINE c == Write("server_map", m)
             d == Write("server_drone", m)
  <2>1. /\ Relayed(p, m) = <<c, d>> /\ "server_map" \in AllPipes /\ "server_drone" \in AllPipes
        /\ m \in {"T", "O"} /\ m \in Carried("server_map") /\ m \in Carried("server_drone")
    BY <1>7 DEF Relayed, AllPipes, Carried
  <2>2. /\ c.op = "write" /\ c.msg # STOP /\ c # Reply /\ (c.pipe \in Pipes => c \in T)
        /\ d.op = "write" /\ d.msg # STOP /\ d # Reply /\ (d.pipe \in Pipes => d \in T)
        /\ c # d
    BY <1>1, <1>2, <2>1, PipeTable
  <2> HIDE DEF c, d
  <2>3. /\ Present(<<c, d>>) \in Seq(T) /\ Elements(Present(<<c, d>>)) \subseteq {c, d}
        /\ Parting(Present(<<c, d>>))
    BY <2>2, TwoCalls
  <2>4. p # "input_server"
    BY <1>7
  <2> QED
    BY <2>1, <2>2, <2>3, <2>4 DEF Parting
<1> QED
  BY <1>3, <1>5, <1>6, <1>7

\* What the peers have to do in their loops and when they leave.
LEMMA PeerLists ==
  /\ \A x \in AllPeers : \A p \in AllPipes : \A m \in Carried(p) :
       Writer[p] = x =>
         LET u == Present(<<Write(p, m)>>)
         IN  u \in Seq(LegalCalls(x)) /\ \A c \in Elements(u) : c.op = "write"
  /\ Present(DroneCloses) \in Seq(LegalCalls("drone"))
  /\ LET u == Present(<<Close("map_server"), Close("server_map")>>)
     IN  u \in Seq(LegalCalls("map")) /\ Parting(u) /\ \A c \in Elements(u) : c.op = "close"
  /\ LET u == Present(<<Close("target_server")>>)
     IN  u \in Seq(LegalCalls("target")) /\ Parting(u) /\ \A c \in Elements(u) : c.op = "close"
  /\ LET u == Present(<<Close("obstacles_server")>>)
     IN  u \in Seq(LegalCalls("obstacles")) /\ Parting(u)
         /\ \A c \in Elements(u) : c.op = "close"
<1>1. ASSUME NEW x \in AllPeers, NEW p \in AllPipes, NEW m \in Carried(p), Writer[p] = x
      PROVE  LET u == Present(<<Write(p, m)>>)
             IN  u \in Seq(LegalCalls(x)) /\ \A c \in Elements(u) : c.op = "write"
  <2> DEFINE c == Write(p, m)
  <2>1. c.op = "write" /\ (c.pipe \in Pipes => c \in LegalCalls(x))
    BY <1>1, WriteIs DEF LegalCalls
  <2> HIDE DEF c
  <2>2. Present(<<c>>) \in Seq(LegalCalls(x)) /\ Elements(Present(<<c>>)) \subseteq {c}
    BY <2>1, OneCall
  <2> QED
    BY <2>1, <2>2 DEF c
<1>2. ASSUME NEW x, NEW p \in AllPipes, x \in {Writer[p], Reader[p]}
      PROVE  /\ Close(p).op = "close" /\ Close(p).pipe = p
             /\ Close(p).pipe \in Pipes => Close(p) \in LegalCalls(x)
  BY <1>2, CloseIs DEF LegalCalls
<1>3. ASSUME NEW x, NEW p \in AllPipes, x \in {Writer[p], Reader[p]}
      PROVE  LET u == Present(<<Close(p)>>)
             IN  u \in Seq(LegalCalls(x)) /\ Parting(u) /\ \A c \in Elements(u) : c.op = "close"
  <2> DEFINE c == Close(p)
  <2>1. c.op = "close" /\ (c.pipe \in Pipes => c \in LegalCalls(x))
    BY <1>2, <1>3
  <2> HIDE DEF c
  <2>2. /\ Present(<<c>>) \in Seq(LegalCalls(x)) /\ Elements(Present(<<c>>)) \subseteq {c}
        /\ Parting(Present(<<c>>))
    BY <2>1, OneCall
  <2> QED
    BY <2>1, <2>2 DEF c
<1>4. ASSUME NEW x, NEW p \in AllPipes, x \in {Writer[p], Reader[p]},
             NEW r \in AllPipes, x \in {Writer[r], Reader[r]}, p # r
      PROVE  LET u == Present(<<Close(p), Close(r)>>)
             IN  u \in Seq(LegalCalls(x)) /\ Parting(u) /\ \A c \in Elements(u) : c.op = "close"
  <2> DEFINE c == Close(p)
             d == Close(r)
  <2>1. /\ c.op = "close" /\ (c.pipe \in Pipes => c \in LegalCalls(x))
        /\ d.op = "close" /\ (d.pipe \in Pipes => d \in LegalCalls(x)) /\ c # d
    BY <1>2, <1>4
  <2> HIDE DEF c, d
  <2>2. /\ Present(<<c, d>>) \in Seq(LegalCalls(x)) /\ Elements(Present(<<c, d>>)) \subseteq {c, d}
        /\ Parting(Present(<<c, d>>))
    BY <2>1, TwoCalls
  <2> QED
    BY <2>1, <2>2 DEF c, d
<1>5. /\ "input_drone" \in AllPipes /\ "drone_server" \in AllPipes /\ "map_server" \in AllPipes
      /\ "server_map" \in AllPipes /\ "target_server" \in AllPipes
      /\ "obstacles_server" \in AllPipes
  BY DEF AllPipes
<1>6. Present(DroneCloses) \in Seq(LegalCalls("drone"))
  BY <1>4, <1>5, PipeTable DEF DroneCloses
<1>7. LET u == Present(<<Close("map_server"), Close("server_map")>>)
      IN  u \in Seq(LegalCalls("map")) /\ Parting(u) /\ \A c \in Elements(u) : c.op = "close"
  BY <1>4, <1>5, PipeTable
<1>8. LET u == Present(<<Close("target_server")>>)
      IN  u \in Seq(LegalCalls("target")) /\ Parting(u) /\ \A c \in Elements(u) : c.op = "close"
  BY <1>3, <1>5, PipeTable
<1>9. LET u == Present(<<Close("obstacles_server")>>)
      IN  u \in Seq(LegalCalls("obstacles")) /\ Parting(u)
          /\ \A c \in Elements(u) : c.op = "close"
  BY <1>3, <1>5, PipeTable
<1> QED
  BY <1>1, <1>6, <1>7, <1>8, <1>9

----------------------------------------------------------------------------
(* Types: what each pipe carries and which calls each process has to make. *)

PipeT == pipe \in [Pipes -> Seq(Messages)] /\ \A p \in Pipes : pipe[p] \in Seq(Carried(p))
TodoT == /\ todo \in [Processes -> Seq(Calls)]
         /\ \A q \in Processes : todo[q] \in Seq(LegalCalls(q))
RestT ==
  /\ open \subseteq {"r", "w"} \X Pipes
  /\ status \in [Processes -> {"run", "leave", "fail", "hang"} \cup Ended]
  /\ pc \in [Processes -> {"getch", "reply", "select", "scan", "send", "read"}]
  /\ ready \in [{"server", "drone"} -> SUBSET Pipes]
WatchdogT ==
  /\ pending \subseteq Processes
  /\ wd \in {"alive", "zombie", "gone"}
  /\ wd_pc \in {"signal", "sleep", "kill"}
  /\ wd_at \in 1..Len(p_pids)
  /\ count \in Nat
  /\ WD_pid \in BOOLEAN
  /\ left \in [{"map", "obstacles", "crash"} -> Nat]
\* Who is out of his loop and not leaving in order makes no call any more.
IdleT == \A q \in Processes : status[q] \notin {"run", "leave"} => todo[q] = <<>>
Types == PipeT /\ TodoT /\ RestT /\ WatchdogT /\ IdleT

LEMMA LegalSeq ==
  ASSUME NEW q \in Processes, NEW s \in Seq(LegalCalls(q))
  PROVE  s \in Seq(Calls) /\ \A c \in Elements(s) : c \in LegalCalls(q)
<1>1. Len(s) \in Nat /\ s \in [1..Len(s) -> LegalCalls(q)]
  BY LenProperties
<1>2. s \in [1..Len(s) -> Calls]
  BY <1>1, CallIs
<1>3. s \in Seq(Calls)
  BY <1>1, <1>2, FunctionIsSeq
<1>4. \A c \in Elements(s) : c \in LegalCalls(q)
  BY <1>1 DEF Elements
<1> QED
  BY <1>3, <1>4

LEMMA CarriedSeq ==
  ASSUME NEW p \in Pipes, NEW s \in Seq(Carried(p))
  PROVE  s \in Seq(Messages) /\ \A m \in Elements(s) : m \in Carried(p)
<1>1. Len(s) \in Nat /\ s \in [1..Len(s) -> Carried(p)]
  BY LenProperties
<1>2. Carried(p) \subseteq Messages
  <2>1. p \in AllPipes
    BY PipeTable
  <2> QED
    BY <2>1 DEF Carried, Messages, AllPipes
<1>3. s \in [1..Len(s) -> Messages]
  BY <1>1, <1>2
<1>4. s \in Seq(Messages)
  BY <1>1, <1>3, FunctionIsSeq
<1>5. \A m \in Elements(s) : m \in Carried(p)
  BY <1>1 DEF Elements
<1> QED
  BY <1>4, <1>5

LEMMA TodoSet ==
  ASSUME TodoT, NEW q \in Processes, NEW s \in Seq(LegalCalls(q)),
         todo' = [todo EXCEPT ![q] = s]
  PROVE  TodoT' /\ todo'[q] = s /\ \A r \in Processes \ {q} : todo'[r] = todo[r]
<1>1. s \in Seq(Calls)
  BY LegalSeq
<1>2. todo'[q] = s /\ \A r \in Processes \ {q} : todo'[r] = todo[r]
  BY DEF TodoT
<1>3. todo' \in [Processes -> Seq(Calls)]
  BY <1>1 DEF TodoT
<1>4. \A r \in Processes : todo'[r] \in Seq(LegalCalls(r))
  BY <1>2 DEF TodoT
<1> QED
  BY <1>2, <1>3, <1>4 DEF TodoT

LEMMA PipeSet ==
  ASSUME PipeT, NEW p \in Pipes, NEW s \in Seq(Carried(p)), pipe' = [pipe EXCEPT ![p] = s]
  PROVE  PipeT' /\ pipe'[p] = s /\ \A r \in Pipes \ {p} : pipe'[r] = pipe[r]
<1>1. s \in Seq(Messages)
  BY CarriedSeq
<1>2. pipe'[p] = s /\ \A r \in Pipes \ {p} : pipe'[r] = pipe[r]
  BY DEF PipeT
<1>3. pipe' \in [Pipes -> Seq(Messages)]
  BY <1>1 DEF PipeT
<1>4. \A r \in Pipes : pipe'[r] \in Seq(Carried(r))
  BY <1>2 DEF PipeT
<1> QED
  BY <1>2, <1>3, <1>4 DEF PipeT

\* Taking the oldest message and making the first call.
LEMMA TailIs ==
  ASSUME NEW S, NEW s \in Seq(S), s # <<>>
  PROVE  /\ Head(s) \in S /\ Tail(s) \in Seq(S) /\ Head(s) \in Elements(s)
         /\ Elements(s) = {Head(s)} \cup Elements(Tail(s))
         /\ Len(Tail(s)) = Len(s) - 1 /\ Len(s) \in Nat /\ Len(s) > 0
         /\ Distinct(s) => Distinct(Tail(s)) /\ Head(s) \notin Elements(Tail(s))
         /\ ClosesLast(s) => /\ ClosesLast(Tail(s))
                             /\ Head(s).op = "close" =>
                                  \A c \in Elements(Tail(s)) : c.op = "close"
<1> DEFINE t == Tail(s)
           n == Len(s)
<1>1. /\ t \in Seq(S) /\ n \in Nat /\ n > 0 /\ Len(t) = n - 1 /\ Head(s) = s[1] /\ Head(s) \in S
      /\ \A i \in 1..(n - 1) : t[i] = s[i + 1]
  BY HeadTailProperties, EmptySeq
<1> HIDE DEF t, n
<1>2. Elements(t) = {t[i] : i \in 1..(n - 1)} /\ Elements(s) = {s[i] : i \in 1..n}
  BY <1>1 DEF Elements, n
<1>3. \A i \in 1..(n - 1) : i + 1 \in 1..n /\ t[i] = s[i + 1] /\ i + 1 # 1 /\ 1 < i + 1
  BY <1>1
<1>4. \A i \in 1..n : i = 1 \/ (i - 1 \in 1..(n - 1) /\ t[i - 1] = s[i])
  <2> TAKE i \in 1..n
  <2>1. CASE i # 1
    <3>1. i - 1 \in 1..(n - 1) /\ (i - 1) + 1 = i
      BY <1>1, <2>1
    <3> QED
      BY <1>1, <3>1
  <2> QED
    BY <2>1
<1>5. Elements(s) = {s[1]} \cup Elements(t) /\ s[1] \in Elements(s)
  <2>1. 1 \in 1..n
    BY <1>1
  <2>2. ASSUME NEW x \in Elements(s) PROVE x \in {s[1]} \cup Elements(t)
    BY <1>2, <1>4
  <2>3. ASSUME NEW x \in Elements(t) PROVE x \in Elements(s)
    BY <1>2, <1>3
  <2>4. s[1] \in Elements(s)
    BY <1>2, <2>1
  <2> QED
    BY <2>2, <2>3, <2>4
<1>6. ASSUME Distinct(s) PROVE Distinct(t) /\ s[1] \notin Elements(t)
  <2>1. \A i, j \in 1..n : s[i] = s[j] => i = j
    BY <1>6 DEF Distinct, n
  <2>2. ASSUME NEW i \in 1..(n - 1), NEW j \in 1..(n - 1), t[i] = t[j] PROVE i = j
    <3>1. i + 1 = j + 1
      BY <1>3, <2>1, <2>2
    <3> QED
      BY <3>1
  <2>3. ASSUME NEW i \in 1..(n - 1), t[i] = s[1] PROVE FALSE
    BY <1>1, <1>3, <2>1, <2>3
  <2>4. Distinct(t)
    BY <1>1, <2>2 DEF Distinct
  <2> QED
    BY <1>2, <2>3, <2>4
<1>7. ASSUME ClosesLast(s)
      PROVE  ClosesLast(t) /\ (s[1].op = "close" => \A c \in Elements(t) : c.op = "close")
  <2>1. \A i, j \in 1..n : i < j /\ s[i].op = "close" => s[j].op = "close"
    BY <1>7 DEF ClosesLast, n
  <2>2. ASSUME NEW i \in 1..(n - 1), NEW j \in 1..(n - 1), i < j, t[i].op = "close"
        PROVE  t[j].op = "close"
    <3>1. i + 1 < j + 1
      BY <2>2
    <3> QED
      BY <1>3, <2>1, <2>2, <3>1
  <2>3. ASSUME s[1].op = "close", NEW i \in 1..(n - 1) PROVE t[i].op = "close"
    <3>1. 1 \in 1..n
      BY <1>1
    <3> QED
      BY <1>3, <2>1, <2>3, <3>1
  <2>4. ClosesLast(t)
    BY <1>1, <2>2 DEF ClosesLast
  <2> QED
    BY <1>2, <2>3, <2>4
<1> QED
  BY <1>1, <1>5, <1>6, <1>7 DEF t, n

LEMMA AppendIs ==
  ASSUME NEW S, NEW s \in Seq(S), NEW m \in S
  PROVE  /\ Append(s, m) \in Seq(S) /\ Len(Append(s, m)) = Len(s) + 1
         /\ Elements(Append(s, m)) = Elements(s) \cup {m}
<1> DEFINE t == Append(s, m)
           n == Len(s)
<1>1. /\ t \in Seq(S) /\ n \in Nat /\ Len(t) = n + 1 /\ t[n + 1] = m
      /\ \A i \in 1..n : t[i] = s[i]
  OBVIOUS
<1> HIDE DEF t, n
<1>2. Elements(t) = {t[i] : i \in 1..(n + 1)} /\ Elements(s) = {s[i] : i \in 1..n}
  BY <1>1 DEF Elements, n
<1>3. \A i \in 1..(n + 1) : i = n + 1 \/ i \in 1..n
  BY <1>1
<1>4. n + 1 \in 1..(n + 1) /\ \A i \in 1..n : i \in 1..(n + 1)
  BY <1>1
<1>5. Elements(t) = Elements(s) \cup {m}
  <2>1. ASSUME NEW x \in Elements(t) PROVE x \in Elements(s) \cup {m}
    BY <1>1, <1>2, <1>3
  <2>2. ASSUME NEW x \in Elements(s) PROVE x \in Elements(t)
    BY <1>1, <1>2, <1>4
  <2>3. m \in Elements(t)
    BY <1>1, <1>2, <1>4
  <2> QED
    BY <2>1, <2>2, <2>3
<1> QED
  BY <1>1, <1>5 DEF t, n

LEMMA p_pidsIs ==
  /\ Len(p_pids) \in Nat /\ Len(p_pids) >= 1
  /\ \A i \in 1..Len(p_pids) : p_pids[i] \in Processes
<1> DEFINE s == <<"input", "map", "server", "drone", "target", "obstacles">>
           K == {i \in 1..Len(s) : s[i] \in Processes}
           S == {"input", "map", "server", "drone", "target", "obstacles"}
<1>1. s \in Seq(S) /\ Len(s) = 6 /\ s[1] = "input"
  OBVIOUS
<1>2. p_pids = AtPlaces(s, K)
  BY DEF p_pids, Running
<1> HIDE DEF s
<1>3. p_pids \in Seq(S) /\ Elements(p_pids) = {s[i] : i \in K}
  BY <1>1, <1>2, AtPlacesIs
<1>4. 1 \in K
  BY <1>1 DEF Processes
<1>5. "input" \in Elements(p_pids)
  BY <1>1, <1>3, <1>4
<1>6. Len(p_pids) \in Nat /\ \E i \in 1..Len(p_pids) : p_pids[i] = "input"
  BY <1>3, <1>5, LenProperties DEF Elements
<1>7. \A i \in 1..Len(p_pids) : p_pids[i] \in Processes
  BY <1>3 DEF Elements
<1> QED
  BY <1>6, <1>7

----------------------------------------------------------------------------
(* What the steps do to the lists and the ends, and that they keep types.  *)

\* Only q moves: the others keep their status and their calls, and no end but
\* those of q is closed.
Alone(q) ==
  /\ \A r \in Processes \ {q} : status'[r] = status[r] /\ todo'[r] = todo[r]
  /\ open' \subseteq open /\ open \ open' \subseteq EndsOf(q)

LEMMA StatusSet ==
  ASSUME RestT, NEW q \in Processes,
         NEW v \in {"run", "leave", "fail", "hang"} \cup Ended,
         status' = [status EXCEPT ![q] = v]
  PROVE  /\ status' \in [Processes -> {"run", "leave", "fail", "hang"} \cup Ended]
         /\ status'[q] = v /\ \A r \in Processes \ {q} : status'[r] = status[r]
BY DEF RestT

LEMMA WriteDoes ==
  ASSUME Types, NEW q \in Processes, DoWrite(q)
  PROVE  /\ Types' /\ Alone(q) /\ open' = open /\ pc' = pc
         /\ status[q] \in {"run", "leave"} /\ todo[q] # <<>>
         /\ \E p \in Pipes : \E m \in Carried(p) :
              /\ Writer[p] = q /\ Head(todo[q]) = Write(p, m)
              /\ \/ /\ HasReader(p) /\ pipe'[p] = Append(pipe[p], m)
                    /\ \A r \in Pipes \ {p} : pipe'[r] = pipe[r]
                    /\ todo'[q] = Tail(todo[q]) /\ status'[q] = status[q]
                 \/ /\ ~HasReader(p) /\ pipe' = pipe
                    /\ status'[q] = "fail" /\ todo'[q] = <<>>
<1> DEFINE c == Head(todo[q])
           p == c.pipe
           m == c.msg
<1>1. /\ status[q] \in {"run", "leave"} /\ todo[q] # <<>> /\ c.op = "write"
      /\ UNCHANGED <<open, pc, ready, pending, wdVars, WD_pid, konsoles, left>>
      /\ \/ /\ HasReader(p) /\ pipe' = [pipe EXCEPT ![p] = Append(pipe[p], m)]
            /\ todo' = [todo EXCEPT ![q] = Tail(todo[q])] /\ status' = status
         \/ /\ ~HasReader(p) /\ status' = [status EXCEPT ![q] = "fail"]
            /\ todo' = [todo EXCEPT ![q] = <<>>] /\ pipe' = pipe
  <2>1. /\ status[q] \in {"run", "leave"} /\ todo[q] # <<>> /\ c.op = "write"
        /\ UNCHANGED <<open, pc, ready, pending, wdVars, WD_pid, konsoles, left>>
    BY DEF DoWrite
  <2>2. \/ /\ HasReader(p) /\ pipe' = [pipe EXCEPT ![p] = Append(pipe[p], m)]
           /\ todo' = [todo EXCEPT ![q] = Tail(todo[q])] /\ status' = status
        \/ /\ ~HasReader(p) /\ status' = [status EXCEPT ![q] = "fail"]
           /\ todo' = [todo EXCEPT ![q] = <<>>] /\ pipe' = pipe
    BY DEF DoWrite
  <2> QED
    BY <2>1, <2>2
<1>2. todo[q] \in Seq(LegalCalls(q)) /\ \A r \in Pipes : pipe[r] \in Seq(Carried(r))
  BY DEF Types, TodoT, PipeT
<1>3. c \in LegalCalls(q) /\ Tail(todo[q]) \in Seq(LegalCalls(q))
  BY <1>1, <1>2, TailIs
<1>4. p \in Pipes /\ Writer[p] = q /\ m \in Carried(p) /\ c = Write(p, m)
  BY <1>1, <1>3, CallIs
<1> HIDE DEF c, p, m
<1>5. <<>> \in Seq(LegalCalls(q))
  BY NoCalls
<1>6. CASE /\ HasReader(p) /\ pipe' = [pipe EXCEPT ![p] = Append(pipe[p], m)]
           /\ todo' = [todo EXCEPT ![q] = Tail(todo[q])] /\ status' = status
  <2>1. TodoT' /\ todo'[q] = Tail(todo[q]) /\ \A r \in Processes \ {q} : todo'[r] = todo[r]
    BY <1>3, <1>6, TodoSet DEF Types
  <2>2. Append(pipe[p], m) \in Seq(Carried(p))
    BY <1>2, <1>4, AppendIs
  <2>3. PipeT' /\ pipe'[p] = Append(pipe[p], m) /\ \A r \in Pipes \ {p} : pipe'[r] = pipe[r]
    BY <1>4, <1>6, <2>2, PipeSet DEF Types
  <2>4. RestT' /\ WatchdogT' /\ IdleT'
    BY <1>1, <1>6, <2>1 DEF Types, RestT, WatchdogT, IdleT, wdVars
  <2> QED
    BY <1>1, <1>4, <1>6, <2>1, <2>3, <2>4 DEF Types, Alone, c
<1>7. CASE /\ ~HasReader(p) /\ status' = [status EXCEPT ![q] = "fail"]
           /\ todo' = [todo EXCEPT ![q] = <<>>] /\ pipe' = pipe
  <2>1. TodoT' /\ todo'[q] = <<>> /\ \A r \in Processes \ {q} : todo'[r] = todo[r]
    BY <1>5, <1>7, TodoSet DEF Types
  <2>2. /\ status' \in [Processes -> {"run", "leave", "fail", "hang"} \cup Ended]
        /\ status'[q] = "fail" /\ \A r \in Processes \ {q} : status'[r] = status[r]
    BY <1>7, StatusSet DEF Types
  <2>3. PipeT' /\ RestT' /\ WatchdogT' /\ IdleT'
    BY <1>1, <1>7, <2>1, <2>2 DEF Types, RestT, WatchdogT, IdleT, PipeT, wdVars
  <2> QED
    BY <1>1, <1>4, <1>7, <2>1, <2>2, <2>3 DEF Types, Alone, c
<1> QED
  BY <1>1, <1>6, <1>7

LEMMA EndOfIs ==
  ASSUME NEW q \in Processes, NEW p \in Pipes, q \in {Writer[p], Reader[p]}
  PROVE  EndOf(q, p) \in EndsOf(q) /\ EndOf(q, p) \in {<<"w", p>>, <<"r", p>>}
BY DEF EndOf, EndsOf

LEMMA CloseDoes ==
  ASSUME Types, NEW q \in Processes, DoClose(q)
  PROVE  /\ Types' /\ Alone(q) /\ pipe' = pipe /\ pc' = pc
         /\ status[q] \in {"run", "leave"} /\ todo[q] # <<>>
         /\ \E p \in Pipes :
              /\ q \in {Writer[p], Reader[p]} /\ Head(todo[q]) = Close(p)
              /\ \/ /\ EndOf(q, p) \in open /\ open' = open \ {EndOf(q, p)}
                    /\ todo'[q] = Tail(todo[q]) /\ status'[q] = status[q]
                 \/ /\ EndOf(q, p) \notin open /\ open' = open
                    /\ status'[q] = "hang" /\ todo'[q] = <<>>
<1> DEFINE c == Head(todo[q])
           p == c.pipe
<1>1. /\ status[q] \in {"run", "leave"} /\ todo[q] # <<>> /\ c.op = "close"
      /\ UNCHANGED <<pipe, pc, ready, pending, wdVars, WD_pid, konsoles, left>>
      /\ \/ /\ EndOf(q, p) \in open /\ open' = open \ {EndOf(q, p)}
            /\ todo' = [todo EXCEPT ![q] = Tail(todo[q])] /\ status' = status
         \/ /\ EndOf(q, p) \notin open /\ status' = [status EXCEPT ![q] = "hang"]
            /\ todo' = [todo EXCEPT ![q] = <<>>] /\ open' = open
  <2>1. /\ status[q] \in {"run", "leave"} /\ todo[q] # <<>> /\ c.op = "close"
        /\ UNCHANGED <<pipe, pc, ready, pending, wdVars, WD_pid, konsoles, left>>
    BY DEF DoClose
  <2>2. \/ /\ EndOf(q, p) \in open /\ open' = open \ {EndOf(q, p)}
           /\ todo' = [todo EXCEPT ![q] = Tail(todo[q])] /\ status' = status
        \/ /\ EndOf(q, p) \notin open /\ status' = [status EXCEPT ![q] = "hang"]
           /\ todo' = [todo EXCEPT ![q] = <<>>] /\ open' = open
    BY DEF DoClose
  <2> QED
    BY <2>1, <2>2
<1>2. todo[q] \in Seq(LegalCalls(q))
  BY DEF Types, TodoT
<1>3. c \in LegalCalls(q) /\ Tail(todo[q]) \in Seq(LegalCalls(q))
  BY <1>1, <1>2, TailIs
<1>4. p \in Pipes /\ q \in {Writer[p], Reader[p]} /\ c = Close(p)
  BY <1>1, <1>3, CallIs
<1> HIDE DEF c, p
<1>5. <<>> \in Seq(LegalCalls(q))
  BY NoCalls
<1>6. EndOf(q, p) \in EndsOf(q)
  BY <1>4, EndOfIs
<1>7. CASE /\ EndOf(q, p) \in open /\ open' = open \ {EndOf(q, p)}
           /\ todo' = [todo EXCEPT ![q] = Tail(todo[q])] /\ status' = status
  <2>1. TodoT' /\ todo'[q] = Tail(todo[q]) /\ \A r \in Processes \ {q} : todo'[r] = todo[r]
    BY <1>3, <1>7, TodoSet DEF Types
  <2>2. PipeT' /\ RestT' /\ WatchdogT' /\ IdleT'
    BY <1>1, <1>7, <2>1 DEF Types, RestT, WatchdogT, IdleT, PipeT, wdVars
  <2> QED
    BY <1>1, <1>4, <1>6, <1>7, <2>1, <2>2 DEF Types, Alone, c
<1>8. CASE /\ EndOf(q, p) \notin open /\ status' = [status EXCEPT ![q] = "hang"]
           /\ todo' = [todo EXCEPT ![q] = <<>>] /\ open' = open
  <2>1. TodoT' /\ todo'[q] = <<>> /\ \A r \in Processes \ {q} : todo'[r] = todo[r]
    BY <1>5, <1>8, TodoSet DEF Types
  <2>2. /\ status' \in [Processes -> {"run", "leave", "fail", "hang"} \cup Ended]
        /\ status'[q] = "hang" /\ \A r \in Processes \ {q} : status'[r] = status[r]
    BY <1>8, StatusSet DEF Types
  <2>3. PipeT' /\ RestT' /\ WatchdogT' /\ IdleT'
    BY <1>1, <1>8, <2>1, <2>2 DEF Types, RestT, WatchdogT, IdleT, PipeT, wdVars
  <2> QED
    BY <1>1, <1>4, <1>8, <2>1, <2>2, <2>3 DEF Types, Alone, c
<1> QED
  BY <1>1, <1>7, <1>8

\* A process ends, whatever the reason.
LEMMA EndDoes ==
  ASSUME Types, NEW q \in Processes, NEW how \in Ended, End(q, how),
         UNCHANGED <<pipe, pc, ready>>,
         \/ UNCHANGED <<wdVars, WD_pid>>
         \/ /\ wd' \in {"alive", "zombie", "gone"} /\ wd_at' \in 1..Len(p_pids)
            /\ WD_pid' \in BOOLEAN /\ UNCHANGED <<wd_pc, count>>,
         left' = left \/ (left["crash"] > 0 /\ left' = [left EXCEPT !["crash"] = @ - 1])
  PROVE  /\ Types' /\ Alone(q) /\ status'[q] = how /\ todo'[q] = <<>>
<1>1. /\ status' = [status EXCEPT ![q] = how] /\ todo' = [todo EXCEPT ![q] = <<>>]
      /\ open' = open \ EndsOf(q) /\ pending' = pending \ {q}
  BY DEF End
<1>2. TodoT' /\ todo'[q] = <<>> /\ \A r \in Processes \ {q} : todo'[r] = todo[r]
  <2>1. <<>> \in Seq(LegalCalls(q))
    BY NoCalls
  <2> QED
    BY <1>1, <2>1, TodoSet DEF Types
<1>3. /\ status' \in [Processes -> {"run", "leave", "fail", "hang"} \cup Ended]
      /\ status'[q] = how /\ \A r \in Processes \ {q} : status'[r] = status[r]
  BY <1>1, StatusSet DEF Types
<1>4. left' \in [{"map", "obstacles", "crash"} -> Nat]
  BY DEF Types, WatchdogT
<1>5. PipeT' /\ RestT' /\ IdleT'
  BY <1>1, <1>2, <1>3 DEF Types, RestT, IdleT, PipeT
<1>6. WatchdogT'
  BY <1>1, <1>4 DEF Types, WatchdogT, wdVars
<1> QED
  BY <1>1, <1>2, <1>3, <1>5, <1>6 DEF Types, Alone

\* Process q takes a message from p.
Took(q, p) ==
  /\ Reader[p] = q /\ pipe[p] # <<>> /\ pipe'[p] = Tail(pipe[p])
  /\ \A r \in Pipes \ {p} : pipe'[r] = pipe[r]

\* Nothing but what is q's changes.
Turn(q) ==
  /\ Alone(q)
  /\ \A r \in Processes \ {q} : pc'[r] = pc[r]
  /\ \A p \in Pipes : q \notin {Writer[p], Reader[p]} => pipe'[p] = pipe[p]

\* A step that q takes in its loop: it may take a message or close the reading
\* end of a pipe, and goes on with the calls s.
LEMMA GoesOn ==
  ASSUME Types, NEW q \in Processes, AtRest(q), NEW s \in Seq(LegalCalls(q)),
         todo' = [todo EXCEPT ![q] = s],
         NEW v \in {"run", "leave"}, status' = [status EXCEPT ![q] = v],
         NEW l \in {"getch", "reply", "select", "scan", "send", "read"},
         pc' = [pc EXCEPT ![q] = l],
         \/ pipe' = pipe
         \/ \E p \in Pipes : /\ Reader[p] = q /\ pipe[p] # <<>>
                             /\ pipe' = [pipe EXCEPT ![p] = Tail(pipe[p])],
         \/ open' = open
         \/ \E p \in Pipes : Reader[p] = q /\ Writer[p] # q /\ open' = open \ {<<"r", p>>},
         ready' \in [{"server", "drone"} -> SUBSET Pipes], WatchdogT'
  PROVE  /\ Types' /\ Turn(q) /\ todo'[q] = s /\ status'[q] = v /\ pc'[q] = l
         /\ pipe' = pipe \/ \E p \in Pipes : Took(q, p)
<1>1. TodoT' /\ todo'[q] = s /\ \A r \in Processes \ {q} : todo'[r] = todo[r]
  BY TodoSet DEF Types
<1>2. /\ status' \in [Processes -> {"run", "leave", "fail", "hang"} \cup Ended]
      /\ status'[q] = v /\ \A r \in Processes \ {q} : status'[r] = status[r]
  BY StatusSet DEF Types
<1>3. /\ pc' \in [Processes -> {"getch", "reply", "select", "scan", "send", "read"}]
      /\ pc'[q] = l /\ \A r \in Processes \ {q} : pc'[r] = pc[r]
  BY DEF Types, RestT
<1>4. /\ PipeT' /\ (pipe' = pipe \/ \E p \in Pipes : Took(q, p))
      /\ \A p \in Pipes : q \notin {Writer[p], Reader[p]} => pipe'[p] = pipe[p]
  <2>1. CASE pipe' = pipe
    BY <2>1 DEF Types, PipeT
  <2>2. CASE \E p \in Pipes : /\ Reader[p] = q /\ pipe[p] # <<>>
                              /\ pipe' = [pipe EXCEPT ![p] = Tail(pipe[p])]
    <3>1. PICK p \in Pipes : /\ Reader[p] = q /\ pipe[p] # <<>>
                             /\ pipe' = [pipe EXCEPT ![p] = Tail(pipe[p])]
      BY <2>2
    <3>2. Tail(pipe[p]) \in Seq(Carried(p))
      BY <3>1, TailIs DEF Types, PipeT
    <3>3. PipeT' /\ pipe'[p] = Tail(pipe[p]) /\ \A r \in Pipes \ {p} : pipe'[r] = pipe[r]
      BY <3>1, <3>2, PipeSet DEF Types
    <3> QED
      BY <3>1, <3>3 DEF Took
  <2> QED
    BY <2>1, <2>2
<1>5. open' \subseteq open /\ open \ open' \subseteq EndsOf(q)
  <2>1. ASSUME NEW p \in Pipes, Reader[p] = q, Writer[p] # q, open' = open \ {<<"r", p>>}
        PROVE  open' \subseteq open /\ open \ open' \subseteq EndsOf(q)
    <3>1. EndOf(q, p) = <<"r", p>> /\ EndOf(q, p) \in EndsOf(q)
      BY <2>1, EndOfIs DEF EndOf
    <3> QED
      BY <2>1, <3>1
  <2> QED
    BY <2>1
<1>6. RestT' /\ IdleT'
  BY <1>1, <1>2, <1>3, <1>5 DEF Types, RestT, IdleT
<1> QED
  BY <1>1, <1>2, <1>3, <1>4, <1>5, <1>6 DEF Types, Turn, Alone

\* A step that keeps the calls, the status or the place of q as they are.
LEMMA AsItIs ==
  ASSUME Types, NEW q \in Processes
  PROVE  /\ todo[q] = <<>> => todo = [todo EXCEPT ![q] = <<>>]
         /\ status[q] = "run" => status = [status EXCEPT ![q] = "run"]
         /\ \A l : pc[q] = l => pc = [pc EXCEPT ![q] = l]
         /\ pc[q] \in {"getch", "reply", "select", "scan", "send", "read"}
BY DEF Types, TodoT, RestT

\* Reader and writer of a pipe differ.
LEMMA TwoEnds ==
  ASSUME NEW p \in Pipes
  PROVE  Reader[p] # Writer[p] /\ {Writer[p], Reader[p]} \subseteq Processes
<1>1. p \in AllPipes
  BY PipeTable
<1>2. Reader[p] # Writer[p]
  BY <1>1, PipeTable DEF AllPipes
<1> QED
  BY <1>2 DEF Pipes

Quiet == UNCHANGED <<pipe, open, status, pc, todo>>

LEMMA KeyPDoes ==
  ASSUME Types, KeyP
  PROVE  /\ Types' /\ Turn("input") /\ AtRest("input") /\ pc["input"] = "getch"
         /\ pipe' = pipe /\ open' = open /\ status'["input"] = "leave"
         /\ Parting(todo'["input"]) /\ Write("input_server", STOP) \in Elements(todo'["input"])
         /\ AskU \notin Elements(todo'["input"])
<1> DEFINE s == Present(<<Write("input_server", STOP)>> \o InputCloses)
<1>1. /\ AtRest("input") /\ pc["input"] = "getch"
      /\ wd' = IF WD_pid /\ wd = "alive" THEN "zombie" ELSE wd
      /\ status' = [status EXCEPT !["input"] = "leave"]
      /\ todo' = [todo EXCEPT !["input"] = s]
      /\ UNCHANGED <<pipe, open, pc, ready, pending, wd_pc, wd_at, count, WD_pid, konsoles, left>>
  BY DEF KeyP, Leave, STOP
<1>2. /\ s \in Seq(LegalCalls("input")) /\ Parting(s)
      /\ Write("input_server", STOP) \in Elements(s) /\ AskU \notin Elements(s)
  BY InputLists
<1> HIDE DEF s
<1>3. "input" \in Processes
  BY DEF Processes
<1>4. WatchdogT'
  BY <1>1 DEF Types, WatchdogT
<1>5. pc' = [pc EXCEPT !["input"] = "getch"]
  BY <1>1, <1>3, AsItIs
<1>6. ready' \in [{"server", "drone"} -> SUBSET Pipes]
  BY <1>1 DEF Types, RestT
<1>7. Types' /\ Turn("input") /\ todo'["input"] = s /\ status'["input"] = "leave"
  BY <1>1, <1>2, <1>3, <1>4, <1>5, <1>6, GoesOn
<1> QED
  BY <1>1, <1>2, <1>7

LEMMA KeyOtherDoes ==
  ASSUME Types, KeyOther
  PROVE  /\ Types' /\ Turn("input") /\ AtRest("input") /\ pc["input"] = "getch"
         /\ pipe' = pipe /\ open' = open /\ status'["input"] = "run" /\ pc'["input"] = "reply"
         /\ Distinct(todo'["input"]) /\ \A c \in Elements(todo'["input"]) : c.op = "write"
<1>1. /\ AtRest("input") /\ pc["input"] = "getch"
      /\ UNCHANGED <<pipe, open, status, ready, pending, wdVars, WD_pid, konsoles, left>>
      /\ pc' = [pc EXCEPT !["input"] = "reply"]
      /\ \E force \in {<<>>, <<Write("input_drone", "F")>>} :
           todo' = [todo EXCEPT !["input"] = Present(force \o <<AskU>>)]
  BY DEF KeyOther, Goto, AskU
<1>2. PICK force \in {<<>>, <<Write("input_drone", "F")>>} :
             todo' = [todo EXCEPT !["input"] = Present(force \o <<AskU>>)]
  BY <1>1
<1> DEFINE s == Present(force \o <<AskU>>)
<1>3. s \in Seq(LegalCalls("input")) /\ Distinct(s) /\ \A c \in Elements(s) : c.op = "write"
  BY InputLists
<1> HIDE DEF s
<1>4. "input" \in Processes
  BY DEF Processes
<1>5. WatchdogT'
  BY <1>1 DEF Types, WatchdogT, wdVars
<1>6. status' = [status EXCEPT !["input"] = "run"]
  BY <1>1, <1>4, AsItIs DEF AtRest
<1>7. ready' \in [{"server", "drone"} -> SUBSET Pipes]
  BY <1>1 DEF Types, RestT
<1>8. todo' = [todo EXCEPT !["input"] = s]
  BY <1>2 DEF s
<1>9. /\ Types' /\ Turn("input") /\ todo'["input"] = s /\ status'["input"] = "run"
      /\ pc'["input"] = "reply"
  BY <1>1, <1>3, <1>4, <1>5, <1>6, <1>7, <1>8, GoesOn
<1> QED
  BY <1>1, <1>3, <1>9

LEMMA InputReadDoes ==
  ASSUME Types, InputRead
  PROVE  /\ Types' /\ Turn("input") /\ AtRest("input") /\ pc["input"] = "reply"
         /\ open' = open
         /\ \/ /\ Took("input", "server_input") /\ status'["input"] = "run"
               /\ todo'["input"] = <<>>
            \/ /\ Eof("server_input") /\ status'["input"] = "leave" /\ pipe' = pipe
               /\ Parting(todo'["input"])
<1>1. /\ AtRest("input") /\ pc["input"] = "reply"
      /\ UNCHANGED <<open, ready, pending, wdVars, WD_pid, konsoles, left>>
  BY DEF InputRead
<1>2. "input" \in Processes /\ "server_input" \in Pipes /\ Reader["server_input"] = "input"
  BY PipesThere, PipeTable DEF Processes
<1>3. WatchdogT'
  BY <1>1 DEF Types, WatchdogT, wdVars
<1>4. ready' \in [{"server", "drone"} -> SUBSET Pipes]
  BY <1>1 DEF Types, RestT
<1>5. CASE /\ pipe["server_input"] # <<>> /\ Take("server_input")
           /\ Goto("input", "getch", <<>>) /\ status' = status
  <2>1. /\ pipe' = [pipe EXCEPT !["server_input"] = Tail(pipe["server_input"])]
        /\ pc' = [pc EXCEPT !["input"] = "getch"] /\ todo' = [todo EXCEPT !["input"] = <<>>]
    BY <1>5, NoCalls DEF Take, Goto
  <2>2. status' = [status EXCEPT !["input"] = "run"] /\ <<>> \in Seq(LegalCalls("input"))
    BY <1>1, <1>2, <1>5, AsItIs, NoCalls DEF AtRest
  <2>3. Types' /\ Turn("input") /\ todo'["input"] = <<>> /\ status'["input"] = "run"
    BY <1>1, <1>2, <1>3, <1>4, <1>5, <2>1, <2>2, GoesOn
  <2>4. Took("input", "server_input")
    BY <1>2, <1>5, <2>1 DEF Took, Types, PipeT
  <2> QED
    BY <1>1, <2>3, <2>4
<1>6. CASE Eof("server_input") /\ Leave("input", InputCloses) /\ UNCHANGED <<pipe, pc>>
  <2> DEFINE s == Present(InputCloses)
  <2>1. /\ status' = [status EXCEPT !["input"] = "leave"] /\ todo' = [todo EXCEPT !["input"] = s]
        /\ pc' = [pc EXCEPT !["input"] = "reply"] /\ pipe' = pipe
    BY <1>1, <1>2, <1>6, AsItIs DEF Leave
  <2>2. s \in Seq(LegalCalls("input")) /\ Parting(s)
    BY InputLists
  <2> HIDE DEF s
  <2>3. Types' /\ Turn("input") /\ todo'["input"] = s /\ status'["input"] = "leave"
    BY <1>1, <1>2, <1>3, <1>4, <2>1, <2>2, GoesOn
  <2> QED
    BY <1>1, <1>6, <2>1, <2>2, <2>3
<1> QED
  BY <1>5, <1>6 DEF InputRead

\* What a process does in its loop without leaving it.
Stays(q) ==
  /\ Turn(q) /\ AtRest(q) /\ status'[q] = "run"
  /\ \A c \in Elements(todo'[q]) : c.op = "write" /\ (q = "server" => c.msg # STOP)
  /\ \/ open' = open /\ pipe' = pipe
     \/ open' = open /\ \E p \in Pipes : Took(q, p) /\ Head(pipe[p]) # STOP
     \/ pipe' = pipe /\ \E p \in Pipes : Reader[p] = q /\ Eof(p) /\ open' = open \ {<<"r", p>>}

LEMMA SelectDoes ==
  ASSUME Types, NEW q \in {"server", "drone"}, SelectReturns(q)
  PROVE  Types' /\ q \in Processes /\ Stays(q) /\ pipe' = pipe /\ Elements(todo'[q]) = {}
<1> DEFINE now == {p \in Pipes : Reader[p] = q /\ Readable(p)}
<1>1. /\ q \in Processes /\ AtRest(q) /\ ready' = [ready EXCEPT ![q] = now]
      /\ pc' = [pc EXCEPT ![q] = "scan"] /\ todo' = [todo EXCEPT ![q] = <<>>]
      /\ UNCHANGED <<pipe, open, status, pending, wdVars, WD_pid, konsoles, left>>
  BY NoCalls DEF SelectReturns, Goto
<1>2. status' = [status EXCEPT ![q] = "run"] /\ <<>> \in Seq(LegalCalls(q))
  BY <1>1, AsItIs, NoCalls DEF AtRest
<1>3. WatchdogT'
  BY <1>1 DEF Types, WatchdogT, wdVars
<1>4. ready' \in [{"server", "drone"} -> SUBSET Pipes]
  BY <1>1 DEF Types, RestT
<1>5. Types' /\ Turn(q) /\ todo'[q] = <<>> /\ status'[q] = "run"
  BY <1>1, <1>2, <1>3, <1>4, GoesOn
<1> QED
  BY <1>1, <1>5, NoCalls DEF Stays

LEMMA PassOverDoes ==
  ASSUME Types, NEW q \in {"server", "drone"}, PassOver(q)
  PROVE  /\ Types' /\ q \in Processes /\ Stays(q) /\ pipe' = pipe
         /\ q = "server" => Elements(todo'[q]) = {}
<1> DEFINE calls == IF q = "drone" THEN <<Write("drone_server", "D")>> ELSE <<>>
           s == Present(calls)
<1>1. /\ q \in Processes /\ AtRest(q)
      /\ pc' = [pc EXCEPT ![q] = "select"] /\ todo' = [todo EXCEPT ![q] = s]
      /\ UNCHANGED <<pipe, open, status, ready, pending, wdVars, WD_pid, konsoles, left>>
  BY DEF PassOver, Goto
<1>2. /\ s \in Seq(LegalCalls(q)) /\ (q = "server" => Elements(s) = {})
      /\ \A c \in Elements(s) : c.op = "write"
  <2>1. CASE q = "server"
    BY <2>1, NoCalls
  <2>2. CASE q = "drone"
    <3>1. /\ "drone" \in AllPeers /\ "drone_server" \in AllPipes /\ "D" \in Carried("drone_server")
          /\ Writer["drone_server"] = "drone"
      BY PipeTable DEF AllPeers, AllPipes, Carried
    <3>2. s = Present(<<Write("drone_server", "D")>>)
      BY <2>2
    <3> QED
      BY <2>2, <3>1, <3>2, PeerLists
  <2> QED
    BY <2>1, <2>2
<1> HIDE DEF s
<1>3. status' = [status EXCEPT ![q] = "run"]
  BY <1>1, AsItIs DEF AtRest
<1>4. WatchdogT'
  BY <1>1 DEF Types, WatchdogT, wdVars
<1>5. ready' \in [{"server", "drone"} -> SUBSET Pipes]
  BY <1>1 DEF Types, RestT
<1>6. Types' /\ Turn(q) /\ todo'[q] = s /\ status'[q] = "run"
  BY <1>1, <1>2, <1>3, <1>4, <1>5, GoesOn
<1> QED
  BY <1>1, <1>2, <1>6 DEF Stays

\* What select has reported is read by the process that called it.
LEMMA ServingIs ==
  ASSUME Types, NEW q \in {"server", "drone"}, NEW p \in Pipes, Serving(q, p)
  PROVE  /\ q \in Processes /\ AtRest(q) /\ Reader[p] = q
         /\ q = "server" => p \in {"drone_server", "input_server", "map_server",
                                   "target_server", "obstacles_server"}
         /\ q = "drone" => p \in {"input_drone", "server_drone"}
<1>1. q \in Processes /\ AtRest(q) /\ \E i \in 1..Len(Scan[q]) : p = Scan[q][i]
  BY DEF Serving
<1>2. /\ Len(Scan["server"]) = 5 /\ Scan["server"][1] = "drone_server"
      /\ Scan["server"][2] = "input_server" /\ Scan["server"][3] = "map_server"
      /\ Scan["server"][4] = "target_server" /\ Scan["server"][5] = "obstacles_server"
      /\ Len(Scan["drone"]) = 2 /\ Scan["drone"][1] = "input_drone"
      /\ Scan["drone"][2] = "server_drone"
  <2>1. Scan["server"] = <<"drone_server", "input_server", "map_server",
                           "target_server", "obstacles_server">>
    BY DEF Scan
  <2>2. Scan["drone"] = <<"input_drone", "server_drone">>
    BY DEF Scan
  <2>3. ASSUME NEW s, s = <<"drone_server", "input_server", "map_server",
                            "target_server", "obstacles_server">>
        PROVE  /\ Len(s) = 5 /\ s[1] = "drone_server" /\ s[2] = "input_server"
               /\ s[3] = "map_server" /\ s[4] = "target_server" /\ s[5] = "obstacles_server"
    BY <2>3
  <2>4. ASSUME NEW s, s = <<"input_drone", "server_drone">>
        PROVE  Len(s) = 2 /\ s[1] = "input_drone" /\ s[2] = "server_drone"
    BY <2>4
  <2> QED
    BY <2>1, <2>2, <2>3, <2>4
<1>3. 1..5 = {1, 2, 3, 4, 5} /\ 1..2 = {1, 2}
  OBVIOUS
<1>4. q = "server" => p \in {"drone_server", "input_server", "map_server",
                             "target_server", "obstacles_server"}
  <2> HAVE q = "server"
  <2>1. PICK i \in {1, 2, 3, 4, 5} : p = Scan["server"][i]
    BY <1>1, <1>2, <1>3
  <2> QED
    BY <1>2, <2>1
<1>5. q = "drone" => p \in {"input_drone", "server_drone"}
  <2> HAVE q = "drone"
  <2>1. PICK i \in {1, 2} : p = Scan["drone"][i]
    BY <1>1, <1>2, <1>3
  <2> QED
    BY <1>2, <2>1
<1> QED
  BY <1>1, <1>4, <1>5, PipeTable

LEMMA ServeEofDoes ==
  ASSUME Types, NEW q \in {"server", "drone"}, NEW p \in Pipes, ServeEof(q, p)
  PROVE  /\ Types' /\ q \in Processes /\ Stays(q) /\ pipe' = pipe /\ Elements(todo'[q]) = {}
<1>1. /\ Eof(p) /\ open' = open \ {<<"r", p>>} /\ ready' = [ready EXCEPT ![q] = @ \ {p}]
      /\ UNCHANGED <<pipe, status, pc, todo, pending, wdVars, WD_pid, konsoles, left>>
  BY DEF ServeEof
<1>2. q \in Processes /\ AtRest(q) /\ Reader[p] = q
  BY ServingIs DEF ServeEof
<1>3. /\ status' = [status EXCEPT ![q] = "run"] /\ <<>> \in Seq(LegalCalls(q))
      /\ todo' = [todo EXCEPT ![q] = <<>>] /\ pc' = [pc EXCEPT ![q] = pc[q]]
      /\ pc[q] \in {"getch", "reply", "select", "scan", "send", "read"}
  BY <1>1, <1>2, AsItIs, NoCalls DEF AtRest
<1>4. WatchdogT'
  BY <1>1 DEF Types, WatchdogT, wdVars
<1>5. ready' \in [{"server", "drone"} -> SUBSET Pipes]
  BY <1>1 DEF Types, RestT
<1>6. Writer[p] # q
  BY <1>2, TwoEnds
<1>7. Types' /\ Turn(q) /\ todo'[q] = <<>> /\ status'[q] = "run"
  BY <1>1, <1>2, <1>3, <1>4, <1>5, <1>6, GoesOn
<1> QED
  BY <1>1, <1>2, <1>7, NoCalls DEF Stays

\* The message that is taken is one that the pipe carries.
LEMMA TakeIs ==
  ASSUME Types, NEW p \in Pipes, pipe[p] # <<>>, Take(p)
  PROVE  /\ Head(pipe[p]) \in Carried(p) /\ Took(Reader[p], p)
         /\ pipe' = [pipe EXCEPT ![p] = Tail(pipe[p])]
<1>1. pipe[p] \in Seq(Carried(p)) /\ pipe \in [Pipes -> Seq(Messages)]
  BY DEF Types, PipeT
<1>2. Head(pipe[p]) \in Carried(p)
  BY <1>1, TailIs
<1>3. pipe' = [pipe EXCEPT ![p] = Tail(pipe[p])]
  BY DEF Take
<1> QED
  BY <1>1, <1>2, <1>3 DEF Took

LEMMA ServerServeDoes ==
  ASSUME Types, NEW p \in Pipes, ServerServe(p)
  PROVE  /\ Types' /\ Turn("server") /\ AtRest("server") /\ open' = open
         /\ Took("server", p) /\ Reader[p] = "server"
         /\ \/ /\ Head(pipe[p]) = STOP /\ status'["server"] = "leave" /\ Parting(todo'["server"])
               /\ \A x \in Peers : Write(From[x], STOP) \in Elements(todo'["server"])
               /\ \A c \in Elements(todo'["server"]) : c.op = "write" => c.msg = STOP
            \/ /\ Stays("server") /\ Head(pipe[p]) # STOP /\ Distinct(todo'["server"])
               /\ p = "input_server" => \A c \in Elements(todo'["server"]) : c = Reply
               /\ p # "input_server" => Reply \notin Elements(todo'["server"])
<1>1. /\ Serving("server", p) /\ pipe[p] # <<>> /\ Take(p)
      /\ UNCHANGED <<open, pc, pending, wdVars, WD_pid, konsoles, left>>
  BY DEF ServerServe
<1>2. /\ "server" \in Processes /\ AtRest("server") /\ Reader[p] = "server"
      /\ p \in {"drone_server", "input_server", "map_server", "target_server",
                "obstacles_server"}
  BY <1>1, ServingIs
<1>3. /\ Head(pipe[p]) \in Carried(p) /\ Took("server", p)
      /\ pipe' = [pipe EXCEPT ![p] = Tail(pipe[p])]
  BY <1>1, <1>2, TakeIs
<1>4. /\ status = [status EXCEPT !["server"] = "run"] /\ pc' = [pc EXCEPT !["server"] = pc["server"]]
      /\ pc["server"] \in {"getch", "reply", "select", "scan", "send", "read"}
  BY <1>1, <1>2, AsItIs DEF AtRest
<1>5. WatchdogT'
  BY <1>1 DEF Types, WatchdogT, wdVars
<1>6. CASE /\ Head(pipe[p]) = STOP /\ Leave("server", StopWrites \o ServerCloses)
           /\ UNCHANGED ready
  <2> DEFINE s == Present(StopWrites \o ServerCloses)
  <2>1. status' = [status EXCEPT !["server"] = "leave"] /\ todo' = [todo EXCEPT !["server"] = s]
    BY <1>6 DEF Leave
  <2>2. /\ s \in Seq(LegalCalls("server")) /\ Parting(s)
        /\ \A x \in Peers : Write(From[x], STOP) \in Elements(s)
        /\ \A c \in Elements(s) : c.op = "write" => c.msg = STOP
    BY StopList
  <2> HIDE DEF s
  <2>3. ready' \in [{"server", "drone"} -> SUBSET Pipes]
    BY <1>6 DEF Types, RestT
  <2>4. Types' /\ Turn("server") /\ todo'["server"] = s /\ status'["server"] = "leave"
    BY <1>1, <1>2, <1>3, <1>4, <1>5, <2>1, <2>2, <2>3, GoesOn
  <2> QED
    BY <1>1, <1>2, <1>3, <1>6, <2>2, <2>4
<1>7. CASE /\ Head(pipe[p]) # STOP
           /\ todo' = [todo EXCEPT !["server"] = Present(Relayed(p, Head(pipe[p])))]
           /\ ready' = [ready EXCEPT !["server"] = @ \ {p}] /\ UNCHANGED status
  <2> DEFINE s == Present(Relayed(p, Head(pipe[p])))
  <2>1. /\ s \in Seq(LegalCalls("server")) /\ Distinct(s)
        /\ \A c \in Elements(s) : c.op = "write" /\ c.msg # STOP
        /\ p = "input_server" => \A c \in Elements(s) : c = Reply
        /\ p # "input_server" => Reply \notin Elements(s)
    BY <1>2, <1>3, <1>7, RelayedList
  <2>2. todo' = [todo EXCEPT !["server"] = s]
    BY <1>7
  <2> HIDE DEF s
  <2>3. ready' \in [{"server", "drone"} -> SUBSET Pipes]
    BY <1>7 DEF Types, RestT
  <2>4. status' = [status EXCEPT !["server"] = "run"]
    BY <1>4, <1>7
  <2>5. Types' /\ Turn("server") /\ todo'["server"] = s /\ status'["server"] = "run"
    BY <1>1, <1>2, <1>3, <1>4, <1>5, <2>1, <2>2, <2>3, <2>4, GoesOn
  <2>6. Stays("server")
    BY <1>1, <1>2, <1>3, <1>7, <2>1, <2>5 DEF Stays
  <2> QED
    BY <1>1, <1>2, <1>3, <1>7, <2>1, <2>5, <2>6
<1> QED
  BY <1>6, <1>7 DEF ServerServe, STOP

\* A peer takes the STOP of the server.
Obeys(x) ==
  /\ Turn(x) /\ AtRest(x) /\ open' = open /\ Took(x, From[x]) /\ Head(pipe[From[x]]) = STOP
  /\ status'[x] = "leave" /\ (x # "drone" => Parting(todo'[x]))

LEMMA DroneServeDoes ==
  ASSUME Types, NEW p \in Pipes, DroneServe(p)
  PROVE  Types' /\ "drone" \in Peers /\ (Stays("drone") \/ Obeys("drone"))
<1>1. /\ Serving("drone", p) /\ pipe[p] # <<>> /\ Take(p)
      /\ UNCHANGED <<open, pc, pending, wdVars, WD_pid, konsoles, left>>
  BY DEF DroneServe
<1>2. /\ "drone" \in Processes /\ AtRest("drone") /\ Reader[p] = "drone"
      /\ p \in {"input_drone", "server_drone"}
  BY <1>1, ServingIs
<1>3. /\ Head(pipe[p]) \in Carried(p) /\ Took("drone", p)
      /\ pipe' = [pipe EXCEPT ![p] = Tail(pipe[p])]
  BY <1>1, <1>2, TakeIs
<1>4. /\ status = [status EXCEPT !["drone"] = "run"] /\ pc' = [pc EXCEPT !["drone"] = pc["drone"]]
      /\ todo = [todo EXCEPT !["drone"] = <<>>]
      /\ pc["drone"] \in {"getch", "reply", "select", "scan", "send", "read"}
  BY <1>1, <1>2, AsItIs DEF AtRest
<1>5. WatchdogT' /\ "drone" \in Peers
  BY <1>1, <1>2 DEF Types, WatchdogT, wdVars, Processes
<1>6. CASE Head(pipe[p]) = STOP /\ Leave("drone", DroneCloses) /\ UNCHANGED ready
  <2> DEFINE s == Present(DroneCloses)
  <2>1. status' = [status EXCEPT !["drone"] = "leave"] /\ todo' = [todo EXCEPT !["drone"] = s]
    BY <1>6 DEF Leave
  <2>2. s \in Seq(LegalCalls("drone"))
    BY PeerLists
  <2> HIDE DEF s
  <2>3. ready' \in [{"server", "drone"} -> SUBSET Pipes]
    BY <1>6 DEF Types, RestT
  <2>4. Types' /\ Turn("drone") /\ todo'["drone"] = s /\ status'["drone"] = "leave"
    BY <1>1, <1>2, <1>3, <1>4, <1>5, <2>1, <2>2, <2>3, GoesOn
  <2>5. p = From["drone"]
    <3>1. p # "input_drone"
      BY <1>3, <1>6 DEF Carried, STOP
    <3> QED
      BY <1>2, <3>1, FromIs
  <2> QED
    BY <1>1, <1>2, <1>3, <1>5, <1>6, <2>4, <2>5 DEF Obeys
<1>7. CASE /\ Head(pipe[p]) # STOP
           /\ ready' = [ready EXCEPT !["drone"] = @ \ {p}] /\ UNCHANGED <<status, todo>>
  <2>1. ready' \in [{"server", "drone"} -> SUBSET Pipes]
    BY <1>7 DEF Types, RestT
  <2>2. /\ status' = [status EXCEPT !["drone"] = "run"] /\ todo' = [todo EXCEPT !["drone"] = <<>>]
        /\ <<>> \in Seq(LegalCalls("drone"))
    BY <1>4, <1>7, NoCalls
  <2>3. Types' /\ Turn("drone") /\ todo'["drone"] = <<>> /\ status'["drone"] = "run"
    BY <1>1, <1>2, <1>3, <1>4, <1>5, <2>1, <2>2, GoesOn
  <2> QED
    BY <1>1, <1>2, <1>3, <1>5, <1>7, <2>3, NoCalls DEF Stays
<1> QED
  BY <1>6, <1>7 DEF DroneServe, STOP

\* How a peer other than the drone ends its wait and goes on.
Waited(x) ==
  \/ UNCHANGED <<pipe, open>>
  \/ UNCHANGED open /\ pipe[From[x]] # <<>> /\ Take(From[x]) /\ Head(pipe[From[x]]) # STOP
  \/ UNCHANGED pipe /\ Eof(From[x]) /\ open' = open \ {<<"r", From[x]>>}

LEMMA PeerGoesOn ==
  ASSUME Types, NEW x \in Peers, AtRest(x), NEW calls,
         NEW l \in {"getch", "reply", "select", "scan", "send", "read"},
         Goto(x, l, calls), Present(calls) \in Seq(LegalCalls(x)),
         \A c \in Elements(Present(calls)) : c.op = "write",
         UNCHANGED <<status, ready, pending, wdVars, WD_pid, konsoles>>,
         left' \in [{"map", "obstacles", "crash"} -> Nat], Waited(x)
  PROVE  Types' /\ Stays(x)
<1> DEFINE s == Present(calls)
           p == From[x]
<1>1. /\ x \in Processes /\ p \in Pipes /\ Reader[p] = x /\ Writer[p] # x /\ x # "server"
  BY FromIs, TwoEnds
<1>2. pc' = [pc EXCEPT ![x] = l] /\ todo' = [todo EXCEPT ![x] = s]
  BY DEF Goto
<1>3. status' = [status EXCEPT ![x] = "run"]
  BY <1>1, AsItIs DEF AtRest
<1>4. WatchdogT'
  BY DEF Types, WatchdogT, wdVars
<1>5. ready' \in [{"server", "drone"} -> SUBSET Pipes]
  BY DEF Types, RestT
<1>6. pipe[p] # <<>> /\ Take(p) => /\ Took(x, p)
                                   /\ pipe' = [pipe EXCEPT ![p] = Tail(pipe[p])]
  BY <1>1, TakeIs
<1>7. s \in Seq(LegalCalls(x))
  OBVIOUS
<1> HIDE DEF s, p
<1>8. /\ pipe' = pipe \/ (pipe[p] # <<>> /\ pipe' = [pipe EXCEPT ![p] = Tail(pipe[p])])
      /\ open' = open \/ open' = open \ {<<"r", p>>}
  BY <1>1, <1>6 DEF p, Waited
<1>9. \/ pipe' = pipe
      \/ \E r \in Pipes : /\ Reader[r] = x /\ pipe[r] # <<>>
                          /\ pipe' = [pipe EXCEPT ![r] = Tail(pipe[r])]
  BY <1>1, <1>8
<1>10. Types' /\ Turn(x) /\ todo'[x] = s /\ status'[x] = "run"
  <2>1. CASE open' = open
    BY <1>1, <1>2, <1>3, <1>4, <1>5, <1>7, <1>9, <2>1, GoesOn
  <2>2. CASE pipe' = pipe /\ open' = open \ {<<"r", p>>}
    <3> DEFINE v == "run"
    <3>1. v \in {"run", "leave"} /\ status' = [status EXCEPT ![x] = v]
      BY <1>3
    <3>2. pipe' = pipe /\ x \in Processes /\ pc' = [pc EXCEPT ![x] = l]
          /\ todo' = [todo EXCEPT ![x] = s]
          /\ \E r \in Pipes : Reader[r] = x /\ Writer[r] # x /\ open' = open \ {<<"r", r>>}
      BY <1>1, <1>2, <2>2
    <3> HIDE DEF v
    <3> QED
      BY <1>4, <1>5, <1>7, <3>1, <3>2, GoesOn DEF v
  <2> QED
    BY <1>8, <2>1, <2>2 DEF Waited
<1>11. \/ open' = open /\ pipe' = pipe
       \/ open' = open /\ Took(x, p) /\ Head(pipe[p]) # STOP
       \/ pipe' = pipe /\ Reader[p] = x /\ Eof(p) /\ open' = open \ {<<"r", p>>}
  BY <1>1, <1>6 DEF p, Waited
<1> QED
  BY <1>1, <1>10, <1>11 DEF Stays, s

LEMMA PeerLeaves ==
  ASSUME Types, NEW x \in Peers, AtRest(x), NEW calls, Leave(x, calls),
         Present(calls) \in Seq(LegalCalls(x)), Parting(Present(calls)),
         pipe[From[x]] # <<>>, Take(From[x]), Head(pipe[From[x]]) = STOP,
         UNCHANGED <<open, pc, ready, pending, wdVars, WD_pid, konsoles, left>>
  PROVE  Types' /\ Obeys(x)
<1> DEFINE s == Present(calls)
<1>1. x \in Processes /\ From[x] \in Pipes /\ Reader[From[x]] = x
  BY FromIs
<1>2. status' = [status EXCEPT ![x] = "leave"] /\ todo' = [todo EXCEPT ![x] = s]
  BY DEF Leave
<1>3. /\ pc' = [pc EXCEPT ![x] = pc[x]]
      /\ pc[x] \in {"getch", "reply", "select", "scan", "send", "read"}
  BY <1>1, AsItIs
<1>4. WatchdogT' /\ ready' \in [{"server", "drone"} -> SUBSET Pipes]
  BY DEF Types, WatchdogT, RestT, wdVars
<1>5. Took(x, From[x]) /\ pipe' = [pipe EXCEPT ![From[x]] = Tail(pipe[From[x]])]
  BY <1>1, TakeIs
<1>6. s \in Seq(LegalCalls(x))
  OBVIOUS
<1> HIDE DEF s
<1>7. Types' /\ Turn(x) /\ todo'[x] = s /\ status'[x] = "leave"
  BY <1>1, <1>2, <1>3, <1>4, <1>5, <1>6, GoesOn
<1> QED
  BY <1>5, <1>7 DEF Obeys, s

\* One write, or none, in the loop of a peer.
LEMMA PeerCalls ==
  ASSUME NEW x \in Peers
  PROVE  /\ Present(<<>>) \in Seq(LegalCalls(x))
         /\ \A c \in Elements(Present(<<>>)) : c.op = "write"
         /\ \A p \in AllPipes : \A m \in Carried(p) :
              Writer[p] = x =>
                /\ Present(<<Write(p, m)>>) \in Seq(LegalCalls(x))
                /\ \A c \in Elements(Present(<<Write(p, m)>>)) : c.op = "write"
<1>1. x \in AllPeers
  BY FromIs
<1> QED
  BY <1>1, PeerLists, NoCalls

LEMMA MapDoes ==
  ASSUME Types, MapSelect
  PROVE  Types' /\ "map" \in Peers /\ (Stays("map") \/ Obeys("map"))
<1>1. "map" \in Peers /\ AtRest("map") /\ UNCHANGED <<ready, pending, wdVars, WD_pid, konsoles>>
  BY DEF MapSelect
<1>2. /\ From["map"] = "server_map" /\ "map_server" \in AllPipes
      /\ Writer["map_server"] = "map" /\ "TH" \in Carried("map_server")
      /\ "GE" \in Carried("map_server")
  BY FromIs, PipeTable DEF AllPipes, Carried
<1>3. ASSUME Frame, status' = status, Waited("map")
      PROVE  Types' /\ Stays("map")
  <2>1. PICK calls : /\ Goto("map", "select", calls)
                     /\ calls = <<>> \/ \E m \in {"TH", "GE"} : calls = <<Write("map_server", m)>>
    BY <1>3 DEF Frame, Reports
  <2>2. left' \in [{"map", "obstacles", "crash"} -> Nat]
    <3>1. left' = left \/ (left["map"] > 0 /\ left' = [left EXCEPT !["map"] = @ - 1])
      BY <1>3 DEF Frame, Reports
    <3> QED
      BY <3>1 DEF Types, WatchdogT
  <2>3. /\ Present(calls) \in Seq(LegalCalls("map"))
        /\ \A c \in Elements(Present(calls)) : c.op = "write"
    BY <1>1, <1>2, <2>1, PeerCalls
  <2> QED
    BY <1>1, <1>2, <1>3, <2>1, <2>2, <2>3, PeerGoesOn
<1>4. CASE /\ pipe["server_map"] # <<>> /\ Take("server_map")
           /\ \/ /\ Head(pipe["server_map"]) = "STOP"
                 /\ Leave("map", <<Close("map_server"), Close("server_map")>>)
                 /\ UNCHANGED <<pc, left>>
              \/ /\ Head(pipe["server_map"]) # "STOP"
                 /\ Frame
                 /\ UNCHANGED status
           /\ UNCHANGED open
  <2>1. CASE /\ Head(pipe["server_map"]) = "STOP"
             /\ Leave("map", <<Close("map_server"), Close("server_map")>>)
             /\ UNCHANGED <<pc, left>>
    <3> DEFINE calls == <<Close("map_server"), Close("server_map")>>
    <3>1. Present(calls) \in Seq(LegalCalls("map")) /\ Parting(Present(calls))
      BY PeerLists
    <3>2. Leave("map", calls)
      BY <2>1
    <3> HIDE DEF calls
    <3>3. Types' /\ Obeys("map")
      BY <1>1, <1>2, <1>4, <2>1, <3>1, <3>2, PeerLeaves DEF STOP
    <3> QED
      BY <1>1, <3>3
  <2>2. CASE Head(pipe["server_map"]) # "STOP" /\ Frame /\ UNCHANGED status
    BY <1>1, <1>2, <1>3, <1>4, <2>2 DEF STOP, Waited
  <2> QED
    BY <1>4, <2>1, <2>2
<1>5. CASE /\ Eof("server_map") /\ open' = open \ {<<"r", "server_map">>} /\ Frame
           /\ UNCHANGED <<pipe, status>>
  BY <1>1, <1>2, <1>3, <1>5 DEF Waited
<1>6. CASE Frame /\ UNCHANGED <<pipe, open, status>>
  BY <1>1, <1>3, <1>6 DEF Waited
<1> QED
  BY <1>4, <1>5, <1>6 DEF MapSelect

LEMMA TargetDoes ==
  ASSUME Types, TargetSend \/ TargetRead
  PROVE  Types' /\ "target" \in Peers /\ (Stays("target") \/ Obeys("target"))
<1>1. "target" \in Peers /\ AtRest("target") /\ UNCHANGED <<ready, pending, wdVars, WD_pid, konsoles, left>>
      /\ open' = open
  BY DEF TargetSend, TargetRead
<1>2. /\ From["target"] = "server_target" /\ "target_server" \in AllPipes
      /\ Writer["target_server"] = "target" /\ "T" \in Carried("target_server")
  BY FromIs, PipeTable DEF AllPipes, Carried
<1>3. left' \in [{"map", "obstacles", "crash"} -> Nat]
  BY <1>1 DEF Types, WatchdogT
<1>4. ASSUME NEW calls, NEW l \in {"send", "read"}, Goto("target", l, calls), status' = status,
             calls = <<>> \/ calls = <<Write("target_server", "T")>>, Waited("target")
      PROVE  Types' /\ Stays("target")
  <2>1. /\ Present(calls) \in Seq(LegalCalls("target"))
        /\ \A c \in Elements(Present(calls)) : c.op = "write"
    BY <1>1, <1>2, <1>4, PeerCalls
  <2> QED
    BY <1>1, <1>3, <1>4, <2>1, PeerGoesOn
<1>5. CASE TargetSend
  <2>1. Goto("target", "read", <<Write("target_server", "T")>>) /\ status' = status
        /\ Waited("target")
    BY <1>5 DEF TargetSend, Waited
  <2> QED
    BY <1>1, <1>4, <2>1
<1>6. CASE /\ pipe["server_target"] # <<>> /\ Take("server_target")
           /\ Head(pipe["server_target"]) = "STOP"
           /\ Leave("target", <<Close("target_server")>>) /\ UNCHANGED pc
  <2> DEFINE calls == <<Close("target_server")>>
  <2>1. Present(calls) \in Seq(LegalCalls("target")) /\ Parting(Present(calls))
    BY PeerLists
  <2>2. Leave("target", calls)
    BY <1>6
  <2> HIDE DEF calls
  <2>3. Types' /\ Obeys("target")
    BY <1>1, <1>2, <1>6, <2>1, <2>2, PeerLeaves DEF STOP
  <2> QED
    BY <1>1, <2>3
<1>7. CASE /\ pipe["server_target"] # <<>> /\ Take("server_target")
           /\ Head(pipe["server_target"]) # "STOP"
           /\ Goto("target", "send", <<>>) /\ UNCHANGED status
  <2>1. Waited("target")
    BY <1>1, <1>2, <1>7 DEF Waited, STOP
  <2> QED
    BY <1>1, <1>4, <1>7, <2>1
<1>8. CASE Goto("target", "send", <<>>) /\ UNCHANGED <<pipe, status>>
  <2>1. Waited("target")
    BY <1>1, <1>8 DEF Waited
  <2> QED
    BY <1>1, <1>4, <1>8, <2>1
<1> QED
  BY <1>5, <1>6, <1>7, <1>8 DEF TargetRead

LEMMA ObstaclesDoes ==
  ASSUME Types, ObstaclesSend \/ ObstaclesSelect
  PROVE  Types' /\ "obstacles" \in Peers /\ (Stays("obstacles") \/ Obeys("obstacles"))
<1>1. /\ "obstacles" \in Peers /\ AtRest("obstacles")
      /\ UNCHANGED <<ready, pending, wdVars, WD_pid, konsoles>>
  BY DEF ObstaclesSend, ObstaclesSelect
<1>2. /\ From["obstacles"] = "server_obstacles" /\ "obstacles_server" \in AllPipes
      /\ Writer["obstacles_server"] = "obstacles" /\ "O" \in Carried("obstacles_server")
      /\ "server_obstacles" \in Pipes
  BY <1>1, FromIs, PipeTable, PipesThere DEF AllPipes, Carried
<1>3. /\ left \in [{"map", "obstacles", "crash"} -> Nat]
      /\ left["obstacles"] > 0 =>
           [left EXCEPT !["obstacles"] = @ - 1] \in [{"map", "obstacles", "crash"} -> Nat]
  BY DEF Types, WatchdogT
<1>4. ASSUME NEW calls, NEW l \in {"send", "select"}, Goto("obstacles", l, calls),
             status' = status, left' \in [{"map", "obstacles", "crash"} -> Nat],
             calls = <<>> \/ calls = <<Write("obstacles_server", "O")>>, Waited("obstacles")
      PROVE  Types' /\ Stays("obstacles")
  <2>1. /\ Present(calls) \in Seq(LegalCalls("obstacles"))
        /\ \A c \in Elements(Present(calls)) : c.op = "write"
    BY <1>1, <1>2, <1>4, PeerCalls
  <2> QED
    BY <1>1, <1>4, <2>1, PeerGoesOn
<1>5. CASE ObstaclesSend
  <2>1. /\ Goto("obstacles", "select", <<Write("obstacles_server", "O")>>) /\ status' = status
        /\ Waited("obstacles") /\ left' = left
    BY <1>5 DEF ObstaclesSend, Waited
  <2> QED
    BY <1>1, <1>3, <1>4, <2>1
<1>6. CASE /\ pipe["server_obstacles"] # <<>> /\ Take("server_obstacles")
           /\ Leave("obstacles", <<Close("obstacles_server")>>) /\ UNCHANGED <<open, pc, left>>
  <2> DEFINE calls == <<Close("obstacles_server")>>
  <2>1. Present(calls) \in Seq(LegalCalls("obstacles")) /\ Parting(Present(calls))
    BY PeerLists
  <2>2. Leave("obstacles", calls)
    BY <1>6
  <2> HIDE DEF calls
  <2>3. Head(pipe["server_obstacles"]) = STOP
    <3>1. Head(pipe["server_obstacles"]) \in Carried("server_obstacles")
      BY <1>2, <1>6, TakeIs
    <3> QED
      BY <3>1 DEF Carried, STOP
  <2>4. Types' /\ Obeys("obstacles")
    BY <1>1, <1>2, <1>6, <2>1, <2>2, <2>3, PeerLeaves
  <2> QED
    BY <1>1, <2>4
<1>7. CASE /\ Eof("server_obstacles") /\ open' = open \ {<<"r", "server_obstacles">>}
           /\ Goto("obstacles", "send", <<>>) /\ UNCHANGED <<pipe, status, left>>
  <2>1. Waited("obstacles") /\ left' = left
    BY <1>1, <1>2, <1>7 DEF Waited
  <2> QED
    BY <1>1, <1>3, <1>4, <1>7, <2>1
<1>8. CASE /\ left["obstacles"] > 0 /\ Goto("obstacles", "send", <<>>)
           /\ left' = [left EXCEPT !["obstacles"] = @ - 1] /\ UNCHANGED <<pipe, open, status>>
  <2>1. Waited("obstacles")
    BY <1>1, <1>8 DEF Waited
  <2> QED
    BY <1>1, <1>3, <1>4, <1>8, <2>1
<1> QED
  BY <1>5, <1>6, <1>7, <1>8 DEF ObstaclesSelect

\* The signals and the watchdog's rounds leave the processes alone.
LEMMA SignalsDo ==
  ASSUME Types,
         \/ WDSignal \/ WDNext \/ WDAlarm \/ MasterWait
         \/ \E q \in Processes : Handler(q) /\ wd # "gone"
         \/ WDKill /\ status[p_pids[wd_at]] \in Ended
         \/ \E q \in Processes : KonsoleCloses(q)
         \/ UNCHANGED vars
  PROVE  Types' /\ Quiet
<1>1. p_pids[wd_at] \in Processes /\ Len(p_pids) \in Nat /\ Len(p_pids) >= 1
  BY p_pidsIs DEF Types, WatchdogT
<1>2. ASSUME Quiet, ready' = ready, WatchdogT' PROVE Types' /\ Quiet
  BY <1>2 DEF Types, PipeT, TodoT, RestT, IdleT, Quiet
<1>3. CASE WDSignal
  <2>1. Quiet /\ ready' = ready
    BY <1>3 DEF WDSignal, Quiet
  <2>2. WatchdogT'
    BY <1>1, <1>3 DEF WDSignal, Types, WatchdogT
  <2> QED
    BY <1>2, <2>1, <2>2
<1>4. CASE WDNext
  <2>1. Quiet /\ ready' = ready
    BY <1>4 DEF WDNext, Quiet
  <2>2. wd_at' \in 1..Len(p_pids)
    BY <1>1, <1>4 DEF WDNext, Types, WatchdogT, NextAt
  <2>3. WatchdogT'
    BY <1>4, <2>2 DEF WDNext, Types, WatchdogT, NewCount
  <2> QED
    BY <1>2, <2>1, <2>3
<1>5. CASE WDAlarm
  <2>1. Quiet /\ ready' = ready
    BY <1>5 DEF WDAlarm, Quiet
  <2>2. WatchdogT'
    BY <1>1, <1>5 DEF WDAlarm, Types, WatchdogT
  <2> QED
    BY <1>2, <2>1, <2>2
<1>6. CASE MasterWait
  <2>1. Quiet /\ ready' = ready
    BY <1>6 DEF MasterWait, Quiet
  <2>2. WatchdogT'
    BY <1>6 DEF MasterWait, Types, WatchdogT
  <2> QED
    BY <1>2, <2>1, <2>2
<1>7. CASE \E q \in Processes : Handler(q) /\ wd # "gone"
  <2>1. PICK q \in Processes : Handler(q) /\ wd # "gone"
    BY <1>7
  <2>2. Quiet /\ ready' = ready
    BY <2>1 DEF Handler, Quiet
  <2>3. WD_pid' \in BOOLEAN
    BY <2>1 DEF Handler
  <2>4. WatchdogT'
    BY <2>1, <2>3 DEF Handler, Types, WatchdogT
  <2> QED
    BY <1>2, <2>2, <2>4
<1>8. CASE WDKill /\ status[p_pids[wd_at]] \in Ended
  <2>1. Quiet /\ ready' = ready /\ pending' = pending
    BY <1>8 DEF WDKill, Quiet
  <2>2. wd_at' \in 1..Len(p_pids)
    BY <1>1, <1>8 DEF WDKill, Types, WatchdogT
  <2>3. WatchdogT'
    BY <1>8, <2>1, <2>2 DEF WDKill, Types, WatchdogT
  <2> QED
    BY <1>2, <2>1, <2>3
<1>9. CASE UNCHANGED vars
  <2>1. Quiet /\ ready' = ready
    BY <1>9 DEF vars, Quiet
  <2>2. WatchdogT'
    BY <1>9 DEF vars, wdVars, Types, WatchdogT
  <2> QED
    BY <1>2, <2>1, <2>2
<1>10. CASE \E q \in Processes : KonsoleCloses(q)
  <2>1. PICK q \in Processes : KonsoleCloses(q)
    BY <1>10
  <2>2. Quiet /\ ready' = ready
    BY <2>1 DEF KonsoleCloses, Quiet
  <2>3. WatchdogT'
    BY <2>1 DEF KonsoleCloses, wdVars, Types, WatchdogT
  <2> QED
    BY <1>2, <2>2, <2>3
<1> QED
  BY <1>3, <1>4, <1>5, <1>6, <1>7, <1>8, <1>9, <1>10

\* The end of main, of the sleep or of the wait for a key.
LEMMA ExitDoes ==
  ASSUME Types, NEW q \in Processes, Exit(q) \/ KeyAfterError(q)
  PROVE  /\ Types' /\ Alone(q) /\ pipe' = pipe /\ pc' = pc /\ open' = open \ EndsOf(q)
         /\ todo'[q] = <<>>
         /\ \/ status[q] = "leave" /\ todo[q] = <<>> /\ status'[q] = "done"
            \/ status[q] \in {"fail", "hang"} /\ status'[q] = "error"
<1>1. UNCHANGED <<pipe, pc, ready, wdVars, WD_pid, konsoles, left>>
  BY DEF Exit, KeyAfterError
<1>2. /\ "done" \in Ended /\ "error" \in Ended
      /\ \A how : End(q, how) => open' = open \ EndsOf(q)
  BY DEF Ended, End
<1>3. CASE status[q] = "leave" /\ todo[q] = <<>> /\ End(q, "done")
  BY <1>1, <1>2, <1>3, EndDoes
<1>4. CASE status[q] \in {"fail", "hang"} /\ End(q, "error")
  BY <1>1, <1>2, <1>4, EndDoes
<1> QED
  BY <1>3, <1>4 DEF Exit, KeyAfterError

\* The ends that nobody planned.
LEMMA LostDoes ==
  ASSUME Types,
         \/ \E q \in Processes : Crash(q)
         \/ \E q \in Processes : Handler(q) /\ wd = "gone"
         \/ WDKill /\ status[p_pids[wd_at]] \notin Ended
  PROVE  Types' /\ \E q \in Processes : Lost(q)'
<1>1. p_pids[wd_at] \in Processes /\ Len(p_pids) \in Nat /\ wd_at \in 1..Len(p_pids)
  BY p_pidsIs DEF Types, WatchdogT
<1>2. "killed" \in Ended /\ "died" \in Ended
  BY DEF Ended
<1>3. ASSUME NEW q \in Processes, Crash(q) PROVE Types' /\ Lost(q)'
  <2>1. /\ End(q, "killed") /\ UNCHANGED <<pipe, pc, ready>> /\ UNCHANGED <<wdVars, WD_pid>>
        /\ left["crash"] > 0 /\ left' = [left EXCEPT !["crash"] = @ - 1]
    BY <1>3 DEF Crash
  <2> QED
    BY <1>2, <2>1, EndDoes DEF Lost
<1>4. ASSUME NEW q \in Processes, Handler(q), wd = "gone" PROVE Types' /\ Lost(q)'
  <2>1. /\ End(q, "died") /\ UNCHANGED <<pipe, pc, ready>> /\ left' = left
        /\ wd' \in {"alive", "zombie", "gone"} /\ wd_at' \in 1..Len(p_pids)
        /\ WD_pid' \in BOOLEAN /\ UNCHANGED <<wd_pc, count>>
    BY <1>1, <1>4 DEF Handler
  <2> QED
    BY <1>2, <2>1, EndDoes DEF Lost
<1>5. ASSUME NEW q \in Processes, q = p_pids[wd_at], WDKill, status[q] \notin Ended
      PROVE  Types' /\ Lost(q)'
  <2>1. /\ End(q, "killed") /\ UNCHANGED <<pipe, pc, ready>> /\ left' = left
        /\ wd' \in {"alive", "zombie", "gone"} /\ UNCHANGED <<wd_pc, count>>
        /\ WD_pid' = WD_pid
        /\ \/ wd_at < Len(p_pids) /\ wd_at' = wd_at + 1
           \/ wd_at' = wd_at
    BY <1>5 DEF WDKill
  <2>2. wd_at' \in 1..Len(p_pids) /\ WD_pid' \in BOOLEAN
    BY <1>1, <2>1 DEF Types, WatchdogT
  <2>3. Types' /\ status'[q] = "killed"
    BY <1>2, <2>1, <2>2, EndDoes
  <2> QED
    BY <2>3 DEF Lost
<1> QED
  BY <1>1, <1>3, <1>4, <1>5

\* A step of the server that is not the service of a message.
Idles == Stays("server") /\ pipe' = pipe /\ Elements(todo'["server"]) = {}

\* What a step can be, when nobody is lost in it.
Planned ==
  \/ Quiet
  \/ \E q \in Processes : DoWrite(q) \/ DoClose(q) \/ Exit(q) \/ KeyAfterError(q)
  \/ KeyP \/ KeyOther \/ InputRead
  \/ \E x \in Peers : Stays(x) \/ Obeys(x)
  \/ Idles
  \/ \E p \in Pipes : ServerServe(p)

LEMMA StepIs ==
  ASSUME Types, [Next]_vars
  PROVE  Types' /\ (Planned \/ \E q \in Processes : Lost(q)')
<1>1. CASE \E q \in Processes : DoWrite(q) \/ DoClose(q) \/ Exit(q) \/ KeyAfterError(q)
  BY <1>1, WriteDoes, CloseDoes, ExitDoes DEF Planned
<1>2. CASE \/ WDSignal \/ WDNext \/ WDAlarm \/ WDKill \/ MasterWait
           \/ \E q \in Processes : Handler(q)
           \/ (\E q \in Processes : KonsoleCloses(q)) \/ UNCHANGED vars
  BY <1>2, SignalsDo, LostDoes DEF Planned
<1>3. CASE \E q \in Processes : Crash(q)
  BY <1>3, LostDoes
<1>4. CASE KeyP \/ KeyOther \/ InputRead
  BY <1>4, KeyPDoes, KeyOtherDoes, InputReadDoes DEF Planned
<1>5. CASE \E q \in {"server", "drone"} : SelectReturns(q) \/ PassOver(q)
  <2>1. PICK q \in {"server", "drone"} : SelectReturns(q) \/ PassOver(q)
    BY <1>5
  <2>2. /\ Types' /\ q \in Processes /\ Stays(q) /\ pipe' = pipe
        /\ q = "server" => Elements(todo'["server"]) = {}
    BY <2>1, SelectDoes, PassOverDoes
  <2>3. CASE q = "server"
    BY <2>2, <2>3 DEF Idles, Planned
  <2>4. CASE q = "drone"
    <3>1. "drone" \in Peers
      BY <2>2, <2>4 DEF Processes
    <3> QED
      BY <2>2, <2>4, <3>1 DEF Planned
  <2> QED
    BY <2>3, <2>4
<1>6. CASE Serve
  <2>1. CASE \E p \in Pipes : ServerServe(p)
    BY <2>1, ServerServeDoes DEF Planned
  <2>2. CASE \E p \in Pipes : DroneServe(p)
    BY <2>2, DroneServeDoes DEF Planned
  <2>3. CASE \E q \in {"server", "drone"} : \E p \in Pipes : ServeEof(q, p)
    <3>1. PICK q \in {"server", "drone"} : \E p \in Pipes : ServeEof(q, p)
      BY <2>3
    <3>2. /\ Types' /\ q \in Processes /\ Stays(q) /\ pipe' = pipe
          /\ Elements(todo'[q]) = {}
      BY <3>1, ServeEofDoes
    <3>3. CASE q = "server"
      BY <3>2, <3>3 DEF Idles, Planned
    <3>4. CASE q = "drone"
      <4>1. "drone" \in Peers
        BY <3>2, <3>4 DEF Processes
      <4> QED
        BY <3>2, <3>4, <4>1 DEF Planned
    <3> QED
      BY <3>3, <3>4
  <2> QED
    BY <1>6, <2>1, <2>2, <2>3 DEF Serve
<1>7. CASE MapSelect \/ TargetSend \/ TargetRead \/ ObstaclesSend \/ ObstaclesSelect
  BY <1>7, MapDoes, TargetDoes, ObstaclesDoes DEF Planned
<1> QED
  BY <1>1, <1>2, <1>3, <1>4, <1>5, <1>6, <1>7 DEF Next

LEMMA InitTypes == Init => Types
<1> SUFFICES ASSUME Init PROVE Types
  OBVIOUS
<1>1. PipeT
  <2>1. \A p \in Pipes : pipe[p] = <<>>
    BY DEF Init
  <2>2. pipe \in [Pipes -> Seq(Messages)]
    BY NoCalls DEF Init
  <2> QED
    BY <2>1, <2>2, NoCalls DEF PipeT
<1>2. TodoT /\ IdleT
  <2>1. \A q \in Processes : todo[q] = <<>>
    BY DEF Init
  <2>2. todo \in [Processes -> Seq(Calls)]
    BY NoCalls DEF Init
  <2> QED
    BY <2>1, <2>2, NoCalls DEF TodoT, IdleT
<1>3. RestT
  <2>1. pc \in [Processes -> {"getch", "reply", "select", "scan", "send", "read"}]
    BY DEF Init
  <2>2. status \in [Processes -> {"run", "leave", "fail", "hang"} \cup Ended]
    BY DEF Init
  <2>3. ready \in [{"server", "drone"} -> SUBSET Pipes]
    BY DEF Init
  <2> QED
    BY <2>1, <2>2, <2>3 DEF Init, RestT
<1>4. WatchdogT
  <2>0. Crashes \in Nat /\ Budget["map"] \in Nat /\ Budget["obstacles"] \in Nat
    BY BoundAssumption
  <2>1. left \in [{"map", "obstacles", "crash"} -> Nat]
    <3>1. left = [k \in {"map", "obstacles", "crash"} |->
                    IF k = "crash" THEN Crashes ELSE Budget[k]]
      BY DEF Init
    <3>2. left["map"] = Budget["map"] /\ left["obstacles"] = Budget["obstacles"]
          /\ left["crash"] = Crashes
      BY <3>1
    <3>3. left = [k \in {"map", "obstacles", "crash"} |-> left[k]]
      BY <3>1
    <3> QED
      BY <2>0, <3>2, <3>3
  <2>2. /\ pending = {} /\ wd = "alive" /\ wd_pc = "signal" /\ wd_at = 1 /\ count = 0
        /\ WD_pid = FALSE
    BY DEF Init
  <2>3. wd_at \in 1..Len(p_pids)
    BY <2>2, p_pidsIs
  <2> QED
    BY <2>1, <2>2, <2>3 DEF WatchdogT
<1> QED
  BY <1>1, <1>2, <1>3, <1>4 DEF Types

\* No konsole is started again.
LEMMA KonsolesOnlyClose ==
  ASSUME [Next]_vars
  PROVE  konsoles' \subseteq konsoles
<1>1. ASSUME NEW q \in Processes,
             DoWrite(q) \/ DoClose(q) \/ Exit(q) \/ Handler(q) \/ KeyAfterError(q) \/ Crash(q)
      PROVE  konsoles' = konsoles
  BY <1>1 DEF DoWrite, DoClose, Exit, Handler, KeyAfterError, Crash
<1>2. ASSUME KeyP \/ KeyOther \/ InputRead PROVE konsoles' = konsoles
  BY <1>2 DEF KeyP, KeyOther, InputRead
<1>3. ASSUME NEW q \in {"server", "drone"}, SelectReturns(q) \/ PassOver(q)
      PROVE  konsoles' = konsoles
  BY <1>3 DEF SelectReturns, PassOver
<1>4. ASSUME Serve PROVE konsoles' = konsoles
  BY <1>4 DEF Serve, ServerServe, DroneServe, ServeEof
<1>5. ASSUME MapSelect \/ TargetSend \/ TargetRead \/ ObstaclesSend \/ ObstaclesSelect
      PROVE  konsoles' = konsoles
  BY <1>5 DEF MapSelect, TargetSend, TargetRead, ObstaclesSend, ObstaclesSelect
<1>6. ASSUME WDSignal \/ WDNext \/ WDAlarm \/ MasterWait PROVE konsoles' = konsoles
  BY <1>6 DEF WDSignal, WDNext, WDAlarm, MasterWait
<1>7. ASSUME WDKill PROVE konsoles' \subseteq konsoles
  BY <1>7 DEF WDKill
<1>8. ASSUME NEW q \in Processes, KonsoleCloses(q) PROVE konsoles' \subseteq konsoles
  BY <1>8 DEF KonsoleCloses
<1>9. ASSUME UNCHANGED vars PROVE konsoles' = konsoles
  BY <1>9 DEF vars
<1> QED
  BY <1>1, <1>2, <1>3, <1>4, <1>5, <1>6, <1>7, <1>8, <1>9 DEF Next

\* Every variable has its type.  It takes Types, which knows more than TypeOK: each
\* pipe carries only the kinds of message that its writer sends, and each process
\* has only calls on its own pipe ends to make (master.c:52-62, server.c:97-178).
THEOREM ShutdownTypes == Spec => []TypeOK
<1> DEFINE KonsoleT == konsoles \subseteq {"input", "map"}
<1>1. Init => Types /\ KonsoleT
  BY InitTypes DEF Init
<1>2. Types /\ [Next]_vars => Types'
  BY StepIs
<1>3. KonsoleT /\ [Next]_vars => KonsoleT'
  BY KonsolesOnlyClose
<1>4. Types /\ KonsoleT => TypeOK
  BY DEF Types, PipeT, TodoT, RestT, WatchdogT, TypeOK
<1> QED
  BY <1>1, <1>2, <1>3, <1>4, PTL DEF Spec

----------------------------------------------------------------------------
(* As long as no process is lost: who is in his loop has all his ends open *)
(* and only writes to make, STOP is on its way to every peer that still    *)
(* runs, and between input and the server there is one request or one      *)
(* answer at a time.                                                       *)

Todo(q) == Elements(todo[q])
Msgs(p) == Elements(pipe[p])

Calm == \A q \in Processes : ~Lost(q)

\* A process that leaves has his last writes and then his closes before him,
\* each of an end that is open.
Orderly(q) ==
  /\ status[q] # "hang"
  /\ status[q] = "run" => EndsOf(q) \subseteq open /\ \A c \in Todo(q) : c.op = "write"
  /\ status[q] = "leave" =>
       /\ Parting(todo[q])
       /\ \A c \in Todo(q) : /\ c.op = "close" => EndOf(q, c.pipe) \in open
                             /\ c.op = "write" => EndsOf(q) \subseteq open

\* The drone closes the pipe of input when input has closed it, and then once more.
DroneReady ==
  "drone" \in Peers /\ status["drone"] = "run" =>
    /\ <<"w", "drone_server">> \in open /\ <<"r", "server_drone">> \in open
    /\ <<"w", "input_drone">> \in open => <<"r", "input_drone">> \in open
    /\ \A c \in Todo("drone") : c.op = "write"

\* The server fails nowhere; its writes are STOPs when it leaves and only then.
ServerLeads ==
  /\ status["server"] \in {"run", "leave", "done"}
  /\ status["server"] = "run" => \A c \in Todo("server") : c.msg # STOP
  /\ status["server"] = "leave" => \A c \in Todo("server") : c.op = "write" => c.msg = STOP

StopToCome(x) == status["server"] = "run" \/ Write(From[x], STOP) \in Todo("server")

\* A peer runs until STOP has come, and then until it has read it.
Told(x) ==
  /\ StopToCome(x) => status[x] = "run" /\ STOP \notin Msgs(From[x])
  /\ ~StopToCome(x) /\ status[x] = "run" => STOP \in Msgs(From[x])

\* Where the one request or its answer is.
ToAsk == AskU \in Todo("input")
Asked == "U" \in Msgs("input_server")
ToReply == Reply \in Todo("server")
Replied == pipe["server_input"] # <<>>

Once(m, s) == \A i, j \in 1..Len(s) : s[i] = m /\ s[j] = m => i = j

Exchange ==
  /\ status["input"] \in {"run", "leave", "done"}
  /\ status["input"] # "run" => \/ Write("input_server", STOP) \in Todo("input")
                                \/ STOP \in Msgs("input_server")
  /\ ToAsk \/ Asked \/ ToReply \/ Replied => status["input"] = "run" /\ pc["input"] = "reply"
  /\ ~(ToAsk /\ (Asked \/ ToReply \/ Replied))
  /\ ~(Asked /\ (ToReply \/ Replied)) /\ ~(ToReply /\ Replied)
  /\ Distinct(todo["input"])
  /\ Once("U", pipe["input_server"])
  /\ ToReply => Distinct(todo["server"]) /\ \A c \in Todo("server") : c = Reply
  /\ Len(pipe["server_input"]) <= 1

Request == status["server"] = "run" => Exchange

CalmInv ==
  /\ \A q \in Processes \ {"drone"} : Orderly(q)
  /\ DroneReady /\ ServerLeads /\ (\A x \in Peers : Told(x)) /\ Request

Inv == Types /\ (Calm => CalmInv)

\* A step and the process that takes it.
Moves(q) ==
  \/ DoWrite(q) \/ DoClose(q) \/ Exit(q) \/ KeyAfterError(q)
  \/ q = "input" /\ (KeyP \/ KeyOther \/ InputRead)
  \/ q \in Peers /\ (Stays(q) \/ Obeys(q))
  \/ q = "server" /\ (Idles \/ \E p \in Pipes : ServerServe(p))

LEMMA MoverIs ==
  ASSUME Types, Planned
  PROVE  Quiet \/ \E q \in Processes : Moves(q) /\ Turn(q)
<1>1. "input" \in Processes /\ "server" \in Processes /\ \A x \in Peers : x \in Processes
  BY DEF Processes
<1>2. ASSUME NEW q \in Processes, DoWrite(q) PROVE Turn(q)
  <2>1. PICK p \in Pipes :
             Writer[p] = q /\ (pipe' = pipe \/ \A r \in Pipes \ {p} : pipe'[r] = pipe[r])
    BY <1>2, WriteDoes
  <2>2. Alone(q) /\ pc' = pc
    BY <1>2, WriteDoes
  <2> QED
    BY <2>1, <2>2 DEF Turn
<1>3. ASSUME NEW q \in Processes, DoClose(q) PROVE Turn(q)
  BY <1>3, CloseDoes DEF Turn
<1>4. ASSUME NEW q \in Processes, Exit(q) \/ KeyAfterError(q) PROVE Turn(q)
  BY <1>4, ExitDoes DEF Turn
<1>5. KeyP \/ KeyOther \/ InputRead => Turn("input")
  BY KeyPDoes, KeyOtherDoes, InputReadDoes
<1>6. \A x \in Peers : Stays(x) \/ Obeys(x) => Turn(x)
  BY DEF Stays, Obeys
<1>7. Idles \/ (\E p \in Pipes : ServerServe(p)) => Turn("server")
  BY ServerServeDoes DEF Idles, Stays
<1> QED
  BY <1>1, <1>2, <1>3, <1>4, <1>5, <1>6, <1>7 DEF Planned, Moves

\* Who moves was not lost before.
LEMMA CalmBefore ==
  ASSUME Types, Planned, Calm'
  PROVE  Calm
<1>1. CASE Quiet
  BY <1>1 DEF Quiet, Calm, Lost
<1>2. ASSUME NEW q \in Processes, Moves(q), Turn(q) PROVE Calm
  <2>1. ~Lost(q)
    <3>1. CASE DoWrite(q) \/ DoClose(q) \/ Exit(q) \/ KeyAfterError(q)
      BY <3>1, WriteDoes, CloseDoes, ExitDoes DEF Lost
    <3>2. CASE q = "input" /\ (KeyP \/ KeyOther \/ InputRead)
      BY <3>2, KeyPDoes, KeyOtherDoes, InputReadDoes DEF AtRest, Lost
    <3>3. CASE q \in Peers /\ (Stays(q) \/ Obeys(q))
      BY <3>3 DEF Stays, Obeys, AtRest, Lost
    <3>4. CASE q = "server" /\ (Idles \/ \E p \in Pipes : ServerServe(p))
      BY <3>4, ServerServeDoes DEF Idles, Stays, AtRest, Lost
    <3> QED
      BY <1>2, <3>1, <3>2, <3>3, <3>4 DEF Moves
  <2> QED
    BY <1>2, <2>1 DEF Turn, Alone, Calm, Lost
<1> QED
  BY <1>1, <1>2, MoverIs

LEMMA EndsAre ==
  /\ \A q \in Processes : \A p \in Pipes : /\ <<"w", p>> \in EndsOf(q) <=> Writer[p] = q
                                           /\ <<"r", p>> \in EndsOf(q) <=> Reader[p] = q
  /\ \A q \in Processes : \A e \in EndsOf(q) : \E p \in Pipes : e \in {<<"w", p>>, <<"r", p>>}
  /\ \A q, r \in Processes : q # r => EndsOf(q) \cap EndsOf(r) = {}
<1>1. ASSUME NEW q \in Processes, NEW p \in Pipes
      PROVE  /\ <<"w", p>> \in EndsOf(q) <=> Writer[p] = q
             /\ <<"r", p>> \in EndsOf(q) <=> Reader[p] = q
  BY TwoEnds DEF EndsOf, EndOf
<1>2. ASSUME NEW q \in Processes, NEW e \in EndsOf(q)
      PROVE  \E p \in Pipes : e \in {<<"w", p>>, <<"r", p>>}
  BY DEF EndsOf, EndOf
<1>3. ASSUME NEW q \in Processes, NEW r \in Processes, q # r, NEW e \in EndsOf(q), e \in EndsOf(r)
      PROVE  FALSE
  <2>1. PICK p \in Pipes : e \in {<<"w", p>>, <<"r", p>>}
    BY <1>2
  <2>2. CASE e = <<"w", p>>
    <3>1. Writer[p] = q /\ Writer[p] = r
      BY <1>1, <1>3, <2>2
    <3> QED
      BY <1>3, <3>1
  <2>3. CASE e = <<"r", p>>
    <3>1. Reader[p] = q /\ Reader[p] = r
      BY <1>1, <1>3, <2>3
    <3> QED
      BY <1>3, <3>1
  <2> QED
    BY <2>1, <2>2, <2>3
<1> QED
  BY <1>1, <1>2, <1>3

LEMMA TodoIs ==
  ASSUME Types, NEW q \in Processes, NEW c \in Todo(q)
  PROVE  /\ c \in LegalCalls(q) /\ c.pipe \in Pipes /\ c.op \in {"write", "close"}
         /\ status[q] \in {"run", "leave"}
         /\ c.op = "write" => /\ Writer[c.pipe] = q /\ c.msg \in Carried(c.pipe)
                              /\ c = Write(c.pipe, c.msg)
         /\ c.op = "close" => /\ q \in {Writer[c.pipe], Reader[c.pipe]} /\ c = Close(c.pipe)
                              /\ EndOf(q, c.pipe) \in EndsOf(q)
<1>1. todo[q] \in Seq(LegalCalls(q)) /\ (status[q] \notin {"run", "leave"} => todo[q] = <<>>)
  BY DEF Types, TodoT, IdleT
<1>2. c \in LegalCalls(q)
  BY <1>1, LegalSeq DEF Todo
<1>3. status[q] \in {"run", "leave"}
  BY <1>1, NoCalls DEF Todo
<1> QED
  BY <1>2, <1>3, CallIs, EndOfIs

\* What another process does leaves a process in order.
LEMMA OthersOrderly ==
  ASSUME Types, NEW q \in Processes, NEW r \in Processes, q # r, Turn(q), Orderly(r)
  PROVE  Orderly(r)'
<1>1. status'[r] = status[r] /\ todo'[r] = todo[r] /\ Todo(r)' = Todo(r)
  BY DEF Turn, Alone, Todo
<1>2. \A e \in EndsOf(r) : e \in open => e \in open'
  BY EndsAre DEF Turn, Alone
<1>3. EndsOf(r) \subseteq open => EndsOf(r) \subseteq open'
  BY <1>2
<1>4. \A c \in Todo(r) : c.op = "close" => EndOf(r, c.pipe) \in EndsOf(r)
  BY TodoIs
<1> QED
  BY <1>1, <1>2, <1>3, <1>4 DEF Orderly

LEMMA FreshOrder ==
  ASSUME Types', NEW q \in Processes, EndsOf(q) \subseteq open, open' = open,
         \/ status'[q] = "run" /\ \A c \in Elements(todo'[q]) : c.op = "write"
         \/ status'[q] = "leave" /\ Parting(todo'[q])
         \/ status'[q] \in {"fail", "done", "error"}
  PROVE  Orderly(q)'
<1>1. \A c \in Todo(q)' : c.op = "close" => EndOf(q, c.pipe) \in EndsOf(q)
  <2>1. ASSUME NEW c \in Elements(todo'[q]), c.op = "close" PROVE EndOf(q, c.pipe) \in EndsOf(q)
    <3>1. todo'[q] \in Seq(LegalCalls(q))
      BY DEF Types, TodoT
    <3>2. c \in LegalCalls(q)
      BY <3>1, LegalSeq
    <3> QED
      BY <2>1, <3>2, CallIs, EndOfIs
  <2> QED
    BY <2>1 DEF Todo
<1> QED
  BY <1>1 DEF Orderly, Todo

\* The calls of a process in order do what they are meant to.
LEMMA CallsOrderly ==
  ASSUME Types, NEW q \in Processes, Orderly(q), DoWrite(q) \/ DoClose(q)
  PROVE  Orderly(q)'
<1>1. /\ todo[q] \in Seq(LegalCalls(q)) /\ todo[q] # <<>> /\ status[q] \in {"run", "leave"}
  BY WriteDoes, CloseDoes DEF Types, TodoT
<1> DEFINE h == Head(todo[q])
           t == Tail(todo[q])
<1>2. /\ h \in Todo(q) /\ Todo(q) = {h} \cup Elements(t)
      /\ Distinct(todo[q]) => Distinct(t) /\ h \notin Elements(t)
      /\ ClosesLast(todo[q]) => /\ ClosesLast(t)
                                /\ h.op = "close" => \A c \in Elements(t) : c.op = "close"
  BY <1>1, TailIs DEF Todo
<1> HIDE DEF h, t
<1>3. ASSUME todo'[q] = t, status'[q] = status[q], open' = open PROVE Orderly(q)'
  BY <1>1, <1>2, <1>3 DEF Orderly, Parting, Todo
<1>4. CASE DoWrite(q)
  <2>1. open' = open /\ \/ todo'[q] = t /\ status'[q] = status[q]
                        \/ todo'[q] = <<>> /\ status'[q] = "fail"
    BY <1>4, WriteDoes DEF t
  <2> QED
    BY <1>3, <2>1 DEF Orderly
<1>5. CASE DoClose(q)
  <2>1. PICK p \in Pipes :
              /\ q \in {Writer[p], Reader[p]} /\ h = Close(p)
              /\ \/ /\ EndOf(q, p) \in open /\ open' = open \ {EndOf(q, p)}
                    /\ todo'[q] = t /\ status'[q] = status[q]
                 \/ /\ EndOf(q, p) \notin open /\ open' = open
                    /\ status'[q] = "hang" /\ todo'[q] = <<>>
    BY <1>5, CloseDoes DEF h, t
  <2>2. h.op = "close" /\ h.pipe = p
    BY <2>1, CloseIs
  <2>3. status[q] = "leave" /\ EndOf(q, p) \in open
    BY <1>1, <1>2, <2>2 DEF Orderly
  <2>4. open' = open \ {EndOf(q, p)} /\ todo'[q] = t /\ status'[q] = "leave"
    BY <2>1, <2>3
  <2>5. Distinct(t) /\ ClosesLast(t) /\ h \notin Elements(t)
        /\ \A c \in Elements(t) : c.op = "close"
    BY <1>2, <2>2, <2>3 DEF Orderly, Parting
  <2>6. ASSUME NEW c \in Elements(t) PROVE EndOf(q, c.pipe) \in open'
    <3>1. c \in Todo(q) /\ c.op = "close" /\ EndOf(q, c.pipe) \in open
      BY <1>2, <2>3, <2>5 DEF Orderly
    <3>2. c = Close(c.pipe)
      BY <3>1, TodoIs
    <3>3. c.pipe # p
      BY <2>1, <2>5, <3>2
    <3>4. EndOf(q, c.pipe) # EndOf(q, p)
      BY <3>3 DEF EndOf
    <3> QED
      BY <2>4, <3>1, <3>4
  <2> QED
    BY <2>4, <2>5, <2>6 DEF Orderly, Parting, Todo
<1> QED
  BY <1>4, <1>5

\* Who runs can be written to and read from.
LEMMA PeersOpen ==
  ASSUME Inv, Calm, NEW x \in Peers, status[x] = "run"
  PROVE  HasReader(From[x]) /\ \A p \in Pipes : Writer[p] = x => <<"w", p>> \in open
<1>1. CASE x = "drone"
  <2>1. <<"w", "drone_server">> \in open /\ <<"r", "server_drone">> \in open
    BY <1>1 DEF Inv, CalmInv, DroneReady
  <2>2. \A p \in Pipes : Writer[p] = "drone" => p = "drone_server"
    BY PipeTable DEF AllPipes
  <2> QED
    BY <1>1, <2>1, <2>2, FromIs DEF HasReader
<1>2. CASE x # "drone"
  <2>1. x \in Processes /\ Reader[From[x]] = x /\ From[x] \in Pipes
    BY FromIs
  <2>2. EndsOf(x) \subseteq open
    BY <1>2, <2>1 DEF Inv, CalmInv, Orderly
  <2> QED
    BY <2>1, <2>2, EndsAre DEF HasReader
<1> QED
  BY <1>1, <1>2

\* As long as a STOP is to come the server has all its ends open.
LEMMA ServerOpen ==
  ASSUME Inv, Calm, status["server"] = "run" \/ \E c \in Todo("server") : c.op = "write"
  PROVE  /\ EndsOf("server") \subseteq open
         /\ \A p \in Pipes : /\ Writer[p] = "server" => <<"w", p>> \in open
                             /\ Reader[p] = "server" => <<"r", p>> \in open
<1>1. "server" \in Processes /\ "server" # "drone"
  BY DEF Processes
<1>2. Orderly("server") /\ Types
  BY <1>1 DEF Inv, CalmInv
<1>3. EndsOf("server") \subseteq open
  <2>1. \A c \in Todo("server") : status["server"] \in {"run", "leave"}
    BY <1>1, <1>2, TodoIs
  <2> QED
    BY <1>2, <2>1 DEF Orderly
<1> QED
  BY <1>1, <1>3, EndsAre

LEMMA InputOpen ==
  ASSUME Inv, Calm, status["input"] = "run" \/ \E c \in Todo("input") : c.op = "write"
  PROVE  /\ EndsOf("input") \subseteq open
         /\ \A p \in Pipes : /\ Writer[p] = "input" => <<"w", p>> \in open
                             /\ Reader[p] = "input" => <<"r", p>> \in open
<1>1. "input" \in Processes /\ "input" # "drone"
  BY DEF Processes
<1>2. Orderly("input") /\ Types
  BY <1>1 DEF Inv, CalmInv
<1>3. EndsOf("input") \subseteq open
  <2>1. \A c \in Todo("input") : status["input"] \in {"run", "leave"}
    BY <1>1, <1>2, TodoIs
  <2> QED
    BY <1>2, <2>1 DEF Orderly
<1> QED
  BY <1>1, <1>3, EndsAre

LEMMA StopToComeIs ==
  ASSUME NEW x \in Peers, StopToCome(x)
  PROVE  status["server"] = "run" \/ \E c \in Todo("server") : c.op = "write"
BY WriteIs DEF StopToCome

\* No process of which one still runs sees end of file, but for the drone on
\* the pipe of input.
LEMMA NoEof ==
  ASSUME Inv, Calm
  PROVE  /\ \A x \in Peers : status[x] = "run" => ~Eof(From[x])
         /\ status["server"] = "run" =>
              \A p \in Pipes : "server" \in {Writer[p], Reader[p]} => ~Eof(p)
<1>1. ASSUME NEW x \in Peers, status[x] = "run" PROVE ~Eof(From[x])
  <2>1. From[x] \in Pipes /\ Writer[From[x]] = "server"
    BY FromIs
  <2>2. CASE StopToCome(x)
    <3>1. <<"w", From[x]>> \in open
      BY <2>1, <2>2, StopToComeIs, ServerOpen
    <3> QED
      BY <3>1 DEF Eof
  <2>3. CASE ~StopToCome(x)
    <3>1. STOP \in Msgs(From[x])
      BY <1>1, <2>3 DEF Inv, CalmInv, Told
    <3> QED
      BY <3>1, NoCalls DEF Eof, Msgs
  <2> QED
    BY <2>2, <2>3
<1>2. ASSUME status["server"] = "run", NEW p \in Pipes, Writer[p] = "server" PROVE ~Eof(p)
  BY <1>2, ServerOpen DEF Eof
<1>3. ASSUME status["server"] = "run", NEW p \in Pipes, Reader[p] = "server" PROVE ~Eof(p)
  <2>1. CASE Writer[p] = "input"
    <3>1. p = "input_server"
      BY <1>3, <2>1, PipeTable DEF AllPipes
    <3>2. CASE status["input"] = "run"
      BY <2>1, <3>2, InputOpen DEF Eof
    <3>3. CASE Write("input_server", STOP) \in Todo("input")
      <4>1. \E c \in Todo("input") : c.op = "write"
        BY <3>3, WriteIs
      <4> QED
        BY <2>1, <4>1, InputOpen DEF Eof
    <3>4. CASE STOP \in Msgs("input_server")
      BY <3>1, <3>4, NoCalls DEF Eof, Msgs
    <3> QED
      BY <1>3, <3>2, <3>3, <3>4 DEF Inv, CalmInv, Request, Exchange
  <2>2. CASE Writer[p] # "input"
    <3>1. Writer[p] \in Peers
      BY <1>3, <2>2, TwoEnds DEF Processes
    <3>2. status[Writer[p]] = "run"
      BY <1>3, <3>1 DEF Inv, CalmInv, Told, StopToCome
    <3> QED
      BY <3>1, <3>2, PeersOpen DEF Eof
  <2> QED
    BY <2>1, <2>2
<1> QED
  BY <1>1, <1>2, <1>3

\* No write fails that the end by STOP depends on.
LEMMA WriteHeard ==
  ASSUME Inv, Calm, NEW p \in Pipes, NEW m \in Carried(p)
  PROVE  /\ Write(p, m) \in Todo("server") => HasReader(p)
         /\ status["server"] = "run" /\ Write(p, m) \in Todo("input") => HasReader(p)
         /\ \A x \in Peers : StopToCome(x) /\ Writer[p] = x => HasReader(p)
<1>0. /\ Types /\ "server" \in Processes /\ "input" \in Processes
      /\ Write(p, m).op = "write" /\ Write(p, m).msg = m /\ Write(p, m).pipe = p
  BY WriteIs DEF Inv, Processes
<1>1. ASSUME Write(p, m) \in Todo("server") PROVE HasReader(p)
  <2>1. status["server"] \in {"run", "leave"} /\ Writer[p] = "server"
    BY <1>0, <1>1, TodoIs
  <2>2. CASE p = "server_input"
    <3>1. m = "reply" /\ m # STOP
      BY <2>2 DEF Carried, STOP
    <3>2. status["server"] = "run"
      BY <1>0, <1>1, <2>1, <3>1 DEF Inv, CalmInv, ServerLeads
    <3>3. ToReply
      BY <1>1, <2>2, <3>1 DEF ToReply, Reply
    <3>4. status["input"] = "run"
      BY <3>2, <3>3 DEF Inv, CalmInv, Request, Exchange
    <3> QED
      BY <2>2, <3>4, InputOpen, PipeTable DEF HasReader
  <2>3. ASSUME NEW x \in Peers, p = From[x] PROVE HasReader(p)
    <3>1. StopToCome(x)
      BY <1>0, <1>1, <2>1, <2>3 DEF Inv, CalmInv, ServerLeads, StopToCome
    <3>2. status[x] = "run"
      BY <3>1 DEF Inv, CalmInv, Told
    <3> QED
      BY <2>3, <3>2, PeersOpen
  <2> QED
    BY <2>1, <2>2, <2>3, FromIs
<1>2. ASSUME status["server"] = "run", Write(p, m) \in Todo("input") PROVE HasReader(p)
  <2>1. Writer[p] = "input" /\ \E c \in Todo("input") : c.op = "write"
    BY <1>0, <1>2, TodoIs
  <2>2. CASE p = "input_server"
    BY <1>2, <2>2, ServerOpen, PipeTable DEF HasReader
  <2>3. CASE p = "input_drone"
    <3>1. "drone" \in Peers
      BY <2>3, PipesThere
    <3>2. status["drone"] = "run"
      BY <1>2, <3>1 DEF Inv, CalmInv, Told, StopToCome
    <3>3. <<"w", "input_drone">> \in open
      BY <2>1, <2>3, InputOpen
    <3> QED
      BY <2>3, <3>1, <3>2, <3>3 DEF Inv, CalmInv, DroneReady, HasReader
  <2>4. p \in {"input_server", "input_drone"}
    BY <2>1, PipeTable DEF AllPipes
  <2> QED
    BY <2>2, <2>3, <2>4
<1>3. ASSUME NEW x \in Peers, StopToCome(x), Writer[p] = x PROVE HasReader(p)
  <2>1. x \in AllPeers
    BY FromIs
  <2>2. Reader[p] = "server"
    BY <1>3, <2>1, PipeTable DEF AllPipes, AllPeers
  <2> QED
    BY <1>3, <2>2, StopToComeIs, ServerOpen DEF HasReader
<1> QED
  BY <1>1, <1>2, <1>3

\* A peer reads what the server writes to it, the drone also what input does.
LEMMA PeerReads ==
  ASSUME NEW x \in Peers, NEW p \in Pipes, Reader[p] = x
  PROVE  p = From[x] \/ (x = "drone" /\ p = "input_drone")
<1>1. x \in AllPeers
  BY FromIs
<1> QED
  BY <1>1, FromIs, PipeTable DEF AllPeers, AllPipes

\* In its loop a process closes no end but the drone that of input.
LEMMA StaysOpen ==
  ASSUME Inv, Calm, NEW q \in Peers \cup {"server"}, Stays(q)
  PROVE  \/ open' = open
         \/ q = "drone" /\ Eof("input_drone") /\ open' = open \ {<<"r", "input_drone">>}
<1>1. status[q] = "run"
  BY DEF Stays, AtRest
<1>2. ASSUME NEW p \in Pipes, Reader[p] = q, Eof(p), open' = open \ {<<"r", p>>}
      PROVE  q = "drone" /\ p = "input_drone"
  <2>1. CASE q = "server"
    BY <1>1, <1>2, <2>1, NoEof
  <2>2. CASE q \in Peers
    BY <1>1, <1>2, <2>2, NoEof, PeerReads
  <2> QED
    BY <2>1, <2>2
<1> QED
  BY <1>2 DEF Stays

LEMMA OrderlyKept ==
  ASSUME Inv, Calm, Types', Planned, NEW r \in Processes \ {"drone"}
  PROVE  Orderly(r)'
<1>0. Types /\ Orderly(r)
  BY DEF Inv, CalmInv
<1>1. CASE Quiet
  BY <1>0, <1>1 DEF Quiet, Orderly, Todo
<1>2. ASSUME NEW q \in Processes, Moves(q), Turn(q), q # r PROVE Orderly(r)'
  BY <1>0, <1>2, OthersOrderly
<1>3. ASSUME Moves(r) PROVE Orderly(r)'
  <2>0. AtRest(r) => EndsOf(r) \subseteq open
    BY <1>0 DEF AtRest, Orderly
  <2>1. CASE DoWrite(r) \/ DoClose(r)
    BY <1>0, <2>1, CallsOrderly
  <2>2. CASE Exit(r) \/ KeyAfterError(r)
    <3>1. status'[r] \in {"done", "error"}
      BY <1>0, <2>2, ExitDoes
    <3> QED
      BY <3>1 DEF Orderly
  <2>3. CASE r = "input" /\ KeyP
    BY <1>0, <2>0, <2>3, KeyPDoes, FreshOrder
  <2>4. CASE r = "input" /\ KeyOther
    BY <1>0, <2>0, <2>4, KeyOtherDoes, FreshOrder
  <2>5. CASE r = "input" /\ InputRead
    BY <1>0, <2>0, <2>5, InputReadDoes, FreshOrder, NoCalls
  <2>6. CASE r \in Peers \cup {"server"} /\ Stays(r)
    <3>1. open' = open
      BY <2>6, StaysOpen
    <3>2. AtRest(r) /\ status'[r] = "run" /\ \A c \in Elements(todo'[r]) : c.op = "write"
      BY <2>6 DEF Stays
    <3> QED
      BY <2>0, <3>1, <3>2, FreshOrder
  <2>7. CASE r \in Peers /\ Obeys(r)
    <3>1. AtRest(r) /\ status'[r] = "leave" /\ open' = open /\ Parting(todo'[r])
      BY <2>7 DEF Obeys
    <3> QED
      BY <2>0, <3>1, FreshOrder
  <2>8. CASE r = "server" /\ \E p \in Pipes : ServerServe(p)
    <3>1. /\ AtRest("server") /\ open' = open
          /\ Stays("server") \/ (status'["server"] = "leave" /\ Parting(todo'["server"]))
      BY <1>0, <2>8, ServerServeDoes
    <3> QED
      BY <2>0, <2>6, <2>8, <3>1, FreshOrder
  <2> QED
    BY <1>3, <2>1, <2>2, <2>3, <2>4, <2>5, <2>6, <2>7, <2>8 DEF Moves, Idles
<1> QED
  BY <1>0, <1>1, <1>2, <1>3, MoverIs

LEMMA DroneReadyKept ==
  ASSUME Inv, Calm, Types', Planned
  PROVE  DroneReady'
<1> SUFFICES ASSUME "drone" \in Peers, status'["drone"] = "run"
             PROVE  /\ <<"w", "drone_server">> \in open' /\ <<"r", "server_drone">> \in open'
                    /\ <<"w", "input_drone">> \in open' => <<"r", "input_drone">> \in open'
                    /\ \A c \in Elements(todo'["drone"]) : c.op = "write"
  BY DEF DroneReady, Todo
<1>0. Types /\ "drone" \in Processes
  BY DEF Inv, Processes
<1>1. ASSUME Quiet PROVE DroneReady'
  BY <1>1 DEF Quiet, Inv, CalmInv, DroneReady, Todo
<1>2. ASSUME NEW q \in Processes, Turn(q), q # "drone"
      PROVE  DroneReady'
  <2>1. status["drone"] = "run" /\ todo'["drone"] = todo["drone"]
    BY <1>0, <1>2 DEF Turn, Alone
  <2>2. \A e \in EndsOf("drone") : e \in open => e \in open'
    BY <1>0, <1>2, EndsAre DEF Turn, Alone
  <2>3. /\ <<"w", "drone_server">> \in EndsOf("drone") /\ <<"r", "server_drone">> \in EndsOf("drone")
        /\ <<"r", "input_drone">> \in EndsOf("drone")
    BY <1>0, PipesThere, PipeTable, EndsAre
  <2>4. open' \subseteq open
    BY <1>2 DEF Turn, Alone
  <2> QED
    BY <2>1, <2>2, <2>3, <2>4 DEF Inv, CalmInv, DroneReady, Todo
<1>3. ASSUME Moves("drone") PROVE DroneReady'
  <2>1. CASE DoWrite("drone")
    <3>1. /\ open' = open /\ todo["drone"] # <<>> /\ status["drone"] = "run"
          /\ todo'["drone"] = Tail(todo["drone"])
      BY <1>0, <2>1, WriteDoes
    <3>2. Elements(Tail(todo["drone"])) \subseteq Todo("drone")
      BY <1>0, <3>1, TailIs DEF Types, TodoT, Todo
    <3> QED
      BY <3>1, <3>2 DEF Inv, CalmInv, DroneReady, Todo
  <2>2. CASE DoClose("drone")
    <3>1. /\ todo["drone"] # <<>> /\ status["drone"] = "run"
          /\ \E p \in Pipes : Head(todo["drone"]) = Close(p)
      BY <1>0, <2>2, CloseDoes
    <3>2. Head(todo["drone"]) \in Todo("drone")
      BY <1>0, <3>1, TailIs DEF Types, TodoT, Todo
    <3> QED
      BY <3>1, <3>2, CloseIs DEF Inv, CalmInv, DroneReady
  <2>3. CASE Exit("drone") \/ KeyAfterError("drone")
    BY <1>0, <2>3, ExitDoes
  <2>4. CASE Stays("drone")
    <3>1. /\ \/ open' = open
             \/ Eof("input_drone") /\ open' = open \ {<<"r", "input_drone">>}
          /\ status["drone"] = "run" /\ \A c \in Elements(todo'["drone"]) : c.op = "write"
      BY <2>4, StaysOpen DEF Stays, AtRest
    <3> QED
      BY <3>1 DEF Inv, CalmInv, DroneReady, Todo, Eof
  <2>5. CASE Obeys("drone")
    BY <2>5 DEF Obeys
  <2> QED
    BY <1>3, <2>1, <2>2, <2>3, <2>4, <2>5 DEF Moves
<1>4. DroneReady'
  BY <1>0, <1>1, <1>2, <1>3, MoverIs
<1> QED
  BY <1>4 DEF DroneReady, Todo

\* The first of the calls is made.
LEMMA FirstCall ==
  ASSUME Types, NEW q \in Processes, DoWrite(q) \/ DoClose(q)
  PROVE  /\ Head(todo[q]) \in Todo(q) /\ Todo(q) = {Head(todo[q])} \cup Elements(Tail(todo[q]))
         /\ Distinct(todo[q]) => /\ Distinct(Tail(todo[q]))
                                 /\ Head(todo[q]) \notin Elements(Tail(todo[q]))
<1>1. todo[q] # <<>> /\ todo[q] \in Seq(LegalCalls(q))
  BY WriteDoes, CloseDoes DEF Types, TodoT
<1> QED
  BY <1>1, TailIs DEF Todo

\* What the server does with its calls.
LEMMA ServerCalls ==
  ASSUME Inv, Calm, Types', Planned, DoWrite("server") \/ DoClose("server")
  PROVE  /\ status'["server"] = status["server"]
         /\ todo'["server"] = Tail(todo["server"])
         /\ \/ \E p \in Pipes : \E m \in Carried(p) :
                 /\ Writer[p] = "server" /\ Head(todo["server"]) = Write(p, m)
                 /\ pipe'[p] = Append(pipe[p], m)
                 /\ \A r \in Pipes \ {p} : pipe'[r] = pipe[r]
            \/ status["server"] = "leave" /\ pipe' = pipe /\ Head(todo["server"]).op = "close"
<1>0. Types /\ "server" \in Processes \ {"drone"}
  BY DEF Inv, Processes
<1>1. CASE DoWrite("server")
  <2> DEFINE Made(p, m) ==
               /\ Writer[p] = "server" /\ Head(todo["server"]) = Write(p, m)
               /\ \/ /\ HasReader(p) /\ pipe'[p] = Append(pipe[p], m)
                     /\ \A r \in Pipes \ {p} : pipe'[r] = pipe[r]
                     /\ todo'["server"] = Tail(todo["server"])
                     /\ status'["server"] = status["server"]
                  \/ ~HasReader(p)
  <2>0. PICK p \in Pipes : \E m \in Carried(p) : Made(p, m)
    BY <1>0, <1>1, WriteDoes
  <2>1. PICK m \in Carried(p) : Made(p, m)
    BY <2>0
  <2>2. HasReader(p)
    BY <1>0, <1>1, <2>1, FirstCall, WriteHeard
  <2> QED
    BY <2>1, <2>2
<1>2. CASE DoClose("server")
  <2>1. Orderly("server")'
    BY <1>0, OrderlyKept
  <2>2. status'["server"] # "hang"
    BY <2>1 DEF Orderly
  <2>3. PICK p \in Pipes : /\ Head(todo["server"]) = Close(p)
                           /\ todo'["server"] = Tail(todo["server"])
                           /\ status'["server"] = status["server"]
    BY <1>0, <1>2, <2>2, CloseDoes
  <2>4. Head(todo["server"]).op = "close"
    BY <2>3, CloseIs
  <2>5. pipe' = pipe /\ status["server"] \in {"run", "leave"}
    BY <1>0, <1>2, CloseDoes
  <2>6. status["server"] # "run"
    BY <1>0, <1>2, <2>4, FirstCall DEF Inv, CalmInv, Orderly
  <2> QED
    BY <2>3, <2>4, <2>5, <2>6
<1> QED
  BY <1>1, <1>2

LEMMA ServerLeadsKept ==
  ASSUME Inv, Calm, Types', Planned
  PROVE  ServerLeads'
<1>0. Types /\ ServerLeads /\ "server" \in Processes
  BY DEF Inv, CalmInv, Processes
<1>1. CASE Quiet
  BY <1>0, <1>1 DEF Quiet, ServerLeads, Todo
<1>2. ASSUME NEW q \in Processes, Turn(q), q # "server" PROVE ServerLeads'
  BY <1>0, <1>2 DEF Turn, Alone, ServerLeads, Todo
<1>3. ASSUME Moves("server") PROVE ServerLeads'
  <2>1. CASE DoWrite("server") \/ DoClose("server")
    <3>1. /\ status'["server"] = status["server"] /\ Elements(todo'["server"]) \subseteq Todo("server")
      BY <1>0, <2>1, ServerCalls, FirstCall
    <3> QED
      BY <1>0, <3>1 DEF ServerLeads, Todo
  <2>2. CASE Exit("server") \/ KeyAfterError("server")
    BY <1>0, <2>2, ExitDoes DEF ServerLeads
  <2>3. CASE Stays("server")
    BY <2>3 DEF Stays, ServerLeads, Todo
  <2>4. CASE \E p \in Pipes : ServerServe(p)
    BY <1>0, <2>3, <2>4, ServerServeDoes DEF ServerLeads, Todo
  <2>5. "server" \notin Peers
    BY FromIs
  <2> QED
    BY <1>3, <2>1, <2>2, <2>3, <2>4, <2>5 DEF Moves, Idles
<1> QED
  BY <1>0, <1>1, <1>2, <1>3, MoverIs

\* What is left of a pipe of which a message is taken or to which one is added.
LEMMA MsgsAre ==
  ASSUME Types, NEW p \in Pipes
  PROVE  /\ \A m \in Carried(p) : pipe'[p] = Append(pipe[p], m) => Msgs(p)' = Msgs(p) \cup {m}
         /\ pipe[p] # <<>> /\ pipe'[p] = Tail(pipe[p]) => Msgs(p) = {Head(pipe[p])} \cup Msgs(p)'
         /\ pipe'[p] = pipe[p] => Msgs(p)' = Msgs(p)
<1>1. pipe[p] \in Seq(Carried(p))
  BY DEF Types, PipeT
<1>2. ASSUME NEW m \in Carried(p), pipe'[p] = Append(pipe[p], m)
      PROVE  Msgs(p)' = Msgs(p) \cup {m}
  BY <1>1, <1>2, AppendIs DEF Msgs
<1>3. ASSUME pipe[p] # <<>>, pipe'[p] = Tail(pipe[p])
      PROVE  Msgs(p) = {Head(pipe[p])} \cup Msgs(p)'
  BY <1>1, <1>3, TailIs DEF Msgs
<1>4. pipe'[p] = pipe[p] => Msgs(p)' = Msgs(p)
  BY DEF Msgs
<1> QED
  BY <1>2, <1>3, <1>4

LEMMA ToldSame ==
  ASSUME NEW x \in Peers, Told(x), StopToCome(x)' <=> StopToCome(x),
         \/ status'[x] = status[x] /\ (STOP \in Msgs(From[x])' <=> STOP \in Msgs(From[x]))
         \/ ~StopToCome(x) /\ status'[x] # "run"
  PROVE  Told(x)'
BY DEF Told

\* A peer in its loop has no end to close.
LEMMA PeerRuns ==
  ASSUME Inv, Calm, NEW x \in Peers, status[x] = "run", NEW c \in Todo(x)
  PROVE  c.op = "write"
<1>1. x \in Processes
  BY FromIs
<1> QED
  BY <1>1 DEF Inv, CalmInv, Orderly, DroneReady

LEMMA ToldByPeer ==
  ASSUME Inv, Calm, NEW x \in Peers, Moves(x), Turn(x)
  PROVE  Told(x)'
<1>0. /\ Types /\ Told(x) /\ x \in Processes /\ x # "server" /\ x # "input"
      /\ From[x] \in Pipes /\ Writer[From[x]] = "server" /\ Reader[From[x]] = x
  BY FromIs DEF Inv, CalmInv
<1>1. StopToCome(x)' <=> StopToCome(x)
  <2>1. "server" \in Processes
    BY DEF Processes
  <2>2. status'["server"] = status["server"] /\ todo'["server"] = todo["server"]
    BY <1>0, <2>1 DEF Turn, Alone
  <2> QED
    BY <2>2 DEF StopToCome, Todo
<1>2. StopToCome(x) => status[x] = "run" /\ STOP \notin Msgs(From[x])
  BY <1>0 DEF Told
<1>3. CASE DoWrite(x)
  <2> DEFINE Made(p, m) ==
               /\ Writer[p] = x
               /\ \/ /\ \A r \in Pipes \ {p} : pipe'[r] = pipe[r]
                     /\ status'[x] = status[x]
                  \/ ~HasReader(p) /\ status'[x] = "fail"
  <2>1. PICK p \in Pipes : \E m \in Carried(p) : Made(p, m)
    BY <1>0, <1>3, WriteDoes
  <2>2. PICK m \in Carried(p) : Made(p, m)
    BY <2>1
  <2>3. From[x] # p
    BY <1>0, <2>2
  <2>4. CASE pipe'[From[x]] = pipe[From[x]] /\ status'[x] = status[x]
    BY <1>0, <1>1, <2>4, MsgsAre, ToldSame
  <2>5. CASE ~HasReader(p) /\ status'[x] = "fail"
    <3>1. ~StopToCome(x)
      BY <2>2, <2>5, WriteHeard
    <3> QED
      BY <1>0, <1>1, <2>5, <3>1, ToldSame
  <2> QED
    BY <1>0, <2>2, <2>3, <2>4, <2>5
<1>4. CASE DoClose(x)
  <2>1. status[x] # "run"
    <3>1. PICK p \in Pipes : Head(todo[x]) = Close(p)
      BY <1>0, <1>4, CloseDoes
    <3> QED
      BY <1>0, <1>4, <3>1, CloseIs, FirstCall, PeerRuns
  <2>2. status'[x] = status[x] \/ status'[x] = "hang"
    BY <1>0, <1>4, CloseDoes
  <2> QED
    BY <1>0, <1>1, <1>2, <2>1, <2>2, ToldSame
<1>5. CASE Exit(x) \/ KeyAfterError(x)
  <2>1. status[x] # "run" /\ status'[x] # "run"
    BY <1>0, <1>5, ExitDoes
  <2> QED
    BY <1>0, <1>1, <1>2, <2>1, ToldSame
<1>6. CASE Stays(x)
  <2>1. status'[x] = status[x]
    BY <1>6 DEF Stays, AtRest
  <2>2. STOP \in Msgs(From[x])' <=> STOP \in Msgs(From[x])
    <3>1. CASE pipe' = pipe
      BY <1>0, <3>1, MsgsAre
    <3>2. CASE \E p \in Pipes : Took(x, p) /\ Head(pipe[p]) # STOP
      <4>1. PICK p \in Pipes : Took(x, p) /\ Head(pipe[p]) # STOP
        BY <3>2
      <4>2. CASE p = From[x]
        BY <1>0, <4>1, <4>2, MsgsAre DEF Took
      <4>3. CASE p # From[x]
        BY <1>0, <4>1, <4>3, MsgsAre DEF Took
      <4> QED
        BY <4>2, <4>3
    <3> QED
      BY <1>6, <3>1, <3>2 DEF Stays
  <2> QED
    BY <1>0, <1>1, <2>1, <2>2, ToldSame
<1>7. CASE Obeys(x)
  <2>1. STOP \in Msgs(From[x]) /\ status'[x] = "leave"
    BY <1>0, <1>7, MsgsAre DEF Obeys, Took
  <2> QED
    BY <1>0, <1>1, <1>2, <2>1, ToldSame
<1> QED
  BY <1>0, <1>3, <1>4, <1>5, <1>6, <1>7 DEF Moves

LEMMA ToldByServer ==
  ASSUME Inv, Calm, Types', Planned, Moves("server"), Turn("server"), NEW x \in Peers
  PROVE  Told(x)'
<1> DEFINE w == Write(From[x], STOP)
<1>0. /\ Types /\ Told(x) /\ ServerLeads /\ x \in Processes /\ x # "server"
      /\ "server" \in Processes \ {"drone"}
      /\ From[x] \in Pipes /\ Writer[From[x]] = "server" /\ Reader[From[x]] = x
      /\ w.op = "write" /\ w.msg = STOP /\ w.pipe = From[x] /\ Orderly("server")
  BY FromIs, WriteIs DEF Inv, CalmInv, Processes
<1>1. status'[x] = status[x]
  BY <1>0 DEF Turn, Alone
<1> HIDE DEF w
<1>2. CASE DoWrite("server") \/ DoClose("server")
  <2> DEFINE h == Head(todo["server"])
             t == Elements(Tail(todo["server"]))
  <2>1. /\ h \in Todo("server") /\ Todo("server") = {h} \cup t
        /\ Distinct(todo["server"]) => h \notin t
    BY <1>0, <1>2, FirstCall
  <2>2. status'["server"] = status["server"] /\ Todo("server")' = t
    BY <1>0, <1>2, ServerCalls DEF Todo
  <2>3. CASE status["server"] = "leave" /\ pipe' = pipe /\ h.op = "close"
    <3>1. StopToCome(x)' <=> StopToCome(x)
      BY <1>0, <2>1, <2>2, <2>3 DEF StopToCome, w
    <3> QED
      BY <1>0, <1>1, <2>3, <3>1, MsgsAre, ToldSame
  <2>4. ASSUME NEW p \in Pipes, NEW m \in Carried(p), h = Write(p, m),
               pipe'[p] = Append(pipe[p], m), \A r \in Pipes \ {p} : pipe'[r] = pipe[r]
        PROVE  Told(x)'
    <3>1. h.op = "write" /\ h.pipe = p /\ h.msg = m
      BY <2>4, WriteIs
    <3>2. status["server"] \in {"run", "leave"}
      BY <1>0, <2>1, TodoIs
    <3>3. p = From[x] => Msgs(From[x])' = Msgs(From[x]) \cup {m}
      BY <1>0, <2>4, MsgsAre
    <3>4. p # From[x] => Msgs(From[x])' = Msgs(From[x])
      BY <1>0, <2>4, MsgsAre
    <3>5. CASE status["server"] = "run"
      <4>1. m # STOP
        BY <1>0, <2>1, <3>1, <3>5 DEF ServerLeads
      <4>2. StopToCome(x) /\ StopToCome(x)'
        BY <2>2, <3>5 DEF StopToCome
      <4> QED
        BY <1>0, <1>1, <3>3, <3>4, <4>1, <4>2, ToldSame
    <3>6. CASE status["server"] = "leave"
      <4>1. m = STOP
        BY <1>0, <2>1, <3>1, <3>6 DEF ServerLeads
      <4>2. CASE p = From[x]
        <5>1. h = w /\ StopToCome(x)
          BY <2>1, <2>4, <4>1, <4>2 DEF w, StopToCome
        <5>2. w \notin t
          BY <1>0, <2>1, <3>6, <5>1 DEF Orderly, Parting
        <5>3. ~StopToCome(x)' /\ STOP \in Msgs(From[x])'
          BY <2>2, <3>3, <3>6, <4>1, <4>2, <5>2 DEF StopToCome, w
        <5> QED
          BY <5>3 DEF Told
      <4>3. CASE p # From[x]
        <5>1. h # w
          BY <1>0, <3>1, <4>3
        <5>2. StopToCome(x)' <=> StopToCome(x)
          BY <2>1, <2>2, <5>1 DEF StopToCome, w
        <5> QED
          BY <1>0, <1>1, <3>4, <4>3, <5>2, ToldSame
      <4> QED
        BY <4>2, <4>3
    <3> QED
      BY <3>2, <3>5, <3>6
  <2> QED
    BY <1>0, <1>2, <2>3, <2>4, ServerCalls
<1>3. CASE Exit("server") \/ KeyAfterError("server")
  <2>1. /\ status["server"] = "leave" /\ todo["server"] = <<>> /\ status'["server"] = "done"
        /\ todo'["server"] = <<>> /\ pipe' = pipe
    BY <1>0, <1>3, ExitDoes DEF ServerLeads
  <2>2. ~StopToCome(x) /\ ~StopToCome(x)'
    BY <2>1, NoCalls DEF StopToCome, Todo
  <2> QED
    BY <1>0, <1>1, <2>1, <2>2, MsgsAre, ToldSame
<1>4. CASE Idles
  <2>1. StopToCome(x) /\ StopToCome(x)' /\ pipe' = pipe
    BY <1>4 DEF Idles, Stays, AtRest, StopToCome
  <2> QED
    BY <1>0, <1>1, <2>1, MsgsAre, ToldSame
<1>5. CASE \E p \in Pipes : ServerServe(p)
  <2>1. PICK p \in Pipes : ServerServe(p)
    BY <1>5
  <2>2. Took("server", p) /\ AtRest("server") /\ (status'["server"] = "run" \/ w \in Todo("server")')
    BY <1>0, <2>1, ServerServeDoes DEF Stays, Todo, w
  <2>3. pipe'[From[x]] = pipe[From[x]]
    BY <1>0, <2>2 DEF Took
  <2>4. StopToCome(x) /\ StopToCome(x)'
    BY <2>2 DEF AtRest, StopToCome, w
  <2> QED
    BY <1>0, <1>1, <2>3, <2>4, MsgsAre, ToldSame
<1>6. "server" \notin Peers
  BY FromIs
<1> QED
  BY <1>2, <1>3, <1>4, <1>5, <1>6 DEF Moves

LEMMA ToldKept ==
  ASSUME Inv, Calm, Types', Planned, NEW x \in Peers
  PROVE  Told(x)'
<1>0. /\ Types /\ Told(x) /\ x \in Processes /\ x # "server" /\ "server" \in Processes
      /\ From[x] \in Pipes /\ Writer[From[x]] = "server" /\ Reader[From[x]] = x
  BY FromIs DEF Inv, CalmInv, Processes
<1>1. CASE Quiet
  BY <1>0, <1>1 DEF Quiet, Told, StopToCome, Todo, Msgs
<1>2. ASSUME NEW q \in Processes, Turn(q), q # x, q # "server" PROVE Told(x)'
  <2>1. /\ status'[x] = status[x] /\ status'["server"] = status["server"]
        /\ todo'["server"] = todo["server"] /\ pipe'[From[x]] = pipe[From[x]]
    BY <1>0, <1>2 DEF Turn, Alone
  <2> QED
    BY <1>0, <2>1 DEF Told, StopToCome, Todo, Msgs
<1> QED
  BY <1>0, <1>1, <1>2, ToldByPeer, ToldByServer, MoverIs

LEMMA OnceIs ==
  ASSUME NEW S, NEW s \in Seq(S), NEW m
  PROVE  /\ m \notin Elements(s) => Once(m, s)
         /\ s # <<>> /\ Once(m, s) /\ Head(s) = m => m \notin Elements(Tail(s))
         /\ \A k \in S : (k = m => m \notin Elements(s)) /\ Once(m, s) => Once(m, Append(s, k))
<1> DEFINE n == Len(s)
<1>1. n \in Nat
  OBVIOUS
<1>2. m \notin Elements(s) => Once(m, s)
  BY DEF Once, Elements
<1>3. ASSUME s # <<>>, Once(m, s), Head(s) = m PROVE m \notin Elements(Tail(s))
  <2>1. /\ n > 0 /\ Len(Tail(s)) = n - 1 /\ s[1] = m /\ \A i \in 1..(n - 1) : Tail(s)[i] = s[i + 1]
    BY <1>3, HeadTailProperties, EmptySeq
  <2>2. ASSUME NEW i \in 1..(n - 1), Tail(s)[i] = m PROVE FALSE
    <3>1. i + 1 \in 1..n /\ 1 \in 1..n /\ s[i + 1] = m /\ i + 1 # 1
      BY <1>1, <2>1, <2>2
    <3> QED
      BY <1>3, <2>1, <3>1 DEF Once
  <2> QED
    BY <2>1, <2>2 DEF Elements
<1>4. ASSUME NEW k \in S, k = m => m \notin Elements(s), Once(m, s) PROVE Once(m, Append(s, k))
  <2> DEFINE t == Append(s, k)
  <2>1. Len(t) = n + 1 /\ t[n + 1] = k /\ \A i \in 1..n : t[i] = s[i]
    OBVIOUS
  <2> HIDE DEF t
  <2>2. ASSUME NEW i \in 1..(n + 1), NEW j \in 1..(n + 1), t[i] = m, t[j] = m PROVE i = j
    <3>1. CASE i \in 1..n /\ j \in 1..n
      BY <1>4, <2>1, <2>2, <3>1 DEF Once
    <3>2. CASE i \in 1..n /\ j = n + 1
      BY <1>4, <2>1, <2>2, <3>2 DEF Elements
    <3>3. CASE i = n + 1 /\ j \in 1..n
      BY <1>4, <2>1, <2>2, <3>3 DEF Elements
    <3> QED
      BY <1>1, <3>1, <3>2, <3>3
  <2> QED
    BY <2>1, <2>2 DEF Once, t
<1> QED
  BY <1>2, <1>3, <1>4

\* The exchange is where it was.
LEMMA SameExchange ==
  ASSUME Exchange, status'["input"] = status["input"], pc'["input"] = pc["input"],
         pipe'["input_server"] = pipe["input_server"], pipe'["server_input"] = pipe["server_input"],
         Distinct(todo'["input"]), ToAsk' <=> ToAsk,
         Write("input_server", STOP) \in Todo("input") =>
           Write("input_server", STOP) \in Elements(todo'["input"]),
         ~(Reply \in Elements(todo'["server"])) \/ todo'["server"] = todo["server"],
         ToReply => todo'["server"] = todo["server"]
  PROVE  Exchange'
<1>1. (Asked' <=> Asked) /\ (Replied' <=> Replied) /\ Msgs("input_server")' = Msgs("input_server")
  BY DEF Asked, Replied, Msgs
<1>2. ToReply' <=> ToReply
  BY DEF ToReply, Todo
<1>3. Once("U", pipe["input_server"])' <=> Once("U", pipe["input_server"])
  BY DEF Once
<1>4. ToReply' => todo'["server"] = todo["server"] /\ Todo("server")' = Todo("server")
  BY <1>2 DEF Todo
<1>5. /\ (Distinct(todo["input"]))' /\ (Distinct(todo["server"]))' <=> Distinct(todo'["server"])
      /\ Write("input_server", STOP) \in Todo("input") => Write("input_server", STOP) \in Todo("input")'
  BY DEF Distinct, Todo
<1>6. ToReply' => (Distinct(todo["server"]) /\ \A c \in Todo("server") : c = Reply)'
  BY <1>2, <1>4 DEF Exchange, Distinct
<1> QED
  BY <1>1, <1>2, <1>3, <1>5, <1>6 DEF Exchange

LEMMA ExchangeByServer ==
  ASSUME Inv, Calm, Types', Planned, Moves("server"), Turn("server"),
         status["server"] = "run", status'["server"] = "run"
  PROVE  Exchange'
<1>0. /\ Types /\ Exchange /\ "server" \in Processes \ {"drone"} /\ "input" \in Processes
      /\ "input_server" \in Pipes /\ "server_input" \in Pipes
      /\ Writer["input_server"] = "input" /\ Reader["server_input"] = "input"
      /\ Writer["server_input"] = "server" /\ Reader["input_server"] = "server"
  BY PipesThere, PipeTable DEF Inv, CalmInv, Request, Processes
<1>1. /\ status'["input"] = status["input"] /\ pc'["input"] = pc["input"]
      /\ todo'["input"] = todo["input"] /\ Todo("input")' = Todo("input") /\ (ToAsk' <=> ToAsk)
      /\ Distinct(todo'["input"])
  BY <1>0 DEF Turn, Alone, Exchange, Todo, ToAsk
<1>2. ASSUME pipe'["input_server"] = pipe["input_server"],
             pipe'["server_input"] = pipe["server_input"],
             Reply \notin Elements(todo'["server"]), ~ToReply
      PROVE  Exchange'
  BY <1>0, <1>1, <1>2, SameExchange DEF Todo
<1>3. CASE DoWrite("server") \/ DoClose("server")
  <2> DEFINE h == Head(todo["server"])
             t == Elements(Tail(todo["server"]))
  <2>1. /\ h \in Todo("server") /\ Todo("server") = {h} \cup t
        /\ Distinct(todo["server"]) => h \notin t
    BY <1>0, <1>3, FirstCall
  <2>2. todo'["server"] = Tail(todo["server"]) /\ Todo("server")' = t
    BY <1>0, <1>3, ServerCalls DEF Todo
  <2> DEFINE Made(p, m) ==
               /\ Writer[p] = "server" /\ h = Write(p, m) /\ pipe'[p] = Append(pipe[p], m)
               /\ \A r \in Pipes \ {p} : pipe'[r] = pipe[r]
  <2>3. PICK p \in Pipes : \E m \in Carried(p) : Made(p, m)
    BY <1>0, <1>3, ServerCalls
  <2>4. PICK m \in Carried(p) : Made(p, m)
    BY <2>3
  <2>5. pipe'["input_server"] = pipe["input_server"]
    BY <1>0, <2>4
  <2>6. CASE p # "server_input"
    <3>1. h # Reply
      BY <2>4, <2>6, WriteIs DEF Reply
    <3>2. ~ToReply
      BY <1>0, <2>1, <3>1 DEF Exchange
    <3>3. Reply \notin t /\ pipe'["server_input"] = pipe["server_input"]
      BY <1>0, <2>1, <2>4, <2>6, <3>2 DEF ToReply
    <3> QED
      BY <1>2, <2>2, <2>5, <3>2, <3>3
  <2>7. CASE p = "server_input"
    <3>1. m = "reply" /\ h = Reply
      BY <2>4, <2>7 DEF Carried, Reply
    <3>2. ToReply /\ ~ToAsk /\ ~Asked /\ pipe["server_input"] = <<>>
      BY <1>0, <2>1, <3>1 DEF ToReply, Exchange, Replied
    <3>3. h \notin t
      BY <1>0, <2>1, <3>2 DEF Exchange
    <3>4. pipe'["server_input"] = Append(<<>>, m)
      BY <2>4, <2>7, <3>2
    <3>5. Len(pipe'["server_input"]) = 1
      BY <3>4
    <3>6. ~ToReply' /\ ~ToAsk' /\ ~Asked'
      BY <1>1, <2>2, <2>5, <3>1, <3>2, <3>3 DEF ToReply, Asked, Msgs
    <3>7. status'["input"] = "run" /\ pc'["input"] = "reply"
      BY <1>0, <1>1, <3>2 DEF Exchange
    <3>8. Once("U", pipe["input_server"])' /\ (Distinct(todo["input"]))'
      BY <1>0, <1>1, <2>5 DEF Exchange, Once, Distinct
    <3> QED
      BY <3>5, <3>6, <3>7, <3>8 DEF Exchange
  <2> QED
    BY <2>6, <2>7
<1>4. CASE Exit("server") \/ KeyAfterError("server")
  BY <1>0, <1>4, ExitDoes
<1>5. CASE Idles
  <2>1. ~ToReply /\ Reply \notin Elements(todo'["server"]) /\ pipe' = pipe
    BY <1>5, NoCalls DEF Idles, Stays, AtRest, ToReply, Todo
  <2> QED
    BY <1>2, <2>1
<1>6. ASSUME NEW p \in Pipes, ServerServe(p) PROVE Exchange'
  <2>1. /\ AtRest("server") /\ Took("server", p) /\ Reader[p] = "server" /\ Head(pipe[p]) # STOP
        /\ Distinct(todo'["server"])
        /\ p = "input_server" => \A c \in Elements(todo'["server"]) : c = Reply
        /\ p # "input_server" => Reply \notin Elements(todo'["server"])
    BY <1>0, <1>6, ServerServeDoes
  <2>2. ~ToReply /\ pipe'["server_input"] = pipe["server_input"]
    BY <1>0, <2>1, NoCalls DEF AtRest, ToReply, Todo, Took
  <2>3. CASE p # "input_server"
    <3>1. pipe'["input_server"] = pipe["input_server"]
      BY <1>0, <2>1, <2>3 DEF Took
    <3> QED
      BY <1>2, <2>1, <2>2, <2>3, <3>1
  <2>4. CASE p = "input_server"
    <3>1. /\ pipe[p] # <<>> /\ pipe[p] \in Seq(Carried(p)) /\ pipe'[p] = Tail(pipe[p])
      BY <2>1 DEF Took, Types, PipeT, Inv
    <3>2. Head(pipe[p]) \in Carried(p) /\ Head(pipe[p]) \in Elements(pipe[p])
      BY <3>1, TailIs
    <3>3. Head(pipe[p]) = "U"
      BY <2>1, <2>4, <3>2 DEF Carried, STOP
    <3>4. Asked
      BY <2>4, <3>2, <3>3 DEF Asked, Msgs
    <3>5. status["input"] = "run" /\ pc["input"] = "reply" /\ ~ToAsk /\ ~Replied
      BY <1>0, <3>4 DEF Exchange
    <3>6. "U" \notin Elements(Tail(pipe[p]))
      BY <1>0, <2>4, <3>1, <3>3, OnceIs DEF Exchange
    <3>7. ~Asked' /\ (Once("U", pipe["input_server"]))'
      <4>1. Tail(pipe[p]) \in Seq(Carried(p))
        BY <3>1, TailIs
      <4>2. Once("U", Tail(pipe[p]))
        BY <3>6, <4>1, OnceIs
      <4> QED
        BY <2>4, <3>1, <3>6, <4>2 DEF Asked, Msgs, Once
    <3>8. ~Replied' /\ ~ToAsk' /\ Len(pipe'["server_input"]) <= 1
      BY <1>0, <1>1, <2>2, <3>5 DEF Replied, Exchange
    <3>9. /\ (Distinct(todo["server"]) /\ \A c \in Todo("server") : c = Reply)'
          /\ (Distinct(todo["input"]))'
      BY <1>1, <2>1, <2>4 DEF Distinct, Todo
    <3>10. status'["input"] = "run" /\ pc'["input"] = "reply"
      BY <1>1, <3>5
    <3> QED
      BY <3>7, <3>8, <3>9, <3>10 DEF Exchange
  <2> QED
    BY <2>3, <2>4
<1>7. "server" \notin Peers
  BY FromIs
<1> QED
  BY <1>3, <1>4, <1>5, <1>6, <1>7 DEF Moves

LEMMA ExchangeByInput ==
  ASSUME Inv, Calm, Types', Planned, Moves("input"), Turn("input"), status["server"] = "run"
  PROVE  Exchange'
<1> DEFINE w == Write("input_server", STOP)
           h == Head(todo["input"])
           t == Elements(Tail(todo["input"]))
<1>0. /\ Types /\ Exchange /\ "server" \in Processes /\ "input" \in Processes \ {"drone"}
      /\ "input_server" \in Pipes /\ "server_input" \in Pipes
      /\ Writer["server_input"] = "server" /\ Orderly("input")
  BY PipesThere, PipeTable DEF Inv, CalmInv, Request, Processes
<1>1. todo'["server"] = todo["server"] /\ (ToReply' <=> ToReply)
  BY <1>0 DEF Turn, Alone, ToReply, Todo
<1>2. w.op = "write" /\ w.pipe = "input_server" /\ w.msg = STOP /\ AskU.op = "write"
      /\ AskU.pipe = "input_server" /\ AskU.msg = "U" /\ w # AskU
  <2>1. STOP # "U"
    BY DEF STOP
  <2> QED
    BY <2>1, WriteIs DEF AskU
<1> HIDE DEF w
<1>3. (Distinct(todo["input"]))' <=> Distinct(todo'["input"])
  BY DEF Distinct
\* Nothing is asked, or on its way, while input waits for a key.
<1>4. ASSUME pc["input"] = "getch", pipe' = pipe, Distinct(todo'["input"]),
             \/ status'["input"] = "run" /\ pc'["input"] = "reply"
             \/ /\ status'["input"] = "leave" /\ w \in Elements(todo'["input"])
                /\ AskU \notin Elements(todo'["input"])
      PROVE  Exchange'
  <2>1. ~ToAsk /\ ~Asked /\ ~ToReply /\ ~Replied
    BY <1>0, <1>4 DEF Exchange
  <2>2. ~Asked' /\ ~ToReply' /\ ~Replied'
    BY <1>1, <1>4, <2>1 DEF Asked, Replied, Msgs
  <2>3. (Once("U", pipe["input_server"]))' /\ (Len(pipe["server_input"]) <= 1)'
    BY <1>0, <1>4 DEF Exchange, Once
  <2>4. /\ ToAsk' <=> AskU \in Elements(todo'["input"])
        /\ w \in Elements(todo'["input"]) => Write("input_server", STOP) \in Todo("input")'
    BY DEF ToAsk, Todo, w
  <2> QED
    BY <1>3, <1>4, <2>2, <2>3, <2>4 DEF Exchange
<1>5. CASE KeyP
  BY <1>0, <1>4, <1>5, KeyPDoes DEF Parting, w
<1>6. CASE KeyOther
  BY <1>0, <1>4, <1>6, KeyOtherDoes
<1>7. CASE InputRead
  <2>1. ~Eof("server_input")
    BY <1>0, NoEof
  <2>2. /\ pc["input"] = "reply" /\ Took("input", "server_input") /\ status'["input"] = "run"
        /\ todo'["input"] = <<>>
    BY <1>0, <1>7, <2>1, InputReadDoes
  <2>3. Replied /\ ~ToAsk /\ ~Asked /\ ~ToReply
    BY <1>0, <2>2 DEF Took, Replied, Exchange
  <2>4. /\ pipe'["server_input"] \in Seq(Carried("server_input"))
        /\ Len(pipe'["server_input"]) = 0
    <3>1. /\ Len(pipe["server_input"]) <= 1
          /\ pipe["server_input"] \in Seq(Carried("server_input"))
      BY <1>0 DEF Exchange, Types, PipeT
    <3>2. pipe["server_input"] # <<>> /\ pipe'["server_input"] = Tail(pipe["server_input"])
      BY <2>2 DEF Took
    <3>3. /\ Tail(pipe["server_input"]) \in Seq(Carried("server_input"))
          /\ Len(Tail(pipe["server_input"])) = Len(pipe["server_input"]) - 1
          /\ Len(pipe["server_input"]) \in Nat /\ Len(pipe["server_input"]) > 0
      BY <3>1, <3>2, TailIs
    <3>4. \A n \in Nat : n > 0 /\ n <= 1 => n = 1 /\ n - 1 = 0
      OBVIOUS
    <3>5. Len(pipe["server_input"]) - 1 = 0
      BY <3>1, <3>3, <3>4, Zenon
    <3> QED
      BY <3>2, <3>3, <3>5
  <2>5. ~Replied'
    BY <2>4, EmptySeq DEF Replied
  <2>6. pipe'["input_server"] = pipe["input_server"]
    BY <1>0, <2>2, PipeTable DEF Took
  <2>7. ~Asked' /\ ~ToReply' /\ ~ToAsk'
    BY <1>1, <2>2, <2>3, <2>6, NoCalls DEF Asked, Msgs, ToAsk, Todo
  <2>8. (Once("U", pipe["input_server"]))' /\ (Distinct(todo["input"]))'
    BY <1>0, <1>3, <2>2, <2>6, NoCalls DEF Exchange, Once, Parting
  <2> QED
    BY <2>2, <2>4, <2>5, <2>7, <2>8 DEF Exchange
<1>8. CASE DoWrite("input")
  <2>1. h \in Todo("input") /\ Todo("input") = {h} \cup t /\ h \notin t
        /\ Distinct(Tail(todo["input"]))
    BY <1>0, <1>8, FirstCall DEF Exchange
  <2> DEFINE Made(p, m) ==
               /\ Writer[p] = "input" /\ h = Write(p, m)
               /\ \/ /\ HasReader(p) /\ pipe'[p] = Append(pipe[p], m)
                     /\ \A r \in Pipes \ {p} : pipe'[r] = pipe[r]
                     /\ todo'["input"] = Tail(todo["input"])
                     /\ status'["input"] = status["input"]
                  \/ ~HasReader(p)
  <2>2. PICK p \in Pipes : \E m \in Carried(p) : Made(p, m)
    BY <1>0, <1>8, WriteDoes
  <2>3. PICK m \in Carried(p) : Made(p, m)
    BY <2>2
  <2>4. HasReader(p)
    BY <1>0, <2>1, <2>3, WriteHeard
  <2>5. /\ Writer[p] = "input" /\ h = Write(p, m) /\ pipe'[p] = Append(pipe[p], m)
        /\ \A r \in Pipes \ {p} : pipe'[r] = pipe[r]
        /\ todo'["input"] = Tail(todo["input"]) /\ status'["input"] = status["input"]
        /\ h.pipe = p /\ h.msg = m
    BY <2>3, <2>4, WriteIs
  <2>6. pc' = pc /\ pipe'["server_input"] = pipe["server_input"] /\ Distinct(todo'["input"])
    BY <1>0, <1>8, <2>1, <2>5, WriteDoes
  <2> HIDE DEF h, t, Made
  <2>7. Todo("input")' = t
    BY <2>5 DEF Todo, t
  <2>8. CASE p # "input_server"
    <3>1. h # AskU /\ h # w
      BY <1>2, <2>5, <2>8
    <3>2. (ToAsk' <=> ToAsk) /\ (w \in Todo("input") => w \in Elements(todo'["input"]))
      BY <2>1, <2>7, <3>1 DEF ToAsk, Todo
    <3>3. pipe'["input_server"] = pipe["input_server"]
      BY <1>0, <2>5, <2>8
    <3> QED
      BY <1>0, <1>1, <2>5, <2>6, <3>2, <3>3, SameExchange DEF w
  <2>9. CASE p = "input_server"
    <3>0. Msgs("input_server")' = Msgs("input_server") \cup {m}
      BY <1>0, <2>5, <2>9, MsgsAre
    <3>1. /\ pipe["input_server"] \in Seq(Carried(p))
          /\ (m = "U" => "U" \notin Msgs("input_server"))
             => Once("U", Append(pipe["input_server"], m))
      <4>1. pipe["input_server"] \in Seq(Carried(p)) /\ Once("U", pipe["input_server"])
        BY <1>0, <2>9 DEF Types, PipeT, Exchange
      <4>2. Msgs("input_server") = Elements(pipe["input_server"])
        BY DEF Msgs
      <4>3. \A k \in Carried(p) :
              (k = "U" => "U" \notin Elements(pipe["input_server"])) /\ Once("U", pipe["input_server"])
                => Once("U", Append(pipe["input_server"], k))
        BY <4>1, OnceIs
      <4> QED
        BY <4>1, <4>2, <4>3
    <3>2. CASE m = "U"
      <4>1. h = AskU /\ ToAsk
        BY <2>1, <2>5, <2>9, <3>2 DEF AskU, ToAsk
      <4>2. ~Asked /\ ~ToReply /\ ~Replied /\ status["input"] = "run" /\ pc["input"] = "reply"
        BY <1>0, <4>1 DEF Exchange
      <4>3. ~ToAsk' /\ ~ToReply' /\ ~Replied'
        BY <1>1, <2>1, <2>6, <2>7, <4>1, <4>2 DEF ToAsk, Replied
      <4>4. Once("U", pipe["input_server"])' /\ (Len(pipe["server_input"]) <= 1)'
        BY <1>0, <2>5, <2>6, <2>9, <3>1, <4>2 DEF Asked, Once, Exchange
      <4>5. status'["input"] = "run" /\ pc'["input"] = "reply"
        BY <2>5, <2>6, <4>2
      <4> QED
        BY <1>3, <2>6, <4>3, <4>4, <4>5 DEF Exchange
    <3>3. CASE m = STOP
      <4>1. STOP # "U"
        BY DEF STOP
      <4>2. h = w /\ h # AskU
        BY <1>2, <2>5, <2>9, <3>3 DEF w
      <4>3. /\ ToAsk' <=> ToAsk
            /\ Asked' <=> Asked
            /\ Replied' <=> Replied
        BY <2>1, <2>6, <2>7, <3>0, <3>3, <4>1, <4>2 DEF ToAsk, Asked, Replied
      <4>4. Once("U", pipe["input_server"])' /\ (Len(pipe["server_input"]) <= 1)'
        BY <1>0, <2>5, <2>6, <2>9, <3>1, <3>3, <4>1 DEF Once, Exchange
      <4>5. STOP \in Msgs("input_server")'
        BY <3>0, <3>3
      <4>6. status'["input"] = status["input"] /\ pc'["input"] = pc["input"]
        BY <2>5, <2>6
      <4>7. ToReply' => (Distinct(todo["server"]) /\ \A c \in Todo("server") : c = Reply)'
        BY <1>0, <1>1 DEF Exchange, Distinct, Todo
      <4> QED
        BY <1>0, <1>1, <1>3, <2>6, <4>3, <4>4, <4>5, <4>6, <4>7 DEF Exchange
    <3> QED
      BY <2>9, <3>2, <3>3 DEF Carried, STOP
  <2> QED
    BY <2>8, <2>9
<1>9. CASE DoClose("input")
  <2>1. h \in Todo("input") /\ Todo("input") = {h} \cup t /\ h \notin t
        /\ Distinct(Tail(todo["input"]))
    BY <1>0, <1>9, FirstCall DEF Exchange
  <2>2. Orderly("input")'
    BY <1>0, OrderlyKept
  <2>3. PICK p \in Pipes : /\ h = Close(p) /\ todo'["input"] = Tail(todo["input"])
                           /\ status'["input"] = status["input"]
    BY <1>0, <1>9, <2>2, CloseDoes DEF Orderly
  <2>4. pipe' = pipe /\ pc' = pc /\ Distinct(todo'["input"]) /\ h # w /\ h # AskU
    BY <1>0, <1>2, <1>9, <2>1, <2>3, CloseDoes, CloseIs
  <2> HIDE DEF h, t
  <2>5. Todo("input")' = t
    BY <2>3 DEF Todo, t
  <2>6. (ToAsk' <=> ToAsk) /\ (w \in Todo("input") => w \in Elements(todo'["input"]))
    BY <2>1, <2>4, <2>5 DEF ToAsk, Todo
  <2> QED
    BY <1>0, <1>1, <2>3, <2>4, <2>6, SameExchange DEF w
<1>10. CASE Exit("input") \/ KeyAfterError("input")
  <2>1. /\ status["input"] = "leave" /\ status'["input"] = "done" /\ todo["input"] = <<>>
        /\ todo'["input"] = <<>> /\ pipe' = pipe /\ pc' = pc
    BY <1>0, <1>10, ExitDoes DEF Exchange
  <2>2. /\ ~ToAsk /\ ~ToAsk' /\ STOP \in Msgs("input_server")
        /\ ~Asked /\ ~ToReply /\ ~Replied
    BY <1>0, <2>1, NoCalls DEF Exchange, ToAsk, Todo
  <2>3. ~Asked' /\ ~ToReply' /\ ~Replied' /\ STOP \in Msgs("input_server")'
    BY <1>1, <2>1, <2>2 DEF Asked, Replied, Msgs
  <2>4. Once("U", pipe["input_server"])' /\ (Len(pipe["server_input"]) <= 1)'
    BY <1>0, <2>1 DEF Once, Exchange
  <2> QED
    BY <1>3, <2>1, <2>2, <2>3, <2>4, NoCalls DEF Exchange, Parting
<1>11. "input" \notin Peers
  BY FromIs
<1> QED
  BY <1>5, <1>6, <1>7, <1>8, <1>9, <1>10, <1>11 DEF Moves

LEMMA RequestKept ==
  ASSUME Inv, Calm, Types', Planned
  PROVE  Request'
<1> SUFFICES ASSUME status'["server"] = "run" PROVE Exchange'
  BY DEF Request
<1>0. /\ Types /\ Request /\ "server" \in Processes /\ "input" \in Processes
      /\ "input_server" \in Pipes /\ "server_input" \in Pipes
      /\ {Writer["input_server"], Reader["input_server"]} = {"input", "server"}
      /\ {Writer["server_input"], Reader["server_input"]} = {"input", "server"}
  BY PipesThere, PipeTable DEF Inv, CalmInv, Processes
<1>1. CASE Quiet
  <2>1. Exchange
    BY <1>0, <1>1 DEF Quiet, Request
  <2> QED
    BY <1>1, <2>1, SameExchange DEF Quiet, Exchange, ToAsk, Todo
<1>2. ASSUME NEW q \in Processes, Turn(q), q # "server", q # "input" PROVE Exchange'
  <2>1. /\ status'["server"] = status["server"] /\ status'["input"] = status["input"]
        /\ todo'["server"] = todo["server"] /\ todo'["input"] = todo["input"]
        /\ pc'["input"] = pc["input"] /\ pipe'["input_server"] = pipe["input_server"]
        /\ pipe'["server_input"] = pipe["server_input"]
    BY <1>0, <1>2 DEF Turn, Alone
  <2>2. Exchange
    BY <1>0, <2>1 DEF Request
  <2> QED
    BY <2>1, <2>2, SameExchange DEF Exchange, ToAsk, Todo
<1>3. ASSUME Moves("server"), Turn("server") PROVE Exchange'
  <2>1. status["server"] = "run"
    <3>1. CASE DoWrite("server") \/ DoClose("server")
      BY <3>1, ServerCalls
    <3>2. CASE Exit("server") \/ KeyAfterError("server")
      BY <1>0, <3>2, ExitDoes
    <3>3. CASE Idles \/ \E p \in Pipes : ServerServe(p)
      BY <1>0, <3>3, ServerServeDoes DEF Idles, Stays, AtRest
    <3> QED
      BY <1>3, <3>1, <3>2, <3>3, FromIs DEF Moves
  <2> QED
    BY <1>3, <2>1, ExchangeByServer
<1>4. ASSUME Moves("input"), Turn("input") PROVE Exchange'
  <2>1. status["server"] = "run"
    BY <1>0, <1>4 DEF Turn, Alone
  <2> QED
    BY <1>4, <2>1, ExchangeByInput
<1> QED
  BY <1>0, <1>1, <1>2, <1>3, <1>4, MoverIs

LEMMA InvKept == Inv /\ [Next]_vars => Inv'
<1> SUFFICES ASSUME Inv, [Next]_vars PROVE Inv'
  OBVIOUS
<1>1. Types' /\ (Planned \/ \E q \in Processes : Lost(q)')
  BY StepIs DEF Inv
<1>2. Calm' => Planned /\ Calm
  <2> HAVE Calm'
  <2>1. Planned
    BY <1>1 DEF Calm
  <2> QED
    BY <2>1, CalmBefore DEF Inv
<1>3. ASSUME Planned, Calm PROVE CalmInv'
  <2>1. \A q \in Processes \ {"drone"} : Orderly(q)'
    BY <1>1, <1>3, OrderlyKept
  <2>2. \A x \in Peers : Told(x)'
    BY <1>1, <1>3, ToldKept
  <2>3. DroneReady' /\ ServerLeads' /\ Request'
    BY <1>1, <1>3, DroneReadyKept, ServerLeadsKept, RequestKept
  <2> QED
    BY <2>1, <2>2, <2>3 DEF CalmInv
<1> QED
  BY <1>1, <1>2, <1>3 DEF Inv

LEMMA InitInv == Init => Inv
<1> SUFFICES ASSUME Init PROVE Inv
  OBVIOUS
<1>1. /\ \A p \in Pipes : pipe[p] = <<>>
      /\ open = {"r", "w"} \X Pipes
      /\ \A q \in Processes : status[q] = "run" /\ todo[q] = <<>>
  BY DEF Init
<1>2. /\ \A q \in Processes : Todo(q) = {}
      /\ \A p \in Pipes : Msgs(p) = {}
  BY <1>1, NoCalls DEF Todo, Msgs
<1>3. "server" \in Processes /\ "input" \in Processes
      /\ "input_server" \in Pipes /\ "server_input" \in Pipes
  BY PipesThere DEF Processes
<1>4. ASSUME NEW q \in Processes PROVE Orderly(q)
  <2>1. EndsOf(q) \subseteq open
    BY <1>1, EndsAre
  <2> QED
    BY <1>1, <1>2, <2>1 DEF Orderly
<1>5. DroneReady
  <2> SUFFICES ASSUME "drone" \in Peers
               PROVE  /\ <<"w", "drone_server">> \in open /\ <<"r", "server_drone">> \in open
                      /\ <<"r", "input_drone">> \in open /\ Todo("drone") = {}
    BY DEF DroneReady
  <2>1. "drone" \in Processes
    BY DEF Processes
  <2> QED
    BY <1>1, <1>2, <2>1, PipesThere
<1>6. ServerLeads
  BY <1>1, <1>2, <1>3 DEF ServerLeads
<1>7. \A x \in Peers : Told(x)
  BY <1>1, <1>2, <1>3, FromIs DEF Told, StopToCome
<1>8. Request
  <2>1. /\ ~ToAsk /\ ~Asked /\ ~ToReply /\ ~Replied
    BY <1>1, <1>2, <1>3 DEF ToAsk, Asked, ToReply, Replied
  <2>2. Distinct(<<>>) /\ Once("U", <<>>) /\ Len(<<>>) = 0
    BY NoCalls, EmptySeq DEF Parting, Once
  <2> QED
    BY <1>1, <1>3, <2>1, <2>2 DEF Request, Exchange
<1> QED
  BY <1>4, <1>5, <1>6, <1>7, <1>8, InitTypes DEF Inv, CalmInv

\* Unless a process is lost, the processes that close never stand in each other's
\* way: each keeps the ends that it still has to use, the server is the first to
\* close, every peer has been told to stop or will be, and input and the server
\* exchange one request and one answer at a time (server.c:97-178, input.c:355-393).
THEOREM Invariant == Spec => []Inv
BY InitInv, InvKept, PTL DEF Spec

\* Unless a process is lost the server relays STOP to the end: its peers keep
\* their ends open until they have read it, and no write and no close of the
\* server fails (server.c:115-118, 169-178).
THEOREM StopIsRelayed == Spec => []ServerNotHindered
<1>1. Inv => ServerNotHindered
  BY DEF Inv, CalmInv, Calm, ServerLeads, ServerNotHindered
<1> QED
  BY <1>1, Invariant, PTL

\* Unless a process is lost only the drone can fail to close a descriptor: any
\* other process leaves its loop with every end open that it then closes.
THEOREM OthersClose == Spec => []OnlyDroneHangs
<1>1. Inv => OnlyDroneHangs
  BY DEF Inv, CalmInv, Calm, Orderly, OnlyDroneHangs
<1> QED
  BY <1>1, Invariant, PTL

\* A peer that still runs when the server has ended by STOP finds the STOP in
\* its pipe, before end of file (server.c:115-118, 169-178).
THEOREM StopReachesAll == Spec => []NobodyLeftBehind
<1>1. Inv => NobodyLeftBehind
  <2> SUFFICES ASSUME Inv, status["server"] = "done", Calm, NEW p \in Pipes,
                      Writer[p] = "server", Reader[p] \in Peers, status[Reader[p]] = "run"
               PROVE  \E i \in 1..Len(pipe[p]) : pipe[p][i] = "STOP"
    BY DEF NobodyLeftBehind, Calm
  <2> DEFINE x == Reader[p]
  <2>1. "server" \in Processes
    BY DEF Processes
  <2>2. todo["server"] = <<>>
    BY <2>1 DEF Inv, Types, IdleT
  <2>3. ~StopToCome(x)
    BY <2>2, NoCalls DEF StopToCome, Todo
  <2>4. STOP \in Msgs(From[x])
    BY <2>3 DEF Inv, CalmInv, Told
  <2>5. p = From[x]
    <3>1. p # "input_drone"
      BY PipeTable
    <3> QED
      BY <3>1, PeerReads
  <2> QED
    BY <2>4, <2>5 DEF Msgs, Elements, STOP
<1> QED
  BY <1>1, Invariant, PTL
============================================================================
