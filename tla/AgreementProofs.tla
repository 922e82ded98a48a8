-------------------------- MODULE AgreementProofs --------------------------
(***************************************************************************)
(* What map and drone agree on, for every N, window and target set, when   *)
(* no two targets of a set ever share a character cell.  The code does not *)
(* see to that: run shared_agrees shows what becomes of the agreement when *)
(* two targets do share one.                                               *)
(***************************************************************************)
EXTENDS TargetsProofs, FiniteSetTheorems

DistinctCells ==
  \A s \in TargetSets, l \in Layouts :
    \A i, j \in 1..N : i # j => l[s[i]] # l[s[j]]

----------------------------------------------------------------------------
(* One hit per frame.  Of the entries in play at most one lies on the      *)
(* drone's cell; the removal shifts the others, and the stale last entry   *)
(* that the loop still visits is a copy of one of them.                    *)

Apart(arr, n) ==
  \A l \in Layouts : \A i, j \in 1..n : i # j => l[arr[i]] # l[arr[j]]

FrameInv ==
  /\ Apart(targets_pos, Left)
  /\ to_decrease => \A i \in frame..target_num : ~IsHit(i)
  /\ target_num > 0 => awards + Left = N

\* Removal keeps the entries in play apart, and none of the entries still to be
\* visited is the removed one or shares its cell.
LEMMA RemoveApart ==
  ASSUME NEW arr, NEW n \in 1..N, NEW f \in 1..n, Apart(arr, n)
  PROVE  LET new == remove_target(f, arr, n)
         IN  /\ Apart(new, n - 1)
             /\ \A l \in Layouts, i \in (f + 1)..n : l[new[i]] # l[arr[f]]
<1> USE NAssumption
<1> DEFINE new == remove_target(f, arr, n)
           old(i) == IF i \in f..(n - 1) THEN i + 1 ELSE i
<1>1. \A i \in 1..n : new[i] = arr[old(i)] /\ old(i) \in 1..n
  BY DEF remove_target
<1>2. \A i, j \in 1..(n - 1) : i # j => old(i) # old(j)
  OBVIOUS
<1>3. \A i \in (f + 1)..n : i \in 1..n /\ old(i) # f
  OBVIOUS
<1>4. \A i \in 1..(n - 1) : i \in 1..n
  OBVIOUS
<1> HIDE DEF new, old
<1>5. Apart(new, n - 1)
  BY <1>1, <1>2, <1>4 DEF Apart
<1>6. \A l \in Layouts, i \in (f + 1)..n : l[new[i]] # l[arr[f]]
  BY <1>1, <1>3 DEF Apart
<1> QED
  BY <1>5, <1>6 DEF new

LEMMA InitFrame == Init => FrameInv
<1> SUFFICES ASSUME Init PROVE FrameInv
  OBVIOUS
<1>1. target_num = 0 /\ ~to_decrease /\ Left = 0
  BY DEF Init, Left
<1> QED
  BY <1>1 DEF FrameInv, Apart

LEMMA NextFrame ==
  ASSUME DistinctCells
  PROVE  TypeInv /\ FrameInv /\ [Next]_vars => FrameInv'
<1> SUFFICES ASSUME TypeInv, FrameInv, [Next]_vars PROVE FrameInv'
  OBVIOUS
<1>t. /\ target_num \in 0..N /\ frame \in 0..(N + 1) /\ awards \in Nat /\ N \in Nat
      /\ drone_pos \in Positions /\ layout \in Layouts
      /\ frame <= target_num + 1
      /\ to_decrease \in BOOLEAN /\ (to_decrease => frame > 0 /\ target_num > 0)
  BY NAssumption DEF TypeInv, TypeOK, FrameOK
<1>u. ASSUME UNCHANGED mapVars PROVE FrameInv'
  BY <1>u DEF FrameInv, Apart, Left, IsHit, mapVars
<1>1. CASE TargetSend
  BY <1>1, <1>u DEF TargetSend
<1>2. CASE TargetRead
  BY <1>2, <1>u DEF TargetRead
<1>3. CASE ServerPosition
  BY <1>3, <1>u DEF ServerPosition
<1>4. CASE ServerFromMap
  BY <1>4, <1>u DEF ServerFromMap
<1>5. CASE ServerFromTarget
  BY <1>5, <1>u DEF ServerFromTarget
<1>6. CASE ServerWrite
  BY <1>6, <1>u DEF ServerWrite
<1>7. CASE MapRead
  <2> DEFINE m == Head(pipe["server_map"])
  <2>1. ~to_decrease /\ ~to_decrease'
    <3>1. ~to_decrease
      BY <1>7, <1>t DEF MapRead
    <3>2. ~to_decrease'
      BY <1>7, Zenon DEF MapRead, BeginFrame
    <3> QED
      BY <3>1, <3>2
  <2>2. Left = target_num /\ Left' = target_num'
    BY <2>1 DEF Left
  <2>3. CASE m.type = "D"
    BY <1>7, <2>1, <2>2, <2>3 DEF MapRead, FrameInv, Apart
  <2>4. CASE m.type = "T"
    <3>1. m \in Msg
      BY <1>7, ReceivedType DEF MapRead, TypeInv, PipeNames
    <3>2. m.set \in TargetSets
      BY <2>4, <3>1, MsgFields
    <3>3. targets_pos' = m.set /\ target_num' = N /\ awards' = 0
      BY <1>7, <2>4 DEF MapRead
    <3> QED
      BY <1>t, <2>1, <2>2, <3>2, <3>3 DEF FrameInv, Apart, DistinctCells
  <2> QED
    BY <1>7, <2>3, <2>4 DEF MapRead
<1>8. CASE MapTimeout
  <2>1. ~to_decrease /\ ~to_decrease'
    <3>1. ~to_decrease
      BY <1>8, <1>t DEF MapTimeout
    <3>2. ~to_decrease'
      BY <1>8, Zenon DEF MapTimeout, BeginFrame
    <3> QED
      BY <3>1, <3>2
  <2> QED
    BY <1>8, <2>1 DEF MapTimeout, FrameInv, Apart, Left
<1>9. CASE MapHit
  <2> DEFINE n == target_num
  <2>1. /\ frame \in 1..n /\ n \in 1..N /\ IsHit(frame)
        /\ frame' = frame + 1 /\ n' = n /\ UNCHANGED <<layout, drone_pos>>
        /\ targets_pos' = remove_target(frame, targets_pos, n)
        /\ awards' = awards + 1
    BY <1>9, <1>t DEF MapHit
  <2>2. ~to_decrease /\ Left = n
    BY <2>1 DEF FrameInv, Left
  <2>3. to_decrease' /\ Left' = n - 1
    BY <1>9, <2>1 DEF MapHit, Left
  <2>4. /\ Apart(targets_pos', n - 1)
        /\ \A i \in (frame + 1)..n : layout[targets_pos'[i]] # layout[targets_pos[frame]]
    BY <1>t, <2>1, <2>2, RemoveApart DEF FrameInv
  <2>5. \A i \in (frame + 1)..n : ~IsHit(i)'
    BY <2>1, <2>4 DEF IsHit
  <2>6. awards' + Left' = N
    BY <1>t, <2>1, <2>2, <2>3 DEF FrameInv
  <2> QED
    BY <2>1, <2>3, <2>4, <2>5, <2>6 DEF FrameInv
<1>10. CASE MapDraw
  <2>1. /\ frame' = frame + 1
        /\ UNCHANGED <<targets_pos, target_num, drone_pos, layout, to_decrease, awards>>
    BY <1>10 DEF MapDraw
  <2> QED
    BY <1>t, <2>1 DEF FrameInv, Apart, Left, IsHit
<1>11. CASE MapEndFrame
  <2>1. /\ target_num' = Left /\ ~to_decrease'
        /\ UNCHANGED <<targets_pos, awards>>
    BY <1>11, Zenon DEF MapEndFrame
  <2>2. Left' = Left /\ (target_num' > 0 => target_num > 0)
    BY <1>t, <2>1 DEF Left
  <2> QED
    BY <2>1, <2>2 DEF FrameInv, Apart
<1>12. CASE DroneRead
  BY <1>12, <1>u DEF DroneRead
<1>13. CASE UNCHANGED vars
  BY <1>13, <1>u DEF vars
<1> QED
  BY <1>1, <1>2, <1>3, <1>4, <1>5, <1>6, <1>7, <1>8, <1>9, <1>10, <1>11,
     <1>12, <1>13 DEF Next

LEMMA FrameInvariant ==
  ASSUME DistinctCells
  PROVE  Spec => []FrameInv
<1>1. Init => TypeInv /\ FrameInv
  BY InitTypeInv, InitFrame
<1>2. TypeInv /\ FrameInv /\ [Next]_vars => TypeInv' /\ FrameInv'
  BY NextTypeInv, NextFrame
<1> QED
  BY <1>1, <1>2, PTL DEF Spec

\* Every target of a set is worth one point, whatever the size of the set and of
\* the window: no frame counts one target twice, none counts a target and leaves
\* it in the array, and none scores two and lowers the count by one.
THEOREM OnePointEach ==
  ASSUME DistinctCells
  PROVE  Spec => []ScoredOnce
<1>1. TypeInv /\ FrameInv => ScoredOnce
  <2> SUFFICES ASSUME TypeInv, FrameInv, frame = 0, target_num > 0
               PROVE  awards + target_num = N
    BY DEF ScoredOnce
  <2>1. ~to_decrease
    BY DEF TypeInv, FrameOK
  <2> QED
    BY <2>1 DEF FrameInv, Left
<1>2. Spec => []TypeInv
  BY InitTypeInv, NextTypeInv, PTL DEF Spec
<1> QED
  BY <1>1, <1>2, FrameInvariant, PTL

----------------------------------------------------------------------------
(* What the drone has heard after each message.  Heard is recursive; its   *)
(* equation is derived here by induction on the length of the queue.  The  *)
(* induction itself rests on the pigeonhole principle: a set of numbers    *)
(* closed under +1 below k would map into itself without its 0.            *)

LEMMA Induction ==
  ASSUME NEW A, 0 \in A, \A n \in Nat : n \in A => n + 1 \in A
  PROVE  \A n \in Nat : n \in A
<1> SUFFICES ASSUME NEW k \in Nat, k \notin A PROVE FALSE
  OBVIOUS
<1> DEFINE B == {n \in 0..k : n \in A}
           f == [n \in B |-> n + 1]
<1>1. B \in SUBSET (0..k) /\ IsFiniteSet(0..k)
  BY FS_Interval
<1>2. IsFiniteSet(B) /\ 0 \in B
  BY <1>1, FS_Subset
<1>3. IsFiniteSet(B \ {0}) /\ Cardinality(B \ {0}) < Cardinality(B)
  <2>1. Cardinality(B \ {0}) = Cardinality(B) - 1 /\ IsFiniteSet(B \ {0})
    BY <1>2, FS_RemoveElement
  <2> QED
    BY <1>2, <2>1, FS_CardinalityType
<1>4. \A n \in B : n + 1 \in B \ {0}
  OBVIOUS
<1>5. f \in [B -> B \ {0}] /\ \A x, y \in B : f[x] = f[y] => x = y
  BY <1>4
<1> HIDE DEF B, f
<1>6. \E x, y \in B : x # y /\ f[x] = f[y]
  BY <1>2, <1>3, <1>5, FS_PigeonHole
<1> QED
  BY <1>5, <1>6

\* The array and count a drone can hold, and what it makes of a queue.
Holdings == [arr : [1..N -> Positions \cup {Junk}], num : {n \in Int : n <= N}]

IsHistory(h, d, msgs) ==
  /\ h \in [0..Len(msgs) -> Holdings]
  /\ h[0] = d
  /\ \A k \in 1..Len(msgs) : h[k] = Applied(msgs[k], h[k - 1])

LEMMA AppliedType ==
  ASSUME NEW m \in Msg, NEW d \in Holdings
  PROVE  Applied(m, d) \in Holdings
<1>1. /\ d.arr \in [1..N -> Positions \cup {Junk}] /\ d.num \in Int /\ d.num <= N
      /\ N \in Int /\ N <= N
  BY NAssumption DEF Holdings
<1>2. CASE m.type = "T"
  <2>1. m.set \in [1..N -> Positions \cup {Junk}]
    BY <1>2, MsgFields, TargetSetAssumption
  <2> QED
    BY <1>1, <1>2, <2>1 DEF Applied, Holdings
<1>3. CASE m.type = "TH" /\ Matches(m, d.arr)
  <2>1. remove_target(m.idx, d.arr, d.num) \in [1..N -> Positions \cup {Junk}]
    BY <1>1, <1>3, MsgFields, RemoveType
  <2>2. d.num - 1 \in Int /\ d.num - 1 <= N
    BY <1>1
  <2> QED
    BY <1>3, <2>1, <2>2 DEF Applied, Holdings
<1>4. CASE m.type # "T" /\ ~(m.type = "TH" /\ Matches(m, d.arr))
  BY <1>4 DEF Applied
<1> QED
  BY <1>2, <1>3, <1>4

LEMMA HistoryExists ==
  ASSUME NEW d \in Holdings, NEW msgs \in Seq(Msg)
  PROVE  \E h : IsHistory(h, d, msgs)
<1> DEFINE Upto(h, n) == /\ h \in [0..n -> Holdings]
                         /\ h[0] = d
                         /\ \A k \in 1..n : h[k] = Applied(msgs[k], h[k - 1])
           A == {n \in Nat : n <= Len(msgs) => \E h : Upto(h, n)}
<1>l. Len(msgs) \in Nat /\ \A i \in 1..Len(msgs) : msgs[i] \in Msg
  BY ElementOfSeq
<1>1. 0 \in A
  <2>1. Upto([k \in 0..0 |-> d], 0)
    OBVIOUS
  <2> QED
    BY <2>1
<1>2. ASSUME NEW n \in Nat, n \in A PROVE n + 1 \in A
  <2> SUFFICES ASSUME n + 1 <= Len(msgs) PROVE \E h : Upto(h, n + 1)
    OBVIOUS
  <2>1. PICK h : Upto(h, n)
    BY <1>l, <1>2
  <2> DEFINE g == [k \in 0..(n + 1) |-> IF k <= n THEN h[k]
                                        ELSE Applied(msgs[n + 1], h[n])]
  <2>2. Applied(msgs[n + 1], h[n]) \in Holdings
    <3>1. h[n] \in Holdings /\ msgs[n + 1] \in Msg
      BY <1>l, <2>1
    <3> QED
      BY <3>1, AppliedType
  <2>3. g \in [0..(n + 1) -> Holdings] /\ g[0] = d
    BY <2>1, <2>2
  <2>4. ASSUME NEW k \in 1..(n + 1) PROVE g[k] = Applied(msgs[k], g[k - 1])
    <3>1. CASE k = n + 1
      <4>1. g[k] = Applied(msgs[n + 1], h[n]) /\ g[k - 1] = h[n]
        BY <3>1
      <4> QED
        BY <3>1, <4>1
    <3>2. CASE k \in 1..n
      <4>1. g[k] = h[k] /\ g[k - 1] = h[k - 1]
        BY <3>2
      <4> QED
        BY <2>1, <3>2, <4>1
    <3> QED
      BY <3>1, <3>2
  <2> HIDE DEF g
  <2> QED
    BY <2>3, <2>4
<1> HIDE DEF A
<1>3. Len(msgs) \in A
  BY <1>1, <1>2, <1>l, Induction
<1> USE DEF A
<1>4. \E h : Upto(h, Len(msgs))
  BY <1>3, <1>l
<1> QED
  BY <1>4 DEF IsHistory

LEMMA HistoryIsHeard ==
  ASSUME NEW d, NEW msgs \in Seq(Msg), NEW h, IsHistory(h, d, msgs)
  PROVE  Heard(d, msgs) = h
<1> DEFINE L == Len(msgs)
           Eq(g) == g = [k \in 0..L |-> IF k = 0 THEN d ELSE Applied(msgs[k], g[k - 1])]
           g == Heard(d, msgs)
           A == {n \in Nat : n <= L => g[n] = h[n]}
<1>l. L \in Nat
  OBVIOUS
<1>1. Eq(h)
  <2> DEFINE e == [k \in 0..L |-> IF k = 0 THEN d ELSE Applied(msgs[k], h[k - 1])]
  <2>1. h \in [0..L -> Holdings]
    BY DEF IsHistory
  <2>2. ASSUME NEW k \in 0..L PROVE h[k] = e[k]
    BY <1>l DEF IsHistory
  <2> QED
    BY <2>1, <2>2
<1>2. Eq(g)
  <2>1. g = CHOOSE f : Eq(f)
    BY Zenon DEF Heard
  <2> HIDE DEF Eq, g
  <2> QED
    BY <1>1, <2>1
<1>3. 0 \in A
  BY <1>2, <1>l DEF IsHistory
<1>4. ASSUME NEW n \in Nat, n \in A PROVE n + 1 \in A
  <2> SUFFICES ASSUME n + 1 <= L PROVE g[n + 1] = h[n + 1]
    OBVIOUS
  <2>1. g[n] = h[n]
    BY <1>4, <1>l
  <2>2. g[n + 1] = Applied(msgs[n + 1], g[n])
    BY <1>2, <1>l
  <2>3. h[n + 1] = Applied(msgs[n + 1], h[n])
    BY <1>l DEF IsHistory
  <2> QED
    BY <2>1, <2>2, <2>3
<1>5. \A n \in 0..L : g[n] = h[n]
  <2> HIDE DEF A, g
  <2>1. \A n \in Nat : n \in A
    BY <1>3, <1>4, Induction
  <2> QED
    BY <2>1, <1>l DEF A
<1>6. DOMAIN g = 0..L /\ g = [n \in DOMAIN g |-> g[n]]
  BY <1>2
<1> HIDE DEF g
<1> QED
  BY <1>5, <1>6 DEF IsHistory

LEMMA HeardIsHistory ==
  ASSUME NEW d \in Holdings, NEW msgs \in Seq(Msg)
  PROVE  IsHistory(Heard(d, msgs), d, msgs)
BY HistoryExists, HistoryIsHeard

\* Reading on from a longer queue changes nothing of what was heard before.
LEMMA HeardPrefix ==
  ASSUME NEW d \in Holdings, NEW s \in Seq(Msg), NEW t \in Seq(Msg),
         Len(s) <= Len(t), \A i \in 1..Len(s) : t[i] = s[i]
  PROVE  \A k \in 0..Len(s) : Heard(d, s)[k] = Heard(d, t)[k]
<1> DEFINE h == Heard(d, t)
           g == [k \in 0..Len(s) |-> h[k]]
<1>1. IsHistory(h, d, t) /\ Len(s) \in Nat /\ Len(t) \in Nat
  BY HeardIsHistory
<1> HIDE DEF h
<1>2. \A k \in 0..Len(s) : k \in 0..Len(t)
  BY <1>1
<1>3. g \in [0..Len(s) -> Holdings] /\ g[0] = d
  BY <1>1, <1>2 DEF IsHistory
<1>4. \A k \in 1..Len(s) : g[k] = Applied(s[k], g[k - 1])
  BY <1>1 DEF IsHistory
<1>5. IsHistory(g, d, s)
  BY <1>3, <1>4 DEF IsHistory
<1>6. Heard(d, s) = g
  BY <1>5, HistoryIsHeard
<1> QED
  BY <1>6 DEF h

LEMMA HeardAppend ==
  ASSUME NEW d \in Holdings, NEW s \in Seq(Msg), NEW m \in Msg
  PROVE  LET t == Append(s, m)
         IN  /\ \A k \in 0..Len(s) : Heard(d, t)[k] = Heard(d, s)[k]
             /\ Heard(d, t)[Len(t)] = Applied(m, Heard(d, s)[Len(s)])
<1> DEFINE t == Append(s, m)
<1>1. /\ t \in Seq(Msg) /\ Len(s) \in Nat /\ Len(t) = Len(s) + 1
      /\ \A i \in 1..Len(s) : t[i] = s[i]
      /\ t[Len(s) + 1] = m
  BY AppendFacts
<1> HIDE DEF t
<1>2. \A k \in 0..Len(s) : Heard(d, s)[k] = Heard(d, t)[k]
  BY <1>1, HeardPrefix
<1>3. Heard(d, t)[Len(t)] = Applied(t[Len(t)], Heard(d, t)[Len(t) - 1])
  <2>1. IsHistory(Heard(d, t), d, t)
    BY <1>1, HeardIsHistory
  <2> QED
    BY <1>1, <2>1 DEF IsHistory
<1> QED
  BY <1>1, <1>2, <1>3 DEF t

LEMMA HeardTail ==
  ASSUME NEW d \in Holdings, NEW s \in Seq(Msg), s # <<>>
  PROVE  /\ Applied(Head(s), d) \in Holdings
         /\ \A k \in 0..Len(Tail(s)) :
              Heard(Applied(Head(s), d), Tail(s))[k] = Heard(d, s)[k + 1]
<1> DEFINE h == Heard(d, s)
           t == Tail(s)
           g == [k \in 0..Len(t) |-> h[k + 1]]
<1>1. /\ Head(s) = s[1] /\ Head(s) \in Msg /\ t \in Seq(Msg)
      /\ Len(s) \in Nat /\ Len(s) > 0 /\ Len(t) = Len(s) - 1
      /\ \A i \in 1..Len(t) : t[i] = s[i + 1]
  BY TailFacts
<1>2. h \in [0..Len(s) -> Holdings] /\ h[0] = d
  BY HeardIsHistory DEF IsHistory
<1>3. \A k \in 1..Len(s) : h[k] = Applied(s[k], h[k - 1])
  BY HeardIsHistory DEF IsHistory
<1> HIDE DEF h, t
<1>4. h[1] = Applied(Head(s), d) /\ h[1] \in Holdings
  BY <1>1, <1>2, <1>3
<1>5. g \in [0..Len(t) -> Holdings] /\ g[0] = h[1]
  BY <1>1, <1>2
<1>6. ASSUME NEW k \in 1..Len(t) PROVE g[k] = Applied(t[k], g[k - 1])
  <2>1. g[k] = h[k + 1] /\ g[k - 1] = h[k] /\ k + 1 \in 1..Len(s)
    BY <1>1
  <2> QED
    BY <1>1, <1>3, <2>1
<1>7. IsHistory(g, h[1], t)
  BY <1>5, <1>6 DEF IsHistory
<1>8. Heard(h[1], t) = g
  BY <1>1, <1>7, HistoryIsHeard
<1> QED
  BY <1>4, <1>8 DEF h, t

----------------------------------------------------------------------------
(* The queue tells the drone of a set of targets: every report in it is    *)
(* about an entry that the drone will hold at that place when it reads it, *)
(* and after the last message the drone holds the set, entry by entry.     *)

Told(d, set) ==
  d.num = set.num /\ \A i \in 1..set.num : d.arr[i] = set.arr[i]

Heeded(m, d) == m.type = "TH" => Matches(m, d.arr) /\ m.idx <= d.num

Tells(d, msgs, set) ==
  /\ Told(Heard(d, msgs)[Len(msgs)], set)
  /\ \A k \in 1..Len(msgs) : Heeded(msgs[k], Heard(d, msgs)[k - 1])

LEMMA TellsTail ==
  ASSUME NEW d \in Holdings, NEW s \in Seq(Msg), s # <<>>, NEW set, Tells(d, s, set)
  PROVE  Tells(Applied(Head(s), d), Tail(s), set)
<1>1. /\ Tail(s) \in Seq(Msg) /\ Len(s) \in Nat /\ Len(s) > 0
      /\ Len(Tail(s)) = Len(s) - 1
      /\ \A i \in 1..Len(Tail(s)) : Tail(s)[i] = s[i + 1]
  BY TailFacts
<1>2. \A k \in 0..Len(Tail(s)) :
        Heard(Applied(Head(s), d), Tail(s))[k] = Heard(d, s)[k + 1]
  BY HeardTail
<1>3. Heard(Applied(Head(s), d), Tail(s))[Len(Tail(s))] = Heard(d, s)[Len(s)]
  BY <1>1, <1>2
<1>4. ASSUME NEW k \in 1..Len(Tail(s))
      PROVE  Heeded(Tail(s)[k], Heard(Applied(Head(s), d), Tail(s))[k - 1])
  <2>1. /\ k - 1 \in 0..Len(Tail(s)) /\ k + 1 \in 1..Len(s) /\ (k - 1) + 1 = k
        /\ (k + 1) - 1 = k
    BY <1>1
  <2>2. Heeded(s[k + 1], Heard(d, s)[k])
    BY <2>1 DEF Tells
  <2> QED
    BY <1>1, <1>2, <2>1, <2>2
<1> QED
  BY <1>3, <1>4 DEF Tells, Told

LEMMA TellsAppend ==
  ASSUME NEW d \in Holdings, NEW s \in Seq(Msg), NEW m \in Msg, NEW set, NEW new,
         Tells(d, s, set),
         Heeded(m, Heard(d, s)[Len(s)]),
         Told(Applied(m, Heard(d, s)[Len(s)]), new)
  PROVE  Tells(d, Append(s, m), new)
<1> DEFINE t == Append(s, m)
<1>1. /\ Len(s) \in Nat /\ Len(t) = Len(s) + 1 /\ t[Len(s) + 1] = m
      /\ \A i \in 1..Len(s) : t[i] = s[i]
  BY AppendFacts
<1>2. /\ \A k \in 0..Len(s) : Heard(d, t)[k] = Heard(d, s)[k]
      /\ Heard(d, t)[Len(t)] = Applied(m, Heard(d, s)[Len(s)])
  BY HeardAppend
<1> HIDE DEF t
<1>3. ASSUME NEW k \in 1..Len(t) PROVE Heeded(t[k], Heard(d, t)[k - 1])
  <2>1. CASE k \in 1..Len(s)
    <3>1. k - 1 \in 0..Len(s)
      BY <1>1, <2>1
    <3> QED
      BY <1>1, <1>2, <2>1, <3>1 DEF Tells
  <2>2. CASE k = Len(s) + 1
    <3>1. k - 1 = Len(s) /\ Len(s) \in 0..Len(s)
      BY <1>1, <2>2
    <3> QED
      BY <1>1, <1>2, <2>2, <3>1
  <2> QED
    BY <1>1, <2>1, <2>2
<1>4. Told(Heard(d, t)[Len(t)], new)
  BY <1>2 DEF Told
<1> QED
  BY <1>3, <1>4 DEF Tells, t

\* A new set: the drone takes it whatever it holds.
LEMMA TellsSet ==
  ASSUME NEW d \in Holdings, NEW s \in Seq(Msg), NEW m \in Msg, m.type = "T",
         NEW set, Tells(d, s, set)
  PROVE  Tells(d, Append(s, m), [arr |-> m.set, num |-> N])
<1>1. Heeded(m, Heard(d, s)[Len(s)])
  BY DEF Heeded
<1>2. Applied(m, Heard(d, s)[Len(s)]) = [arr |-> m.set, num |-> N]
  BY DEF Applied
<1>3. Told(Applied(m, Heard(d, s)[Len(s)]), [arr |-> m.set, num |-> N])
  BY <1>2 DEF Told
<1> QED
  BY <1>1, <1>3, TellsAppend

\* A hit on entry f of the set: the drone removes what the map removes.
LEMMA TellsHit ==
  ASSUME NEW d \in Holdings, NEW s \in Seq(Msg), NEW m \in Msg, m.type = "TH",
         NEW arr, NEW n \in 0..N, m.idx \in 1..n, m.pos = arr[m.idx],
         Tells(d, s, [arr |-> arr, num |-> n])
  PROVE  Tells(d, Append(s, m), [arr |-> remove_target(m.idx, arr, n), num |-> n - 1])
<1> USE NAssumption
<1> DEFINE e == Heard(d, s)[Len(s)]
           f == m.idx
           old == [arr |-> arr, num |-> n]
           new == [arr |-> remove_target(f, arr, n), num |-> n - 1]
<1>1. e.num = n /\ \A i \in 1..n : e.arr[i] = arr[i]
  BY DEF Tells, Told
<1> HIDE DEF e
<1>2. Matches(m, e.arr) /\ Heeded(m, e)
  BY <1>1 DEF Matches, Heeded
<1>3. Applied(m, e) = [arr |-> remove_target(f, e.arr, n), num |-> n - 1]
  BY <1>1, <1>2 DEF Applied
<1>4. \A i \in 1..(n - 1) : remove_target(f, e.arr, n)[i] = remove_target(f, arr, n)[i]
  <2> SUFFICES ASSUME NEW i \in 1..(n - 1)
               PROVE  remove_target(f, e.arr, n)[i] = remove_target(f, arr, n)[i]
    OBVIOUS
  <2>1. i \in 1..N /\ i \in 1..n /\ i + 1 \in 1..n
    OBVIOUS
  <2> QED
    BY <1>1, <2>1 DEF remove_target
<1>5. Told(Applied(m, e), new)
  BY <1>3, <1>4 DEF Told
<1> HIDE DEF new
<1>6. Tells(d, Append(s, m), new)
  BY <1>2, <1>5, TellsAppend DEF e
<1> QED
  BY <1>6 DEF new

----------------------------------------------------------------------------
(* What each step does to the messages under way and to the set in play.   *)

LEMMA Pred ==
  /\ \A x, y : y \in Nat /\ x = y - 1 => y = x + 1 /\ 1 + x = y /\ (x = 0 => y = 1)
  /\ \A x : x \in Nat /\ x > 0 /\ x <= 1 => x = 1
OBVIOUS

LEMMA EmptyLen ==
  ASSUME NEW q \in Seq(Msg)
  PROVE  Len(q) \in Nat /\ (q = <<>> <=> Len(q) = 0)
<1>1. Len(<<>>) = 0
  BY EmptySeq
<1>2. q # <<>> => Len(q) \in Nat \ {0}
  BY EmptySeq
<1>3. Len(q) \in Nat
  OBVIOUS
<1> QED
  BY <1>1, <1>2, <1>3

\* The first n messages of a queue.
LEMMA FirstFacts ==
  ASSUME NEW q \in Seq(Msg), NEW n \in 0..Len(q)
  PROVE  /\ SubSeq(q, 1, n) \in Seq(Msg) /\ Len(SubSeq(q, 1, n)) = n
         /\ \A i \in 1..n : SubSeq(q, 1, n)[i] = q[i]
<1>1. n \in Int /\ n >= 0 /\ 1 \in Int /\ \A i \in 1..n : q[i] \in Msg
  BY ElementOfSeq
<1>2. /\ SubSeq(q, 1, n) \in Seq(Msg)
      /\ Len(SubSeq(q, 1, n)) = IF 1 <= n THEN n - 1 + 1 ELSE 0
      /\ \A i \in 1..(n - 1 + 1) : SubSeq(q, 1, n)[i] = q[1 + i - 1]
  BY <1>1, SubSeqProperties
<1> QED
  BY <1>1, <1>2

LEMMA HitsFacts ==
  ASSUME NEW q \in Seq(Msg), ReportQueueOK(q)
  PROVE  /\ Hits(q) \in Seq(Msg)
         /\ \A i \in 1..Len(Hits(q)) : Hits(q)[i].type = "TH"
         /\ ~HasGE(q) => Hits(q) = q
         /\ Hits(<<>>) = <<>>
<1>l. Len(q) \in Nat /\ (q # <<>> => Len(q) > 0)
  BY EmptySeq
<1>1. CASE q # <<>> /\ q[Len(q)].type = "GE"
  <2>1. Hits(q) = SubSeq(q, 1, Len(q) - 1)
    BY <1>1 DEF Hits
  <2>2. Len(q) - 1 \in 0..Len(q)
    BY <1>l, <1>1
  <2>3. /\ Hits(q) \in Seq(Msg) /\ Len(Hits(q)) = Len(q) - 1
        /\ \A i \in 1..(Len(q) - 1) : Hits(q)[i] = q[i]
    BY <2>1, <2>2, FirstFacts
  <2>4. \A i \in 1..(Len(q) - 1) : q[i].type = "TH"
    BY <1>l DEF ReportQueueOK
  <2>5. HasGE(q)
    BY <1>l, <1>1 DEF HasGE
  <2> QED
    BY <2>3, <2>4, <2>5 DEF Hits
<1>2. CASE ~(q # <<>> /\ q[Len(q)].type = "GE")
  <2>1. Hits(q) = q
    BY <1>2 DEF Hits
  <2>2. \A i \in 1..Len(q) : q[i].type = "TH"
    BY <1>l, <1>2, EmptySeq DEF ReportQueueOK
  <2> QED
    BY <2>1, <2>2 DEF Hits
<1> QED
  BY <1>1, <1>2

LEMMA HitsAppend ==
  ASSUME NEW q \in Seq(Msg), ReportQueueOK(q), ~HasGE(q), NEW m \in Msg
  PROVE  /\ m.type = "TH" => Hits(Append(q, m)) = Append(Hits(q), m)
         /\ m.type = "GE" => Hits(Append(q, m)) = Hits(q)
<1>1. /\ Append(q, m) \in Seq(Msg) /\ Append(q, m) # <<>> /\ Len(q) \in Nat
      /\ Len(Append(q, m)) = Len(q) + 1 /\ Append(q, m)[Len(q) + 1] = m
      /\ \A i \in 1..Len(q) : Append(q, m)[i] = q[i]
  BY AppendFacts
<1>2. Hits(q) = q
  BY HitsFacts
<1>3. m.type = "TH" => Hits(Append(q, m)) = Append(q, m)
  BY <1>1 DEF Hits
<1>4. ASSUME m.type = "GE" PROVE Hits(Append(q, m)) = q
  <2> DEFINE t == Append(q, m)
  <2>1. Hits(t) = SubSeq(t, 1, Len(q))
    BY <1>1, <1>4 DEF Hits
  <2>2. Len(q) \in 0..Len(t)
    BY <1>1
  <2>3. /\ Hits(t) \in Seq(Msg) /\ Len(Hits(t)) = Len(q)
        /\ \A i \in 1..Len(q) : Hits(t)[i] = t[i]
    BY <1>1, <2>1, <2>2, FirstFacts
  <2> QED
    BY <1>1, <2>3, SeqEqual
<1> QED
  BY <1>2, <1>3, <1>4

LEMMA HitsTail ==
  ASSUME NEW q \in Seq(Msg), ReportQueueOK(q), q # <<>>
  PROVE  /\ Head(q).type = "TH" => Hits(q) = <<Head(q)>> \o Hits(Tail(q))
         /\ Head(q).type = "GE" => Hits(q) = Hits(Tail(q))
<1>1. /\ Head(q) = q[1] /\ Head(q) \in Msg /\ Tail(q) \in Seq(Msg)
      /\ Len(q) \in Nat /\ Len(q) > 0 /\ Len(Tail(q)) = Len(q) - 1
      /\ \A i \in 1..Len(Tail(q)) : Tail(q)[i] = q[i + 1]
  BY TailFacts
<1>n. Len(q) \in Nat /\ Len(Tail(q)) \in Nat /\ Len(Tail(q)) = Len(q) - 1
  BY TailFacts
<1>2. /\ Head(q).type \in {"TH", "GE"}
      /\ Head(q).type = "GE" => Tail(q) = <<>>
      /\ ReportQueueOK(Tail(q))
  BY ReportQueueTail
<1>3. ASSUME Head(q).type = "GE" PROVE Hits(q) = Hits(Tail(q))
  <2>1. Len(q) = 1
    <3>1. Len(Tail(q)) = 0
      BY <1>1, <1>2, <1>3, EmptyLen
    <3> QED
      BY <1>n, <3>1, Pred, Zenon
  <2>2. Hits(q) = SubSeq(q, 1, 0)
    BY <1>1, <1>3, <2>1 DEF Hits
  <2>3. Hits(q) = <<>>
    BY <2>2, SubSeqEmpty
  <2> QED
    BY <1>2, <1>3, <2>3 DEF Hits
<1>4. ASSUME Head(q).type = "TH" PROVE Hits(q) = <<Head(q)>> \o Hits(Tail(q))
  <2> DEFINE L == Len(q)
             t == Tail(q)
  <2>1. q = <<q[1]>> \o t
    BY <1>1, ConcatProperties, SeqEqual
  <2>2. CASE q[L].type = "GE"
    <3>1. L > 1 /\ t # <<>> /\ t[Len(t)] = q[L]
      <4>1. L > 1
        BY <1>1, <1>4, <2>2
      <4>2. Len(t) \in 1..Len(t) /\ Len(t) + 1 = L
        BY <1>1, <4>1
      <4>3. t # <<>>
        <5>1. Len(t) # 0
          BY <1>1, <4>1
        <5> QED
          BY <1>1, <5>1, EmptyLen
      <4> QED
        BY <1>1, <4>1, <4>2, <4>3
    <3>2. Hits(q) = SubSeq(q, 1, L - 1) /\ Hits(t) = SubSeq(t, 1, Len(t) - 1)
      BY <2>2, <3>1 DEF Hits
    <3>3. L - 1 \in 0..L
      BY <1>1
    <3>4. Len(t) - 1 \in 0..Len(t)
      BY <1>1, <3>1
    <3>5. /\ Hits(q) \in Seq(Msg) /\ Len(Hits(q)) = L - 1
          /\ \A i \in 1..(L - 1) : Hits(q)[i] = q[i]
      BY <3>2, <3>3, FirstFacts
    <3>6. /\ Hits(t) \in Seq(Msg) /\ Len(Hits(t)) = Len(t) - 1
          /\ \A i \in 1..(Len(t) - 1) : Hits(t)[i] = t[i]
      BY <1>1, <3>2, <3>4, FirstFacts
    <3>7. /\ <<q[1]>> \in Seq(Msg) /\ Len(<<q[1]>>) = 1 /\ <<q[1]>>[1] = q[1]
      BY <1>1
    <3>8. /\ <<q[1]>> \o Hits(t) \in Seq(Msg)
          /\ Len(<<q[1]>> \o Hits(t)) = 1 + Len(Hits(t))
          /\ \A i \in 1..(1 + Len(Hits(t))) : (<<q[1]>> \o Hits(t))[i]
                 = IF i <= 1 THEN <<q[1]>>[i] ELSE Hits(t)[i - 1]
      BY <3>6, <3>7, ConcatProperties
    <3>9. \A i \in 1..(L - 1) : Hits(q)[i] = (<<q[1]>> \o Hits(t))[i]
      BY <1>1, <3>5, <3>6, <3>7, <3>8
    <3>10. Len(<<q[1]>> \o Hits(t)) = L - 1
      <4>1. 1 + Len(Hits(t)) = Len(t) /\ Len(t) = L - 1
        BY <1>n, <3>6, Pred, Zenon
      <4>2. Len(<<q[1]>> \o Hits(t)) = 1 + Len(Hits(t))
        BY <3>8
      <4> QED
        BY <4>1, <4>2, Zenon
    <3>11. Hits(q) = <<q[1]>> \o Hits(t)
      BY <3>5, <3>8, <3>9, <3>10, SeqEqual
    <3> QED
      BY <1>1, <3>11
  <2>3. CASE q[L].type # "GE"
    <3>1. Hits(q) = q
      BY <2>3 DEF Hits
    <3>2. t # <<>> => t[Len(t)] = q[L]
      BY <1>1, EmptySeq
    <3>3. Hits(t) = t
      BY <2>3, <3>2 DEF Hits
    <3> QED
      BY <1>1, <2>1, <3>1, <3>3
  <2> QED
    BY <2>2, <2>3
<1> QED
  BY <1>3, <1>4

LEMMA Associative ==
  \A s, t, u \in Seq(Msg) : (s \o t) \o u = s \o (t \o u)
BY ConcatAssociative

LEMMA ConcatTail ==
  ASSUME NEW s \in Seq(Msg), s # <<>>, NEW t \in Seq(Msg)
  PROVE  /\ s \o t # <<>> /\ Head(s \o t) = Head(s)
         /\ Tail(s \o t) = Tail(s) \o t
<1> DEFINE st == s \o t
           u == Tail(s)
<1>1. /\ st \in Seq(Msg) /\ Len(st) = Len(s) + Len(t)
      /\ \A i \in 1..(Len(s) + Len(t)) :
           st[i] = IF i <= Len(s) THEN s[i] ELSE t[i - Len(s)]
  BY ConcatProperties
<1>2. /\ Head(s) = s[1] /\ u \in Seq(Msg) /\ Len(s) \in Nat /\ Len(s) > 0
      /\ Len(u) = Len(s) - 1 /\ \A i \in 1..Len(u) : u[i] = s[i + 1]
  BY TailFacts
<1>3. /\ u \o t \in Seq(Msg) /\ Len(u \o t) = Len(u) + Len(t)
      /\ \A i \in 1..(Len(u) + Len(t)) :
           (u \o t)[i] = IF i <= Len(u) THEN u[i] ELSE t[i - Len(u)]
  BY <1>2, ConcatProperties
<1>4. Len(t) \in Nat
  OBVIOUS
<1>5. st # <<>>
  <2>1. Len(st) # 0
    BY <1>1, <1>2, <1>4
  <2> QED
    BY <1>1, <2>1, EmptyLen
<1> DEFINE v == Tail(st)
<1>6. /\ Head(st) = st[1] /\ v \in Seq(Msg) /\ Len(v) = Len(st) - 1
      /\ \A i \in 1..Len(v) : v[i] = st[i + 1]
  BY <1>1, <1>5, TailFacts
<1> HIDE DEF st, u, v
<1>7. Head(st) = Head(s)
  BY <1>1, <1>2, <1>4, <1>6
<1>8. Len(v) = Len(u \o t)
  BY <1>1, <1>2, <1>3, <1>4, <1>6
<1>9. \A i \in 1..Len(v) : v[i] = (u \o t)[i]
  <2> SUFFICES ASSUME NEW i \in 1..Len(v) PROVE v[i] = (u \o t)[i]
    OBVIOUS
  <2>1. i + 1 \in 1..(Len(s) + Len(t)) /\ i \in 1..(Len(u) + Len(t))
    BY <1>1, <1>2, <1>4, <1>6
  <2>2. v[i] = IF i + 1 <= Len(s) THEN s[i + 1] ELSE t[(i + 1) - Len(s)]
    BY <1>1, <1>6, <2>1
  <2>3. (u \o t)[i] = IF i <= Len(u) THEN u[i] ELSE t[i - Len(u)]
    BY <1>3, <2>1
  <2>4. i + 1 <= Len(s) <=> i <= Len(u)
    BY <1>2
  <2>5. (i + 1) - Len(s) = i - Len(u)
    BY <1>2
  <2>6. i <= Len(u) => u[i] = s[i + 1]
    BY <1>2
  <2> QED
    BY <2>2, <2>3, <2>4, <2>5, <2>6
<1>10. v = u \o t
  BY <1>3, <1>6, <1>8, <1>9, SeqEqual
<1> QED
  BY <1>5, <1>7, <1>10 DEF st, u, v

LEMMA RoundTypes ==
  ASSUME RoundInv
  PROVE  /\ TypeOK /\ TypeInv /\ QueuesOK /\ OneHolder
         /\ \A p \in PipeNames : pipe[p] \in Seq(Msg)
         /\ Writing \in Seq(Msg)
         /\ Hits(pipe["map_server"]) \in Seq(Msg)
         /\ OnTheWay \in Seq(Msg)
<1>1. TypeOK /\ TypeInv /\ QueuesOK /\ OneHolder
  BY DEF RoundInv, TypeInv
<1>2. \A p \in PipeNames : pipe[p] \in Seq(Msg)
  BY <1>1 DEF TypeOK
<1>3. pipe["map_server"] \in Seq(Msg) /\ pipe["server_drone"] \in Seq(Msg)
  BY <1>2 DEF PipeNames
<1>4. Hits(pipe["map_server"]) \in Seq(Msg)
  BY <1>1, <1>3, HitsFacts DEF QueuesOK
<1>5. Writing \in Seq(Msg)
  <2>1. CASE to_write = <<>>
    BY <2>1 DEF Writing
  <2>2. ASSUME NEW m \in Msg,
               to_write = <<[to |-> "server_map", msg |-> m],
                            [to |-> "server_drone", msg |-> m]>>
        PROVE  Writing \in Seq(Msg)
    BY <2>2 DEF Writing
  <2>3. ASSUME NEW m \in Msg, NEW p, to_write = Write1(p, m)
        PROVE  Writing \in Seq(Msg)
    BY <2>3 DEF Writing, Write1
  <2> QED
    BY <1>1, <2>1, <2>2, <2>3 DEF QueuesOK, ToWriteOK
<1>6. OnTheWay \in Seq(Msg)
  BY <1>3, <1>4, <1>5, ConcatProperties DEF OnTheWay
<1> QED
  BY <1>1, <1>2, <1>4, <1>5, <1>6

\* Writing, for each shape of the branch the server is in.
LEMMA WritingIs ==
  /\ to_write = <<>> => Writing = <<>>
  /\ \A m : to_write = Write1("server_drone", m) => Writing = <<m>>
  /\ \A m, p : to_write = Write1(p, m) /\ p # "server_drone" => Writing = <<>>
  /\ \A m : to_write = <<[to |-> "server_map", msg |-> m],
                         [to |-> "server_drone", msg |-> m]>> => Writing = <<m>>
<1>1. to_write = <<>> => Writing = <<>>
  BY DEF Writing
<1>2. ASSUME NEW m, NEW p, to_write = Write1(p, m)
      PROVE  Writing = IF p = "server_drone" THEN <<m>> ELSE <<>>
  BY <1>2 DEF Writing, Write1
<1>3. ASSUME NEW m, to_write = <<[to |-> "server_map", msg |-> m],
                                 [to |-> "server_drone", msg |-> m]>>
      PROVE  Writing = <<m>>
  BY <1>3 DEF Writing
<1> QED
  BY <1>1, <1>2, <1>3

\* A hit is reported behind all that is under way.
LEMMA HitWay ==
  ASSUME RoundInv, MapHit
  PROVE  OnTheWay' = Append(OnTheWay, HitReport(frame)) /\ HitReport(frame) \in Msg
<1> DEFINE q == pipe["map_server"]
           m == HitReport(frame)
           front == pipe["server_drone"] \o Writing
<1>p. PipeNames = {"server_map", "map_server", "server_drone",
                   "target_server", "server_target"}
  BY DEF PipeNames
<1>t. TypeOK /\ TypeInv /\ QueuesOK /\ OneHolder /\ q \in Seq(Msg)
  BY <1>p, RoundTypes
<1>1. frame \in 1..target_num /\ target_num \in 0..N /\ frame \in 1..N
  BY <1>t, NAssumption DEF MapHit, TypeOK
<1>2. m \in Msg /\ m.type = "TH"
  BY <1>t, <1>1 DEF HitReport, TypeInv, Filled, Msg, THMsg
<1>3. ~HasGE(q) /\ ReportQueueOK(q)
  <2>1. Playing
    BY <1>1 DEF Playing
  <2> QED
    BY <1>t, <2>1 DEF OneHolder, One, EndSent, QueuesOK
<1> HIDE DEF m
<1>4. /\ pipe'["map_server"] = Append(q, m)
      /\ pipe'["server_drone"] = pipe["server_drone"] /\ to_write' = to_write
  BY <1>t, <1>p, <1>2, SentType DEF MapHit, m
<1>5. Hits(q)' = Append(Hits(q), m)
  BY <1>t, <1>2, <1>3, <1>4, HitsAppend
<1>6. front \in Seq(Msg) /\ Hits(q) \in Seq(Msg)
  BY <1>p, RoundTypes, ConcatProperties
<1>7. front' = front
  BY <1>4 DEF Writing
<1> HIDE DEF front
<1>8. front \o Append(Hits(q), m) = Append(front \o Hits(q), m)
  BY <1>2, <1>6, ConcatProperties, AppendIsConcat, ConcatAssociative
<1> QED
  BY <1>2, <1>5, <1>7, <1>8 DEF OnTheWay, front, m

\* A set is passed on when nothing else is under way from the map.
LEMMA SetWay ==
  ASSUME RoundInv, ServerFromTarget
  PROVE  LET m == Head(pipe["target_server"])
         IN  /\ m \in Msg /\ m.type = "T"
             /\ pipe["target_server"] = <<m>> /\ pipe'["target_server"] = <<>>
             /\ pipe["map_server"] = <<>> /\ target_num = 0
             /\ OnTheWay' = Append(OnTheWay, m)
<1> DEFINE q == pipe["target_server"]
           m == Head(q)
           sd == pipe["server_drone"]
<1>p. PipeNames = {"server_map", "map_server", "server_drone",
                   "target_server", "server_target"}
  BY DEF PipeNames
<1>t. /\ TypeOK /\ QueuesOK /\ OneHolder /\ q \in Seq(Msg) /\ q # <<>>
      /\ sd \in Seq(Msg) /\ to_write = <<>>
  BY <1>p, RoundTypes DEF ServerFromTarget
<1>1. /\ pipe'["target_server"] = Tail(q)
      /\ \A p \in PipeNames : p # "target_server" => pipe'[p] = pipe[p]
      /\ m \in Msg
  BY <1>t, <1>p, ReceivedType DEF ServerFromTarget
<1>2. m.type = "T" /\ Tail(q) = <<>> /\ q = <<m>>
  <2>1. Len(q) <= 1 /\ \A i \in 1..Len(q) : q[i].type = "T"
    BY <1>t DEF QueuesOK, SetQueueOK
  <2>2. m = q[1] /\ Len(q) \in Nat /\ Len(q) > 0
    BY <1>t, TailFacts
  <2>3. Len(q) = 1 /\ Len(q) <= 1
    <3>1. Len(q) <= 1 /\ Len(q) \in Nat /\ Len(q) > 0
      BY <2>1, <2>2
    <3> QED
      BY <3>1, Pred, Zenon
  <2>4. q = <<m>>
    <3>1. <<m>> \in Seq(Msg) /\ Len(<<m>>) = 1 /\ <<m>>[1] = m
      BY <1>1
    <3> HIDE DEF m
    <3> QED
      BY <1>t, <2>2, <2>3, <3>1, SeqEqual
  <2>5. m.type = "T"
    BY <2>1, <2>2, <2>3
  <2>6. Tail(q) = <<>>
    BY <1>t, <2>3, ShortQueue
  <2> QED
    BY <2>4, <2>5, <2>6
<1>3. pipe["map_server"] = <<>> /\ target_num = 0
  <2>1. SetSent
    BY <1>t DEF SetSent
  <2>2. ~Playing /\ ~EndSent
    BY <1>t, <2>1 DEF OneHolder, One
  <2> QED
    BY <1>t, <2>2 DEF QueuesOK, Playing, TypeOK
<1>4. to_write' = <<[to |-> "server_map", msg |-> m], [to |-> "server_drone", msg |-> m]>>
  BY DEF ServerFromTarget
<1> HIDE DEF m
<1>5. Writing = <<>> /\ Writing' = <<m>>
  BY <1>t, <1>4 DEF Writing
<1>6. Hits(pipe["map_server"]) = <<>> /\ Hits(pipe'["map_server"]) = <<>>
  BY <1>1, <1>3, <1>p DEF Hits
<1>7. OnTheWay = sd
  BY <1>t, <1>5, <1>6, ConcatEmptySeq DEF OnTheWay
<1>8. OnTheWay' = sd \o <<m>>
  <2>1. <<m>> \in Seq(Msg) /\ sd \o <<m>> \in Seq(Msg)
    BY <1>t, <1>1, ConcatProperties
  <2>2. OnTheWay' = (sd \o <<m>>) \o <<>>
    BY <1>1, <1>5, <1>6, <1>p DEF OnTheWay
  <2> QED
    BY <2>1, <2>2, ConcatEmptySeq
<1>9. OnTheWay' = Append(OnTheWay, m)
  BY <1>t, <1>1, <1>7, <1>8, AppendIsConcat
<1> QED
  BY <1>1, <1>2, <1>3, <1>9 DEF m

\* The drone reads the oldest message under way.
LEMMA DroneWay ==
  ASSUME RoundInv, DroneRead
  PROVE  /\ OnTheWay # <<>> /\ Head(OnTheWay) = Head(pipe["server_drone"])
         /\ OnTheWay' = Tail(OnTheWay)
<1> DEFINE sd == pipe["server_drone"]
           rest == Writing \o Hits(pipe["map_server"])
<1>p. PipeNames = {"server_map", "map_server", "server_drone",
                   "target_server", "server_target"}
  BY DEF PipeNames
<1>t. /\ TypeOK /\ sd \in Seq(Msg) /\ sd # <<>> /\ Tail(sd) \in Seq(Msg)
      /\ Writing \in Seq(Msg) /\ Hits(pipe["map_server"]) \in Seq(Msg)
      /\ rest \in Seq(Msg)
  BY <1>p, RoundTypes, ConcatProperties, HeadTailProperties DEF DroneRead
<1>1. /\ pipe'["server_drone"] = Tail(sd)
      /\ \A p \in PipeNames : p # "server_drone" => pipe'[p] = pipe[p]
      /\ to_write' = to_write
  BY <1>t, <1>p, ReceivedType DEF DroneRead
<1>2. Writing' = Writing /\ pipe'["map_server"] = pipe["map_server"]
  BY <1>1, <1>p DEF Writing
<1>3. OnTheWay = sd \o rest
  BY <1>t, Associative, Zenon DEF OnTheWay
<1>4. OnTheWay' = Tail(sd) \o rest
  <2>1. OnTheWay' = (Tail(sd) \o Writing) \o Hits(pipe["map_server"])
    BY <1>1, <1>2 DEF OnTheWay
  <2> QED
    BY <1>t, <2>1, Associative, Zenon
<1> HIDE DEF rest
<1>5. /\ sd \o rest # <<>> /\ Head(sd \o rest) = Head(sd)
      /\ Tail(sd \o rest) = Tail(sd) \o rest
  BY <1>t, ConcatTail
<1> QED
  BY <1>3, <1>4, <1>5

\* No other step adds to the messages under way or takes one away.
LEMMA SameWay ==
  ASSUME RoundInv, [Next]_vars, ~MapHit, ~ServerFromTarget, ~DroneRead
  PROVE  OnTheWay' = OnTheWay
<1> DEFINE q == pipe["map_server"]
           sd == pipe["server_drone"]
<1>p. PipeNames = {"server_map", "map_server", "server_drone",
                   "target_server", "server_target"}
  BY DEF PipeNames
<1>t. /\ TypeOK /\ QueuesOK /\ OneHolder /\ q \in Seq(Msg) /\ sd \in Seq(Msg)
      /\ Writing \in Seq(Msg) /\ Hits(q) \in Seq(Msg) /\ ReportQueueOK(q)
  BY <1>p, RoundTypes DEF QueuesOK
<1>u. ASSUME q' = q, sd' = sd, Writing' = Writing PROVE OnTheWay' = OnTheWay
  BY <1>u DEF OnTheWay
<1>1. CASE TargetSend
  <2>1. q' = q /\ sd' = sd /\ to_write' = to_write
    BY <1>1, <1>t, <1>p DEF TargetSend, Sent, TypeOK
  <2> QED
    BY <1>u, <2>1 DEF Writing
<1>2. CASE TargetRead
  <2>1. q' = q /\ sd' = sd /\ to_write' = to_write
    BY <1>2, <1>t, <1>p DEF TargetRead, Received, TypeOK
  <2> QED
    BY <1>u, <2>1 DEF Writing
<1>3. CASE ServerPosition
  <2>1. pipe' = pipe /\ Writing = <<>> /\ Writing' = <<>>
    BY <1>3 DEF ServerPosition, Writing
  <2> QED
    BY <1>u, <2>1
<1>4. CASE ServerFromMap
  <2> DEFINE m == Head(q)
  <2>1. /\ q # <<>> /\ Writing = <<>> /\ m \in Msg /\ q' = Tail(q) /\ sd' = sd
        /\ Tail(q) \in Seq(Msg)
    BY <1>4, <1>t, <1>p, ReceivedType, TailFacts DEF ServerFromMap, Writing
  <2>2. /\ m.type \in {"TH", "GE"} /\ ReportQueueOK(Tail(q))
        /\ m.type = "TH" => Hits(q) = <<m>> \o Hits(Tail(q))
        /\ m.type = "GE" => Hits(q) = Hits(Tail(q))
    BY <1>t, <2>1, ReportQueueTail, HitsTail
  <2>3. Hits(Tail(q)) \in Seq(Msg)
    BY <2>1, <2>2, HitsFacts
  <2>4. to_write' = <<[to |-> IF m.type = "GE" THEN "server_target"
                              ELSE "server_drone", msg |-> m]>>
    BY <1>4 DEF ServerFromMap
  <2> HIDE DEF m
  <2>5. Writing' = IF m.type = "GE" THEN <<>> ELSE <<m>>
    BY <2>4 DEF Writing
  <2>6. OnTheWay = sd \o Hits(q)
    BY <1>t, <2>1, ConcatEmptySeq DEF OnTheWay
  <2>7. CASE m.type = "TH"
    <3>1. OnTheWay' = (sd \o <<m>>) \o Hits(Tail(q))
      BY <2>1, <2>5, <2>7 DEF OnTheWay
    <3>2. <<m>> \in Seq(Msg)
      BY <2>1
    <3>3. OnTheWay' = sd \o (<<m>> \o Hits(Tail(q)))
      BY <1>t, <2>3, <3>1, <3>2, Associative, Zenon
    <3> QED
      BY <2>2, <2>6, <2>7, <3>3
  <2>8. CASE m.type = "GE"
    <3>1. OnTheWay' = (sd \o <<>>) \o Hits(Tail(q))
      BY <2>1, <2>5, <2>8 DEF OnTheWay
    <3>2. sd \o <<>> = sd
      BY <1>t, ConcatEmptySeq
    <3> QED
      BY <2>2, <2>6, <2>8, <3>1, <3>2
  <2> QED
    BY <2>2, <2>7, <2>8
<1>6. CASE ServerWrite
  <2>1. ASSUME NEW m \in Msg,
               to_write = <<[to |-> "server_map", msg |-> m],
                            [to |-> "server_drone", msg |-> m]>>
        PROVE  OnTheWay' = OnTheWay
    <3>1. /\ \A r \in PipeNames : r # "server_map" => pipe'[r] = pipe[r]
          /\ to_write' = Write1("server_drone", m)
      BY <1>6, <1>t, <1>p, <2>1, SentType DEF ServerWrite, Write1
    <3>2. Writing = <<m>> /\ Writing' = <<m>>
      BY <2>1, <3>1 DEF Writing, Write1
    <3> QED
      BY <1>p, <1>u, <3>1, <3>2
  <2>2. ASSUME NEW m \in Msg, to_write = Write1("server_drone", m)
        PROVE  OnTheWay' = OnTheWay
    <3>1. /\ \A r \in PipeNames : r # "server_drone" => pipe'[r] = pipe[r]
          /\ sd' = Append(sd, m) /\ to_write' = <<>>
      <4>1. Head(to_write) = [to |-> "server_drone", msg |-> m] /\ Tail(to_write) = <<>>
        BY <2>2 DEF Write1
      <4>2. pipe' = Sent("server_drone", m) /\ to_write' = <<>>
        BY <1>6, <4>1 DEF ServerWrite
      <4> QED
        BY <1>t, <1>p, <4>2, SentType
    <3>2. Writing = <<m>> /\ Writing' = <<>>
      BY <2>2, <3>1 DEF Writing, Write1
    <3>3. sd' \o Writing' = sd \o Writing
      <4>1. Append(sd, m) \in Seq(Msg) /\ Append(sd, m) = sd \o <<m>>
        BY <1>t, AppendIsConcat
      <4>2. Append(sd, m) \o <<>> = Append(sd, m)
        BY <4>1, ConcatEmptySeq
      <4> QED
        BY <3>1, <3>2, <4>1, <4>2
    <3> QED
      BY <1>p, <3>1, <3>3 DEF OnTheWay
  <2>3. ASSUME NEW m \in Msg, NEW p \in {"server_map", "server_target"},
               to_write = Write1(p, m)
        PROVE  OnTheWay' = OnTheWay
    <3>1. /\ \A r \in PipeNames : r # p => pipe'[r] = pipe[r]
          /\ to_write' = <<>>
      <4>1. Head(to_write) = [to |-> p, msg |-> m] /\ Tail(to_write) = <<>>
        BY <2>3 DEF Write1
      <4>2. pipe' = Sent(p, m) /\ to_write' = <<>>
        BY <1>6, <4>1 DEF ServerWrite
      <4> QED
        BY <1>t, <1>p, <4>2, SentType
    <3>2. Writing = <<>> /\ Writing' = <<>>
      BY <2>3, <3>1 DEF Writing, Write1
    <3> QED
      BY <1>p, <1>u, <3>1, <3>2
  <2> QED
    BY <1>6, <1>t, <2>1, <2>2, <2>3 DEF ServerWrite, QueuesOK, ToWriteOK
<1>7. CASE MapRead
  <2>1. q' = q /\ sd' = sd /\ to_write' = to_write
    BY <1>7, <1>t, <1>p DEF MapRead, Received, TypeOK
  <2> QED
    BY <1>u, <2>1 DEF Writing
<1>8. CASE MapTimeout
  BY <1>8, <1>u DEF MapTimeout, Writing
<1>10. CASE MapDraw
  BY <1>10, <1>u DEF MapDraw, Writing
<1>11. CASE MapEndFrame
  <2>1. CASE SetCleared
    <3> DEFINE m == [type |-> "GE"]
    <3>1. m \in Msg /\ m.type = "GE"
      BY DEF Msg, GEMsg
    <3>2. q' = Append(q, m) /\ sd' = sd /\ to_write' = to_write
      BY <1>11, <1>t, <1>p, <2>1 DEF MapEndFrame, Sent, TypeOK
    <3>3. ~HasGE(q)
      <4>1. Playing
        BY <1>t, <2>1 DEF SetCleared, Playing, RoundInv, TypeInv, FrameOK
      <4> QED
        BY <1>t, <4>1 DEF OneHolder, One, EndSent
    <3> HIDE DEF m
    <3>4. Hits(q)' = Hits(q)
      BY <1>t, <3>1, <3>2, <3>3, HitsAppend
    <3> QED
      BY <3>2, <3>4 DEF OnTheWay, Writing
  <2>2. CASE ~SetCleared
    <3>1. pipe' = pipe /\ to_write' = to_write
      BY <1>11, <2>2, Zenon DEF MapEndFrame
    <3> QED
      BY <1>u, <3>1 DEF Writing
  <2> QED
    BY <2>1, <2>2
<1>13. CASE UNCHANGED vars
  BY <1>13, <1>u DEF vars, Writing
<1> QED
  BY <1>1, <1>2, <1>3, <1>4, <1>6, <1>7, <1>8, <1>10, <1>11, <1>13 DEF Next

\* The sets the server has yet to write to the map, and those in the map's pipe.
ToMap(w) == {m \in TMsg : \E i \in 1..Len(w) :
                           w[i] = [to |-> "server_map", msg |-> m]}
InMap(q) == {m \in TMsg : \E i \in 1..Len(q) : q[i] = m}

LEMMA ComingParts == Coming = ToMap(to_write) \cup InMap(pipe["server_map"])
BY DEF Coming, ToMap, InMap

LEMMA SetMessage ==
  /\ \A m \in Msg : m \in TMsg <=> m.type = "T"
  /\ \A m \in TMsg : m \in Msg /\ m.type = "T"
BY DEF Msg, DMsg, TMsg, THMsg, GEMsg

LEMMA ToMapIs ==
  ASSUME NEW w
  PROVE  /\ w = <<>> => ToMap(w) = {}
         /\ \A m, p : w = Write1(p, m) /\ (p # "server_map" \/ m \notin TMsg)
                        => ToMap(w) = {}
         /\ \A m \in TMsg : w = <<[to |-> "server_map", msg |-> m],
                                   [to |-> "server_drone", msg |-> m]>>
                                => ToMap(w) = {m}
<1>1. w = <<>> => ToMap(w) = {}
  BY DEF ToMap
<1>2. ASSUME NEW m, NEW p, w = Write1(p, m), p # "server_map" \/ m \notin TMsg
      PROVE  ToMap(w) = {}
  <2>1. Len(w) = 1 /\ w[1] = [to |-> p, msg |-> m]
    BY <1>2 DEF Write1
  <2>2. \A n : w[1] = [to |-> "server_map", msg |-> n]
                 => p = "server_map" /\ n = m
    BY <2>1
  <2> QED
    BY <1>2, <2>1, <2>2 DEF ToMap
<1>3. ASSUME NEW m \in TMsg,
             w = <<[to |-> "server_map", msg |-> m],
                   [to |-> "server_drone", msg |-> m]>>
      PROVE  ToMap(w) = {m}
  <2>1. /\ Len(w) = 2 /\ w[1] = [to |-> "server_map", msg |-> m]
        /\ w[2] = [to |-> "server_drone", msg |-> m]
    BY <1>3
  <2>2. /\ \A n : w[1] = [to |-> "server_map", msg |-> n] => n = m
        /\ \A n : w[2] # [to |-> "server_map", msg |-> n]
    BY <2>1
  <2>3. 1 \in 1..Len(w) /\ \A i \in 1..Len(w) : i = 1 \/ i = 2
    BY <2>1
  <2> QED
    BY <2>1, <2>2, <2>3 DEF ToMap
<1> QED
  BY <1>1, <1>2, <1>3

LEMMA InMapFacts ==
  ASSUME NEW q \in Seq(Msg)
  PROVE  /\ ~HasT(q) => InMap(q) = {}
         /\ \A m \in Msg :
              InMap(Append(q, m)) = InMap(q) \cup (IF m.type = "T" THEN {m} ELSE {})
         /\ q # <<>> =>
              InMap(q) = InMap(Tail(q))
                           \cup (IF Head(q).type = "T" THEN {Head(q)} ELSE {})
<1>1. ~HasT(q) => InMap(q) = {}
  BY SetMessage DEF HasT, InMap
<1>2. ASSUME NEW m \in Msg
      PROVE  InMap(Append(q, m)) = InMap(q) \cup (IF m.type = "T" THEN {m} ELSE {})
  <2> DEFINE t == Append(q, m)
  <2>1. /\ Len(q) \in Nat /\ Len(t) = Len(q) + 1 /\ t[Len(q) + 1] = m
        /\ \A i \in 1..Len(q) : t[i] = q[i]
        /\ \A i \in 1..(Len(q) + 1) : i \in 1..Len(q) \/ i = Len(q) + 1
    BY AppendFacts
  <2> HIDE DEF t
  <2>2. Len(q) + 1 \in 1..Len(t) /\ \A i \in 1..Len(q) : i \in 1..Len(t)
    BY <2>1
  <2>3. \A n : (\E i \in 1..Len(t) : t[i] = n)
                 <=> (\E i \in 1..Len(q) : q[i] = n) \/ n = m
    BY <2>1, <2>2
  <2> QED
    BY <2>3, SetMessage DEF InMap, t
<1>3. ASSUME q # <<>>
      PROVE  InMap(q) = InMap(Tail(q))
                          \cup (IF Head(q).type = "T" THEN {Head(q)} ELSE {})
  <2>1. /\ Head(q) = q[1] /\ Head(q) \in Msg /\ Len(q) \in Nat /\ Len(q) > 0
        /\ \A i \in 1..Len(Tail(q)) : Tail(q)[i] = q[i + 1] /\ i + 1 \in 1..Len(q)
        /\ \A i \in 1..Len(q) : i = 1 \/ i - 1 \in 1..Len(Tail(q))
    BY <1>3, TailFacts
  <2>2. ASSUME NEW i \in 1..Len(q), i # 1
        PROVE  \E j \in 1..Len(Tail(q)) : Tail(q)[j] = q[i]
    <3>1. i - 1 \in 1..Len(Tail(q)) /\ (i - 1) + 1 = i
      BY <2>1, <2>2
    <3> QED
      BY <2>1, <3>1
  <2>3. 1 \in 1..Len(q)
    BY <2>1
  <2>4. \A n : (\E i \in 1..Len(q) : q[i] = n)
                 <=> (\E i \in 1..Len(Tail(q)) : Tail(q)[i] = n) \/ n = Head(q)
    BY <2>1, <2>2, <2>3
  <2> QED
    BY <2>1, <2>4, SetMessage DEF InMap
<1> QED
  BY <1>1, <1>2, <1>3

\* The map has what it holds in play when no set is on its way to it.
LEMMA NothingComing ==
  ASSUME RoundInv, ~SetComing, ~SetRelayed
  PROVE  Coming = {} /\ InPlay = [arr |-> targets_pos, num |-> Left]
<1>1. pipe["server_map"] \in Seq(Msg) /\ QueuesOK
  BY RoundTypes DEF PipeNames
<1>2. InMap(pipe["server_map"]) = {}
  BY <1>1, InMapFacts DEF SetComing
<1>3. ToMap(to_write) = {}
  <2>1. ASSUME NEW m \in Msg, m.type = "T",
               to_write = <<[to |-> "server_map", msg |-> m],
                            [to |-> "server_drone", msg |-> m]>>
        PROVE  FALSE
    BY <2>1 DEF SetRelayed
  <2> QED
    BY <1>1, <2>1, ToMapIs, SetMessage DEF QueuesOK, ToWriteOK
<1> QED
  BY <1>2, <1>3, ComingParts DEF InPlay

\* A set in play or on its way from target.c means none on its way to the map.
LEMMA PlayingMeans ==
  ASSUME RoundInv, Playing \/ SetSent \/ Asked
  PROVE  InPlay = [arr |-> targets_pos, num |-> Left]
<1>1. ~SetComing /\ ~SetRelayed
  BY RoundTypes DEF OneHolder, One
<1> QED
  BY <1>1, NothingComing

\* No step but a hit or the passing on of a set changes the set in play; the map
\* that reads the set only moves it from the pipe into its array.
LEMMA SamePlay ==
  ASSUME RoundInv, [Next]_vars, ~MapHit, ~ServerFromTarget
  PROVE  InPlay' = InPlay
<1> DEFINE q == pipe["server_map"]
<1>p. PipeNames = {"server_map", "map_server", "server_drone",
                   "target_server", "server_target"}
  BY DEF PipeNames
<1>t. /\ TypeOK /\ TypeInv /\ QueuesOK /\ OneHolder /\ q \in Seq(Msg) /\ MapQueueOK(q)
  BY <1>p, RoundTypes DEF QueuesOK
<1>c. Coming' = ToMap(to_write') \cup InMap(q')
  BY DEF Coming, ToMap, InMap
<1>u. ASSUME Coming' = Coming, targets_pos' = targets_pos, Left' = Left
      PROVE  InPlay' = InPlay
  BY <1>u DEF InPlay
<1>v. ASSUME to_write' = to_write, q' = q, targets_pos' = targets_pos, Left' = Left
      PROVE  InPlay' = InPlay
  BY <1>v, <1>u DEF Coming
<1>1. CASE TargetSend
  <2>1. q' = q
    BY <1>1, <1>t, <1>p DEF TargetSend, Sent, TypeOK
  <2> QED
    BY <1>1, <1>v, <2>1 DEF TargetSend, mapVars, Left
<1>2. CASE TargetRead
  <2>1. q' = q
    BY <1>2, <1>t, <1>p DEF TargetRead, Received, TypeOK
  <2> QED
    BY <1>2, <1>v, <2>1 DEF TargetRead, mapVars, Left
<1>3. CASE ServerPosition
  <2>1. PICK p \in Positions :
          to_write' = <<[to |-> "server_map", msg |-> [type |-> "D", pos |-> p]]>>
    BY <1>3 DEF ServerPosition
  <2> DEFINE m == [type |-> "D", pos |-> p]
  <2>2. m \notin TMsg
    BY DEF TMsg
  <2> HIDE DEF m
  <2>3. ToMap(to_write') = {}
    <3>1. Len(to_write') = 1 /\ to_write'[1] = [to |-> "server_map", msg |-> m]
      BY <2>1 DEF m
    <3>2. \A n : to_write'[1] = [to |-> "server_map", msg |-> n] => n = m
      BY <3>1
    <3> QED
      BY <2>2, <3>1, <3>2 DEF ToMap
  <2>4. ToMap(to_write) = {} /\ q' = q
    BY <1>3, ToMapIs DEF ServerPosition
  <2>5. Coming' = Coming
    BY <1>c, <2>3, <2>4, ComingParts
  <2> QED
    BY <1>3, <1>u, <2>5 DEF ServerPosition, mapVars, Left
<1>4. CASE ServerFromMap
  <2>1. q' = q /\ ToMap(to_write) = {}
    BY <1>4, <1>t, <1>p, ToMapIs DEF ServerFromMap, Received, TypeOK
  <2> DEFINE m == Head(pipe["map_server"])
             p == IF m.type = "GE" THEN "server_target" ELSE "server_drone"
  <2>2. to_write' = <<[to |-> p, msg |-> m]>> /\ p # "server_map"
    BY <1>4 DEF ServerFromMap
  <2> HIDE DEF m, p
  <2>3. ToMap(to_write') = {}
    <3>1. Len(to_write') = 1 /\ to_write'[1].to # "server_map"
      BY <2>2
    <3> QED
      BY <3>1 DEF ToMap
  <2>4. Coming' = Coming
    BY <1>c, <2>1, <2>3, ComingParts
  <2> QED
    BY <1>4, <1>u, <2>4 DEF ServerFromMap, mapVars, Left
<1>6. CASE ServerWrite
  <2>m. targets_pos' = targets_pos /\ Left' = Left
    BY <1>6 DEF ServerWrite, mapVars, Left
  <2>1. ASSUME NEW m \in Msg, m.type = "T",
               to_write = <<[to |-> "server_map", msg |-> m],
                            [to |-> "server_drone", msg |-> m]>>
        PROVE  InPlay' = InPlay
    <3>1. /\ q' = Append(q, m)
          /\ to_write' = <<[to |-> "server_drone", msg |-> m]>>
      BY <1>6, <1>t, <1>p, <2>1, SentType DEF ServerWrite
    <3>2. ToMap(to_write) = {m} /\ ToMap(to_write') = {}
      <4>1. m \in TMsg
        BY <2>1, SetMessage
      <4>2. ToMap(to_write) = {m}
        BY <2>1, <4>1, ToMapIs
      <4>3. Len(to_write') = 1 /\ to_write'[1].to # "server_map"
        BY <3>1
      <4>4. ToMap(to_write') = {}
        BY <4>3 DEF ToMap
      <4> QED
        BY <4>2, <4>4
    <3>3. InMap(q') = InMap(q) \cup {m}
      BY <1>t, <2>1, <3>1, InMapFacts
    <3>4. Coming' = Coming
      BY <1>c, <3>2, <3>3, ComingParts
    <3> QED
      BY <1>u, <2>m, <3>4
  <2>2. ASSUME NEW m \in Msg, NEW p \in {"server_drone", "server_target"},
               to_write = Write1(p, m)
        PROVE  InPlay' = InPlay
    <3>1. /\ q' = q /\ to_write' = <<>>
      <4>1. Head(to_write) = [to |-> p, msg |-> m] /\ Tail(to_write) = <<>>
        BY <2>2 DEF Write1
      <4>2. pipe' = Sent(p, m) /\ to_write' = <<>>
        BY <1>6, <4>1 DEF ServerWrite
      <4> QED
        BY <1>t, <1>p, <4>2, SentType
    <3>2. ToMap(to_write) = {} /\ ToMap(to_write') = {}
      BY <2>2, <3>1, ToMapIs DEF ToMap
    <3>3. Coming' = Coming
      BY <1>c, <3>1, <3>2, ComingParts
    <3> QED
      BY <1>u, <2>m, <3>3
  <2>3. ASSUME NEW m \in Msg, m.type = "D", to_write = Write1("server_map", m)
        PROVE  InPlay' = InPlay
    <3>1. q' = Append(q, m) /\ to_write' = <<>>
      <4>1. Head(to_write) = [to |-> "server_map", msg |-> m] /\ Tail(to_write) = <<>>
        BY <2>3 DEF Write1
      <4>2. pipe' = Sent("server_map", m) /\ to_write' = <<>>
        BY <1>6, <4>1 DEF ServerWrite
      <4> QED
        BY <1>t, <1>p, <4>2, SentType
    <3>2. ToMap(to_write) = {} /\ ToMap(to_write') = {}
      BY <2>3, <3>1, ToMapIs, SetMessage DEF ToMap
    <3>3. InMap(q') = InMap(q)
      <4>1. InMap(q') = InMap(q) \cup (IF m.type = "T" THEN {m} ELSE {})
        BY <1>t, <3>1, InMapFacts
      <4> QED
        BY <2>3, <4>1
    <3>4. Coming' = Coming
      BY <1>c, <3>2, <3>3, ComingParts
    <3> QED
      BY <1>u, <2>m, <3>4
  <2> QED
    BY <1>6, <1>t, <2>1, <2>2, <2>3 DEF ServerWrite, QueuesOK, ToWriteOK
<1>7. CASE MapRead
  <2> DEFINE m == Head(q)
  <2>1. /\ q # <<>> /\ q' = Tail(q) /\ to_write' = to_write /\ m \in Msg
        /\ ToMap(to_write') = ToMap(to_write)
    BY <1>7, <1>t, <1>p, ReceivedType DEF MapRead, ToMap
  <2>2. InMap(q) = InMap(q') \cup (IF m.type = "T" THEN {m} ELSE {})
    BY <1>t, <2>1, InMapFacts
  <2>d. ~to_decrease /\ ~to_decrease'
    <3>1. ~to_decrease
      BY <1>7, <1>t DEF MapRead, TypeInv, FrameOK
    <3>2. ~to_decrease'
      BY <1>7, Zenon DEF MapRead, BeginFrame
    <3> QED
      BY <3>1, <3>2
  <2>3. CASE m.type = "D"
    <3>1. Coming' = Coming
      BY <1>c, <2>1, <2>2, <2>3, ComingParts
    <3>2. targets_pos' = targets_pos /\ target_num' = target_num
      BY <1>7, <2>3 DEF MapRead
    <3> QED
      BY <1>u, <2>d, <3>1, <3>2 DEF Left
  <2>4. CASE m.type = "T"
    <3>1. HasT(q) /\ ~HasT(Tail(q))
      BY <1>t, <2>1, <2>4, MapQueueTail
    <3>2. Tail(q) \in Seq(Msg)
      BY <1>t, <2>1, TailFacts
    <3>3. InMap(q') = {} /\ InMap(q) = {m}
      BY <2>1, <2>2, <2>4, <3>1, <3>2, InMapFacts
    <3>4. ToMap(to_write) = {}
      <4>1. ~SetRelayed
        BY <1>t, <3>1 DEF OneHolder, One, SetComing
      <4>2. ASSUME NEW n \in Msg, n.type = "T",
                   to_write = <<[to |-> "server_map", msg |-> n],
                                [to |-> "server_drone", msg |-> n]>>
            PROVE  FALSE
        BY <4>1, <4>2 DEF SetRelayed
      <4> QED
        BY <1>t, <4>2, ToMapIs, SetMessage DEF QueuesOK, ToWriteOK
    <3>5. Coming = {m} /\ Coming' = {}
      BY <1>c, <2>1, <3>3, <3>4, ComingParts
    <3>6. targets_pos' = m.set /\ target_num' = N
      BY <1>7, <2>4 DEF MapRead
    <3> HIDE DEF m
    <3>7. InPlay = [arr |-> m.set, num |-> N]
      BY <3>5 DEF InPlay
    <3>8. InPlay' = [arr |-> targets_pos', num |-> Left']
      BY <3>5 DEF InPlay
    <3> QED
      BY <2>d, <3>6, <3>7, <3>8 DEF Left
  <2> QED
    BY <1>7, <2>3, <2>4 DEF MapRead
<1>8. CASE MapTimeout
  <2>1. ~to_decrease
    BY <1>8, <1>t DEF MapTimeout, TypeInv, FrameOK
  <2>2. ~to_decrease'
    BY <1>8, Zenon DEF MapTimeout, BeginFrame
  <2> QED
    BY <1>8, <1>v, <2>1, <2>2 DEF MapTimeout, Left
<1>10. CASE MapDraw
  BY <1>10, <1>v DEF MapDraw, Left
<1>11. CASE MapEndFrame
  <2>1. q' = q /\ to_write' = to_write /\ targets_pos' = targets_pos
    <3>1. pipe' = Sent("map_server", [type |-> "GE"]) \/ pipe' = pipe
      BY <1>11, Zenon DEF MapEndFrame
    <3>2. q' = q
      BY <1>t, <1>p, <3>1 DEF Sent, TypeOK
    <3> QED
      BY <1>11, <3>2 DEF MapEndFrame
  <2>2. target_num' = Left /\ ~to_decrease'
    BY <1>11, Zenon DEF MapEndFrame
  <2>3. Left' = Left
    BY <2>2 DEF Left
  <2> QED
    BY <1>v, <2>1, <2>3
<1>12. CASE DroneRead
  <2>1. q' = q
    BY <1>12, <1>t, <1>p, ReceivedType DEF DroneRead
  <2> QED
    BY <1>12, <1>v, <2>1 DEF DroneRead, mapVars, Left
<1>13. CASE UNCHANGED vars
  BY <1>13, <1>v DEF vars, mapVars, Left
<1> QED
  BY <1>1, <1>2, <1>3, <1>4, <1>6, <1>7, <1>8, <1>10, <1>11, <1>12, <1>13 DEF Next

\* A hit removes the entry from the set in play.
LEMMA HitPlay ==
  ASSUME RoundInv, FrameInv, MapHit
  PROVE  /\ target_num \in 1..N /\ frame \in 1..target_num
         /\ InPlay = [arr |-> targets_pos, num |-> target_num]
         /\ InPlay' = [arr |-> remove_target(frame, targets_pos, target_num),
                       num |-> target_num - 1]
<1>p. PipeNames = {"server_map", "map_server", "server_drone",
                   "target_server", "server_target"}
  BY DEF PipeNames
<1>1. target_num \in 1..N /\ frame \in 1..target_num /\ TypeOK
  BY RoundTypes DEF TypeOK, MapHit
<1>2. ~to_decrease /\ Left = target_num
  BY <1>1 DEF FrameInv, Left, MapHit
<1>3. Coming = {} /\ InPlay = [arr |-> targets_pos, num |-> Left]
  <2>1. ~SetComing /\ ~SetRelayed
    BY <1>1, RoundTypes DEF OneHolder, One, Playing
  <2> QED
    BY <2>1, NothingComing
<1>4. pipe'["server_map"] = pipe["server_map"] /\ to_write' = to_write
  BY <1>1, <1>p DEF MapHit, Sent, TypeOK
<1>5. Coming' = {}
  BY <1>3, <1>4 DEF Coming
<1>6. /\ Left' = target_num - 1
      /\ targets_pos' = remove_target(frame, targets_pos, target_num)
  BY DEF MapHit, Left
<1>7. InPlay' = [arr |-> targets_pos', num |-> Left']
  BY <1>5 DEF InPlay
<1> QED
  BY <1>1, <1>2, <1>3, <1>6, <1>7

\* A set that is passed on replaces an empty one.
LEMMA SetPlay ==
  ASSUME RoundInv, ServerFromTarget
  PROVE  LET m == Head(pipe["target_server"])
         IN  InPlay.num = 0 /\ InPlay' = [arr |-> m.set, num |-> N]
<1> DEFINE m == Head(pipe["target_server"])
<1>p. PipeNames = {"server_map", "map_server", "server_drone",
                   "target_server", "server_target"}
  BY DEF PipeNames
<1>t. TypeOK /\ TypeInv /\ QueuesOK /\ OneHolder /\ pipe["server_map"] \in Seq(Msg)
  BY <1>p, RoundTypes
<1>1. m \in TMsg /\ target_num = 0
  BY SetWay, SetMessage
<1>2. SetSent
  BY DEF SetSent, ServerFromTarget
<1>3. InPlay.num = 0
  <2>1. ~to_decrease
    BY <1>t, <1>1 DEF TypeInv, FrameOK
  <2> QED
    BY <1>1, <1>2, <2>1, PlayingMeans DEF Left
<1>4. pipe'["server_map"] = pipe["server_map"]
  BY <1>t, <1>p DEF ServerFromTarget, Received, TypeOK
<1>5. to_write' = <<[to |-> "server_map", msg |-> m], [to |-> "server_drone", msg |-> m]>>
  BY DEF ServerFromTarget
<1> HIDE DEF m
<1>6. ToMap(to_write') = {m}
  BY <1>1, <1>5, ToMapIs
<1>7. InMap(pipe["server_map"]) = {}
  <2>1. ~SetComing
    BY <1>t, <1>2 DEF OneHolder, One
  <2> QED
    BY <1>t, <2>1, InMapFacts DEF SetComing
<1>8. Coming' = {m}
  <2>1. Coming' = ToMap(to_write') \cup InMap(pipe'["server_map"])
    BY DEF Coming, ToMap, InMap
  <2> QED
    BY <1>4, <1>6, <1>7, <2>1
<1>9. InPlay' = [arr |-> m.set, num |-> N]
  BY <1>8 DEF InPlay
<1> QED
  BY <1>3, <1>9 DEF m

----------------------------------------------------------------------------
(* The messages under way always tell the drone of the set in play.        *)

DroneTold == Tells(Drone, OnTheWay, InPlay)

LEMMA DroneType == TypeOK => Drone \in Holdings
BY DEF TypeOK, Drone, Holdings

LEMMA InitTold == Init => DroneTold
<1> SUFFICES ASSUME Init PROVE DroneTold
  OBVIOUS
<1>1. TypeOK /\ Drone \in Holdings
  BY InitTypeInv, DroneType DEF TypeInv
<1>2. pipe["server_drone"] = <<>> /\ pipe["map_server"] = <<>> /\ pipe["server_map"] = <<>>
  BY DEF Init, PipeNames
<1>3. OnTheWay = <<>>
  <2>1. Writing = <<>> /\ Hits(pipe["map_server"]) = <<>>
    BY <1>2 DEF Init, Writing, Hits
  <2> QED
    BY <1>2, <2>1 DEF OnTheWay
<1>4. InPlay.num = 0
  <2>1. Coming = {}
    BY <1>2 DEF Init, Coming
  <2> QED
    BY <2>1 DEF Init, InPlay, Left
<1>5. <<>> \in Seq(Msg) /\ Len(<<>>) = 0
  BY EmptySeq
<1>6. Heard(Drone, <<>>)[0] = Drone
  BY <1>1, <1>5, HeardIsHistory DEF IsHistory
<1> QED
  BY <1>3, <1>4, <1>5, <1>6 DEF DroneTold, Tells, Told, Drone, Init

LEMMA NextTold == RoundInv /\ FrameInv /\ DroneTold /\ [Next]_vars => DroneTold'
<1> SUFFICES ASSUME RoundInv, FrameInv, DroneTold, [Next]_vars PROVE DroneTold'
  OBVIOUS
<1>t. TypeOK /\ OnTheWay \in Seq(Msg) /\ Drone \in Holdings
  BY RoundTypes, DroneType
<1>1. CASE MapHit
  <2> DEFINE m == HitReport(frame)
  <2>1. OnTheWay' = Append(OnTheWay, m) /\ m \in Msg
    BY <1>1, HitWay
  <2>2. /\ target_num \in 1..N /\ frame \in 1..target_num
        /\ InPlay = [arr |-> targets_pos, num |-> target_num]
        /\ InPlay' = [arr |-> remove_target(frame, targets_pos, target_num),
                      num |-> target_num - 1]
    BY <1>1, HitPlay
  <2>3. m.type = "TH" /\ m.idx = frame /\ m.pos = targets_pos[frame]
    BY DEF HitReport
  <2>4. Drone' = Drone
    BY <1>1 DEF MapHit, droneVars, Drone
  <2> HIDE DEF m
  <2>5. target_num \in 0..N
    BY <2>2, NAssumption
  <2>6. Tells(Drone, Append(OnTheWay, m), InPlay')
    BY <1>t, <2>1, <2>2, <2>3, <2>5, TellsHit DEF DroneTold
  <2> QED
    BY <2>1, <2>4, <2>6 DEF DroneTold
<1>2. CASE ServerFromTarget
  <2> DEFINE m == Head(pipe["target_server"])
  <2>1. OnTheWay' = Append(OnTheWay, m) /\ m \in Msg /\ m.type = "T"
    BY <1>2, SetWay
  <2>2. InPlay' = [arr |-> m.set, num |-> N]
    BY <1>2, SetPlay
  <2>3. Drone' = Drone
    BY <1>2 DEF ServerFromTarget, droneVars, Drone
  <2> HIDE DEF m
  <2>4. Tells(Drone, Append(OnTheWay, m), InPlay')
    BY <1>t, <2>1, <2>2, TellsSet DEF DroneTold
  <2> QED
    BY <2>1, <2>3, <2>4 DEF DroneTold
<1>3. CASE DroneRead
  <2>1. /\ OnTheWay # <<>> /\ Head(OnTheWay) = Head(pipe["server_drone"])
        /\ OnTheWay' = Tail(OnTheWay)
    BY <1>3, DroneWay
  <2>2. InPlay' = InPlay
    <3>1. ~MapHit
      BY <1>3, <1>t DEF DroneRead, mapVars, MapHit, TypeOK
    <3>2. ~ServerFromTarget
      BY <1>3 DEF DroneRead, ServerFromTarget
    <3> QED
      BY <3>1, <3>2, SamePlay
  <2>3. Drone' = Applied(Head(OnTheWay), Drone)
    <3> DEFINE d == Applied(Head(pipe["server_drone"]), Drone)
    <3>1. targets_arr' = d.arr /\ targets_num' = d.num
      BY <1>3 DEF DroneRead
    <3>2. Head(OnTheWay) \in Msg
      BY <1>t, <2>1, HeadTailProperties
    <3>3. d \in Holdings
      BY <1>t, <2>1, <3>2, AppliedType
    <3> QED
      BY <2>1, <3>1, <3>3 DEF Drone, Holdings
  <2>4. Tells(Applied(Head(OnTheWay), Drone), Tail(OnTheWay), InPlay)
    BY <1>t, <2>1, TellsTail DEF DroneTold
  <2> QED
    BY <2>1, <2>2, <2>3, <2>4 DEF DroneTold
<1>4. CASE ~MapHit /\ ~ServerFromTarget /\ ~DroneRead
  <2>1. OnTheWay' = OnTheWay /\ InPlay' = InPlay
    BY <1>4, SameWay, SamePlay
  <2>2. Drone' = Drone
    BY <1>4 DEF Next, vars, TargetSend, TargetRead, ServerPosition, ServerFromMap,
       ServerWrite, MapRead, MapTimeout, MapDraw, MapEndFrame, droneVars, Drone
  <2> QED
    BY <2>1, <2>2 DEF DroneTold
<1> QED
  BY <1>1, <1>2, <1>3, <1>4

AgreementInv == RoundInv /\ FrameInv /\ DroneTold

LEMMA AgreementInvariant ==
  ASSUME DistinctCells
  PROVE  Spec => []AgreementInv
<1>1. Init => DroneTold
  BY InitTold
<1>2. RoundInv /\ FrameInv /\ DroneTold /\ [Next]_vars => DroneTold'
  BY NextTold
<1>3. Spec => []DroneTold
  BY <1>1, <1>2, RoundInvariant, FrameInvariant, PTL DEF Spec
<1>4. RoundInv /\ FrameInv /\ DroneTold => AgreementInv
  BY DEF AgreementInv
<1> QED
  BY <1>3, <1>4, RoundInvariant, FrameInvariant, PTL

\* Once it has read what is under way the drone holds exactly the targets the map
\* has in play, at the same places, at every moment of every run and whatever the
\* pipes hold: the reports name places of an array that moves on both sides.
THEOREM DroneFollows ==
  ASSUME DistinctCells
  PROVE  Spec => []DroneAgrees
<1>1. AgreementInv => DroneAgrees
  BY DEF AgreementInv, DroneTold, Tells, Told, DroneAgrees, DroneAfter
<1> QED
  BY <1>1, AgreementInvariant, PTL

\* No report reaches the drone that it would drop: its index and position are
\* those of an entry it holds when it reads it.
THEOREM NoReportDropped ==
  ASSUME DistinctCells
  PROVE  Spec => []NoMismatch
<1>1. AgreementInv => NoMismatch
  <2> SUFFICES ASSUME AgreementInv, NEW m \in THMsg, pipe["server_drone"] # <<>>,
                      Head(pipe["server_drone"]) = m
               PROVE  Matches(m, targets_arr) /\ m.idx <= targets_num
    BY DEF NoMismatch
  <2> DEFINE sd == pipe["server_drone"]
             rest == Writing \o Hits(pipe["map_server"])
  <2>1. /\ sd \in Seq(Msg) /\ rest \in Seq(Msg) /\ OnTheWay \in Seq(Msg)
        /\ OnTheWay = sd \o rest /\ Drone \in Holdings
    <3>1. /\ sd \in Seq(Msg) /\ Writing \in Seq(Msg)
          /\ Hits(pipe["map_server"]) \in Seq(Msg) /\ OnTheWay \in Seq(Msg)
          /\ TypeOK
      BY RoundTypes DEF AgreementInv, PipeNames
    <3>2. OnTheWay = sd \o rest
      BY <3>1, Associative, Zenon DEF OnTheWay
    <3> QED
      BY <3>1, <3>2, ConcatProperties, DroneType
  <2> HIDE DEF rest
  <2>2. OnTheWay # <<>> /\ Head(OnTheWay) = m
    BY <2>1, ConcatTail
  <2>3. OnTheWay[1] = m /\ 1 \in 1..Len(OnTheWay)
    BY <2>1, <2>2, TailFacts
  <2>4. Heard(Drone, OnTheWay)[0] = Drone
    BY <2>1, HeardIsHistory DEF IsHistory
  <2>5. Heeded(m, Drone)
    BY <2>3, <2>4 DEF AgreementInv, DroneTold, Tells
  <2> QED
    BY <2>5 DEF Heeded, THMsg, Drone
<1> QED
  BY <1>1, AgreementInvariant, PTL

----------------------------------------------------------------------------
(* The processes implement TargetGame.  What the drone learns with each    *)
(* message is read off the same history.                                   *)

Contents(d) == RangeOf(d.arr, d.num)

NewsOf(d, msgs) == [k \in 1..Len(msgs) |-> Contents(Heard(d, msgs)[k])]

LEMMA NewsType ==
  ASSUME NEW d \in Holdings, NEW s \in Seq(Msg)
  PROVE  /\ NewsOf(d, s) \in Seq(SUBSET (Positions \cup {Junk}))
         /\ Len(NewsOf(d, s)) = Len(s)
         /\ \A k \in 1..Len(s) : NewsOf(d, s)[k] = Contents(Heard(d, s)[k])
<1>1. Len(s) \in Nat /\ Heard(d, s) \in [0..Len(s) -> Holdings]
  BY HeardIsHistory DEF IsHistory
<1>2. \A e \in Holdings : Contents(e) \in SUBSET (Positions \cup {Junk})
  <2> SUFFICES ASSUME NEW e \in Holdings, NEW i \in 1..e.num
               PROVE  e.arr[i] \in Positions \cup {Junk}
    BY DEF Contents, RangeOf
  <2>1. e.num \in Int /\ e.num <= N /\ N \in Nat
    BY NAssumption DEF Holdings
  <2>2. i \in 1..N
    BY <2>1
  <2> QED
    BY <2>2 DEF Holdings
<1>3. \A k \in 1..Len(s) : Contents(Heard(d, s)[k]) \in SUBSET (Positions \cup {Junk})
  BY <1>1, <1>2
<1> QED
  BY <1>1, <1>3 DEF NewsOf

\* The news of a queue are the sets after each of its messages.
LEMMA NewsIs ==
  ASSUME NEW d \in Holdings, NEW s \in Seq(Msg)
  PROVE  [k \in 1..Len(s) |->
            LET t == SubSeq(s, 1, k)
                e == Heard(d, t)[Len(t)]
            IN  RangeOf(e.arr, e.num)] = NewsOf(d, s)
<1>1. ASSUME NEW k \in 1..Len(s)
      PROVE  Heard(d, SubSeq(s, 1, k))[Len(SubSeq(s, 1, k))] = Heard(d, s)[k]
  <2> DEFINE t == SubSeq(s, 1, k)
  <2>1. k \in 0..Len(s) /\ k \in 0..k /\ k <= Len(s)
    OBVIOUS
  <2>2. t \in Seq(Msg) /\ Len(t) = k /\ \A i \in 1..k : t[i] = s[i]
    BY <2>1, FirstFacts
  <2> HIDE DEF t
  <2>3. \A j \in 0..Len(t) : Heard(d, t)[j] = Heard(d, s)[j]
    BY <2>1, <2>2, HeardPrefix
  <2>4. Heard(d, t)[Len(t)] = Heard(d, s)[k]
    BY <2>1, <2>2, <2>3
  <2> QED
    BY <2>4 DEF t
<1> QED
  BY <1>1 DEF NewsOf, Contents

LEMMA NewsAppend ==
  ASSUME NEW d \in Holdings, NEW s \in Seq(Msg), NEW m \in Msg
  PROVE  NewsOf(d, Append(s, m))
           = Append(NewsOf(d, s), Contents(Heard(d, Append(s, m))[Len(s) + 1]))
<1> DEFINE S == SUBSET (Positions \cup {Junk})
           t == Append(s, m)
           v == NewsOf(d, s)
           w == NewsOf(d, t)
           c == Contents(Heard(d, t)[Len(s) + 1])
<1>1. t \in Seq(Msg) /\ Len(t) = Len(s) + 1 /\ Len(s) \in Nat
  BY AppendFacts
<1>2. \A k \in 0..Len(s) : Heard(d, t)[k] = Heard(d, s)[k]
  BY HeardAppend
<1> HIDE DEF t
<1>3. /\ v \in Seq(S) /\ Len(v) = Len(s)
      /\ \A k \in 1..Len(s) : v[k] = Contents(Heard(d, s)[k])
  BY NewsType
<1>4. /\ w \in Seq(S) /\ Len(w) = Len(t)
      /\ \A k \in 1..Len(t) : w[k] = Contents(Heard(d, t)[k])
  BY <1>1, NewsType
<1>5. c \in S /\ w[Len(s) + 1] = c
  <2>1. Len(s) + 1 \in 1..Len(t) /\ Len(s) + 1 \in 1..Len(w)
    BY <1>1, <1>4
  <2>2. w[Len(s) + 1] = c
    BY <1>4, <2>1
  <2> HIDE DEF w, c, S
  <2> QED
    BY <1>4, <2>1, <2>2, ElementOfSeq
<1> HIDE DEF v, w, c, S
<1>6. /\ Append(v, c) \in Seq(S) /\ Len(Append(v, c)) = Len(s) + 1
      /\ Append(v, c)[Len(s) + 1] = c
      /\ \A k \in 1..Len(s) : Append(v, c)[k] = v[k]
  BY <1>3, <1>5, AppendProperties
<1>7. ASSUME NEW k \in 1..Len(w) PROVE w[k] = Append(v, c)[k]
  <2>1. CASE k \in 1..Len(s)
    <3>1. k \in 0..Len(s) /\ k \in 1..Len(t)
      BY <1>1, <2>1
    <3> QED
      BY <1>2, <1>3, <1>4, <1>6, <2>1, <3>1
  <2>2. CASE k = Len(s) + 1
    BY <1>5, <1>6, <2>2
  <2>3. \A j \in 1..(Len(s) + 1) : j \in 1..Len(s) \/ j = Len(s) + 1
    BY AppendFacts
  <2>4. k \in 1..(Len(s) + 1)
    BY <1>1, <1>4
  <2> QED
    BY <2>1, <2>2, <2>3, <2>4
<1>8. w = Append(v, c)
  BY <1>1, <1>4, <1>6, <1>7, SeqEqual
<1> QED
  BY <1>8 DEF v, w, c, t

LEMMA NewsTail ==
  ASSUME NEW d \in Holdings, NEW s \in Seq(Msg), s # <<>>
  PROVE  LET e == Applied(Head(s), d)
         IN  /\ NewsOf(d, s) # <<>> /\ Head(NewsOf(d, s)) = Contents(e)
             /\ Tail(NewsOf(d, s)) = NewsOf(e, Tail(s))
<1> DEFINE S == SUBSET (Positions \cup {Junk})
           e == Applied(Head(s), d)
           t == Tail(s)
           v == NewsOf(d, s)
           w == NewsOf(e, t)
<1>1. /\ t \in Seq(Msg) /\ Len(s) \in Nat /\ Len(s) > 0 /\ Len(t) = Len(s) - 1
      /\ Len(t) \in Nat
  BY TailFacts
<1>2. e \in Holdings /\ \A k \in 0..Len(t) : Heard(e, t)[k] = Heard(d, s)[k + 1]
  BY HeardTail
<1> HIDE DEF e, t
<1>3. /\ v \in Seq(S) /\ Len(v) = Len(s)
      /\ \A k \in 1..Len(s) : v[k] = Contents(Heard(d, s)[k])
  BY NewsType
<1>4. /\ w \in Seq(S) /\ Len(w) = Len(t)
      /\ \A k \in 1..Len(t) : w[k] = Contents(Heard(e, t)[k])
  BY <1>1, <1>2, NewsType
<1> HIDE DEF v, w, S
<1>5. v # <<>>
  <2>1. Len(v) # 0 /\ Len(<<>>) = 0
    BY <1>1, <1>3, EmptySeq
  <2> QED
    BY <2>1
<1>6. Head(v) = v[1] /\ Tail(v) \in Seq(S) /\ Len(Tail(v)) = Len(v) - 1
      /\ \A k \in 1..Len(Tail(v)) : Tail(v)[k] = v[k + 1]
  BY <1>3, <1>5, HeadTailProperties
<1>7. Head(v) = Contents(e)
  <2>1. Heard(e, t)[0] = e
    BY <1>1, <1>2, HeardIsHistory DEF IsHistory
  <2>2. Heard(e, t)[0] = Heard(d, s)[1]
    BY <1>1, <1>2
  <2> QED
    BY <1>1, <1>3, <1>6, <2>1, <2>2
<1>8. Len(Tail(v)) = Len(w)
  BY <1>1, <1>3, <1>4, <1>6
<1>9. ASSUME NEW k \in 1..Len(Tail(v)) PROVE Tail(v)[k] = w[k]
  <2>1. k + 1 \in 1..Len(s) /\ k \in 1..Len(t) /\ k \in 0..Len(t)
    BY <1>1, <1>3, <1>6
  <2> QED
    BY <1>2, <1>3, <1>4, <1>6, <2>1
<1>10. Tail(v) = w
  BY <1>4, <1>6, <1>8, <1>9, SeqEqual
<1> QED
  BY <1>5, <1>7, <1>10 DEF v, w, e, t

LEMMA NewsOfDrone ==
  /\ AllNews \in Seq(Msg) /\ Drone \in Holdings => News = NewsOf(Drone, AllNews)
  /\ AllNews' \in Seq(Msg) /\ Drone' \in Holdings => News' = NewsOf(Drone', AllNews')
<1>1. ASSUME AllNews \in Seq(Msg), Drone \in Holdings
      PROVE  News = NewsOf(Drone, AllNews)
  BY <1>1, NewsIs DEF News, SetAfter, DroneAfter
<1>2. ASSUME AllNews' \in Seq(Msg), Drone' \in Holdings
      PROVE  News' = NewsOf(Drone', AllNews')
  BY <1>2, NewsIs DEF News, SetAfter, DroneAfter
<1> QED
  BY <1>1, <1>2

\* The drone's set after a message that comes last is what the message makes of
\* the set before it.
LEMMA LastNews ==
  ASSUME NEW d \in Holdings, NEW s \in Seq(Msg), NEW m \in Msg, m.type = "T"
  PROVE  Contents(Heard(d, Append(s, m))[Len(s) + 1]) = RangeOf(m.set, N)
<1> DEFINE t == Append(s, m)
<1>1. t \in Seq(Msg) /\ Len(t) = Len(s) + 1 /\ t[Len(s) + 1] = m /\ Len(s) \in Nat
  BY AppendFacts
<1>2. Len(s) + 1 \in 0..Len(t) /\ Len(s) + 1 # 0
  BY <1>1
<1> HIDE DEF t
<1>3. Heard(d, t)[Len(s) + 1] = Applied(t[Len(s) + 1], Heard(d, t)[(Len(s) + 1) - 1])
  BY <1>1, <1>2, HeardIsHistory DEF IsHistory
<1>4. Heard(d, t)[Len(s) + 1] = [arr |-> m.set, num |-> N]
  BY <1>1, <1>3 DEF Applied
<1> QED
  BY <1>4 DEF Contents, t

----------------------------------------------------------------------------
(* What each step does to the messages not yet heard of, counted from the  *)
(* moment target.c sends its set.                                          *)

LEMMA SetQueue ==
  ASSUME RoundInv, Playing \/ Asked
  PROVE  pipe["target_server"] = <<>> /\ AllNews = OnTheWay
<1>p. PipeNames = {"server_map", "map_server", "server_drone",
                   "target_server", "server_target"}
  BY DEF PipeNames
<1>1. pipe["target_server"] \in Seq(Msg) /\ OnTheWay \in Seq(Msg) /\ OneHolder
  BY <1>p, RoundTypes
<1>2. ~SetSent
  BY <1>1 DEF OneHolder, One
<1>3. pipe["target_server"] = <<>>
  BY <1>2 DEF SetSent
<1> QED
  BY <1>1, <1>3, ConcatEmptySeq DEF AllNews

LEMMA AllNewsType == ASSUME RoundInv PROVE AllNews \in Seq(Msg) /\ Drone \in Holdings
<1>1. OnTheWay \in Seq(Msg) /\ pipe["target_server"] \in Seq(Msg) /\ TypeOK
  BY RoundTypes DEF PipeNames
<1> QED
  BY <1>1, ConcatProperties, DroneType DEF AllNews

LEMMA SpawnNews ==
  ASSUME RoundInv, TargetSend
  PROVE  \E s \in TargetSets :
           /\ [type |-> "T", set |-> s] \in Msg
           /\ AllNews' = Append(AllNews, [type |-> "T", set |-> s])
           /\ pipe'["target_server"] = <<[type |-> "T", set |-> s]>>
           /\ InGame = {}
<1>p. PipeNames = {"server_map", "map_server", "server_drone",
                   "target_server", "server_target"}
  BY DEF PipeNames
<1>t. TypeOK /\ TypeInv /\ OneHolder /\ OnTheWay \in Seq(Msg)
  BY <1>p, RoundTypes
<1>1. PICK s \in TargetSets : pipe' = Sent("target_server", [type |-> "T", set |-> s])
  BY DEF TargetSend
<1> DEFINE m == [type |-> "T", set |-> s]
<1>2. m \in Msg
  BY DEF Msg, TMsg
<1>3. Asked
  BY DEF TargetSend, Asked
<1>4. pipe["target_server"] = <<>> /\ AllNews = OnTheWay
  BY <1>3, SetQueue
<1>5. pipe'["target_server"] = Append(<<>>, m)
  BY <1>1, <1>2, <1>4, <1>p, <1>t, SentType
<1>6. Append(<<>>, m) = <<m>>
  OBVIOUS
<1> HIDE DEF m
<1>7. OnTheWay' = OnTheWay
  <2>1. ~MapHit /\ ~ServerFromTarget /\ ~DroneRead
    <3>1. target_pc' # target_pc
      BY DEF TargetSend
    <3> QED
      BY <3>1 DEF MapHit, ServerFromTarget, DroneRead
  <2> QED
    BY <2>1, SameWay DEF Next
<1>8. AllNews' = Append(AllNews, m)
  <2>1. AllNews' = OnTheWay \o <<m>>
    BY <1>5, <1>6, <1>7 DEF AllNews
  <2>2. OnTheWay \o <<m>> = Append(OnTheWay, m)
    BY <1>2, <1>t, AppendIsConcat
  <2> QED
    BY <1>4, <2>1, <2>2
<1>9. InGame = {}
  <2>1. InPlay = [arr |-> targets_pos, num |-> Left]
    BY <1>3, PlayingMeans
  <2>2. ~Playing
    BY <1>t, <1>3 DEF OneHolder, One
  <2>3. Left = 0
    BY <1>t, <2>2 DEF Playing, Left, TypeInv, FrameOK, TypeOK
  <2> QED
    BY <1>4, <2>1, <2>3 DEF InGame, RangeOf
<1> QED
  BY <1>2, <1>5, <1>6, <1>8, <1>9 DEF m

\* The map reports a hit only while it plays, and then no set is on its way.
LEMMA ReachNews ==
  ASSUME RoundInv, FrameInv, DroneTold, DroneTold', MapHit
  PROVE  /\ HitReport(frame) \in Msg
         /\ AllNews' = Append(AllNews, HitReport(frame))
         /\ target_num \in 1..N /\ frame \in 1..target_num
         /\ InGame = RangeOf(targets_pos, target_num)
         /\ InGame' = RangeOf(remove_target(frame, targets_pos, target_num),
                              target_num - 1)
         /\ Contents(Heard(Drone, AllNews')[Len(AllNews')]) = InGame'
<1> DEFINE m == HitReport(frame)
           new == remove_target(frame, targets_pos, target_num)
<1>p. PipeNames = {"server_map", "map_server", "server_drone",
                   "target_server", "server_target"}
  BY DEF PipeNames
<1>t. TypeOK /\ OnTheWay \in Seq(Msg)
  BY RoundTypes
<1>1. /\ target_num \in 1..N /\ frame \in 1..target_num
      /\ InPlay = [arr |-> targets_pos, num |-> target_num]
      /\ InPlay' = [arr |-> new, num |-> target_num - 1]
  BY HitPlay
<1>2. OnTheWay' = Append(OnTheWay, m) /\ m \in Msg
  BY HitWay
<1> HIDE DEF m, new
<1>3. Playing
  BY <1>1, NAssumption DEF Playing
<1>4. pipe["target_server"] = <<>> /\ AllNews = OnTheWay
  BY <1>3, SetQueue
<1>5. pipe'["target_server"] = <<>>
  <2>1. pipe' = Sent("map_server", m)
    BY DEF MapHit, m
  <2> QED
    BY <1>2, <1>4, <1>p, <1>t, <2>1, SentType
<1>6. AllNews' = OnTheWay'
  <2>1. Append(OnTheWay, m) \in Seq(Msg)
    BY <1>2, <1>t, AppendFacts
  <2>2. OnTheWay' \in Seq(Msg)
    BY <1>2, <2>1
  <2>3. OnTheWay' \o <<>> = OnTheWay'
    BY <2>2, ConcatEmptySeq
  <2> QED
    BY <1>5, <2>3 DEF AllNews
<1>7. /\ InGame = RangeOf(targets_pos, target_num)
      /\ InGame' = RangeOf(new, target_num - 1)
  BY <1>1, <1>4, <1>5 DEF InGame
<1>8. Drone' = Drone
  BY DEF MapHit, droneVars, Drone
<1>9. Contents(Heard(Drone, AllNews')[Len(AllNews')]) = InGame'
  <2> DEFINE d == Heard(Drone, AllNews')[Len(AllNews')]
  <2>1. Told(d, InPlay')
    BY <1>6, <1>8 DEF DroneTold, Tells
  <2> HIDE DEF d
  <2>2. d.num = target_num - 1 /\ \A i \in 1..(target_num - 1) : d.arr[i] = new[i]
    BY <1>1, <2>1 DEF Told
  <2> QED
    BY <1>7, <2>2 DEF Contents, RangeOf, d
<1> QED
  BY <1>1, <1>2, <1>4, <1>6, <1>7, <1>9 DEF m, new

\* The drone's read takes the oldest message away, in the longer queue too.
LEMMA LearnNews ==
  ASSUME RoundInv, DroneRead
  PROVE  /\ AllNews # <<>> /\ AllNews' = Tail(AllNews)
         /\ Drone' = Applied(Head(AllNews), Drone)
         /\ InGame' = InGame
<1> DEFINE q == pipe["target_server"]
           sd == pipe["server_drone"]
<1>p. PipeNames = {"server_map", "map_server", "server_drone",
                   "target_server", "server_target"}
  BY DEF PipeNames
<1>t. TypeOK /\ OnTheWay \in Seq(Msg) /\ q \in Seq(Msg) /\ Drone \in Holdings
  BY <1>p, RoundTypes, DroneType
<1>1. /\ OnTheWay # <<>> /\ Head(OnTheWay) = Head(sd)
      /\ OnTheWay' = Tail(OnTheWay)
  BY DroneWay
<1>2. pipe'["target_server"] = q
  BY <1>p, <1>t, ReceivedType DEF DroneRead
<1>3. InPlay' = InPlay
  <2>1. ~MapHit
    BY <1>t DEF DroneRead, mapVars, MapHit, TypeOK
  <2>2. ~ServerFromTarget
    BY DEF DroneRead, ServerFromTarget
  <2> QED
    BY <2>1, <2>2, SamePlay DEF Next
<1>4. /\ AllNews # <<>> /\ Head(AllNews) = Head(OnTheWay)
      /\ Tail(AllNews) = Tail(OnTheWay) \o q
  BY <1>1, <1>t, ConcatTail DEF AllNews
<1>5. AllNews' = Tail(AllNews)
  BY <1>1, <1>2, <1>4 DEF AllNews
<1>6. Drone' = Applied(Head(AllNews), Drone)
  <2> DEFINE d == Applied(Head(sd), Drone)
  <2>1. targets_arr' = d.arr /\ targets_num' = d.num
    BY DEF DroneRead
  <2>2. Head(OnTheWay) \in Msg
    BY <1>t, <1>1, HeadTailProperties
  <2>3. d \in Holdings
    BY <1>t, <1>1, <2>2, AppliedType
  <2>4. Drone' = d
    BY <2>1, <2>3 DEF Drone, Holdings
  <2> QED
    BY <1>1, <1>4, <2>4
<1>7. InGame' = InGame
  BY <1>2, <1>3 DEF InGame
<1> QED
  BY <1>4, <1>5, <1>6, <1>7

\* Every other step leaves them as they are; the server that takes the set from
\* its pipe only moves it on.
LEMMA SameNews ==
  ASSUME RoundInv, [Next]_vars, ~TargetSend, ~MapHit, ~DroneRead
  PROVE  AllNews' = AllNews /\ InGame' = InGame /\ Drone' = Drone
<1> DEFINE q == pipe["target_server"]
<1>p. PipeNames = {"server_map", "map_server", "server_drone",
                   "target_server", "server_target"}
  BY DEF PipeNames
<1>t. TypeOK /\ OnTheWay \in Seq(Msg) /\ q \in Seq(Msg) /\ QueuesOK
  BY <1>p, RoundTypes
<1>d. Drone' = Drone
  BY DEF Next, vars, TargetRead, ServerPosition, ServerFromMap, ServerFromTarget,
     ServerWrite, MapRead, MapTimeout, MapDraw, MapEndFrame, droneVars, Drone
<1>1. CASE ServerFromTarget
  <2> DEFINE m == Head(q)
  <2>1. /\ m \in Msg /\ m.type = "T" /\ q = <<m>> /\ pipe'["target_server"] = <<>>
        /\ OnTheWay' = Append(OnTheWay, m)
    BY <1>1, SetWay
  <2>2. InPlay' = [arr |-> m.set, num |-> N]
    BY <1>1, SetPlay
  <2> HIDE DEF m
  <2>3. Append(OnTheWay, m) = OnTheWay \o <<m>> /\ Append(OnTheWay, m) \in Seq(Msg)
    BY <1>t, <2>1, AppendIsConcat, AppendFacts
  <2>4. Append(OnTheWay, m) \o <<>> = Append(OnTheWay, m)
    BY <2>3, ConcatEmptySeq
  <2>5. AllNews' = AllNews
    BY <2>1, <2>3, <2>4 DEF AllNews
  <2>6. q # <<>> /\ q[1] = m
    <3>1. <<m>> # <<>> /\ <<m>>[1] = m
      OBVIOUS
    <3> QED
      BY <2>1, <3>1
  <2>7. InGame = RangeOf(m.set, N) /\ InGame' = RangeOf(m.set, N)
    BY <2>1, <2>2, <2>6 DEF InGame
  <2> QED
    BY <1>d, <2>5, <2>7
<1>2. CASE ~ServerFromTarget
  <2>1. OnTheWay' = OnTheWay /\ InPlay' = InPlay
    BY <1>2, SameWay, SamePlay
  <2>2. pipe'["target_server"] = q
    <3>r. ASSUME NEW p \in PipeNames, p # "target_server", pipe[p] # <<>>,
                 pipe' = Received(p)
          PROVE  pipe'["target_server"] = q
      BY <1>p, <1>t, <3>r, ReceivedType
    <3>s. ASSUME NEW p \in PipeNames, p # "target_server", NEW m \in Msg,
                 pipe' = Sent(p, m)
          PROVE  pipe'["target_server"] = q
      BY <1>p, <1>t, <3>s, SentType
    <3>1. CASE TargetRead
      BY <1>p, <3>1, <3>r DEF TargetRead
    <3>2. CASE ServerPosition \/ MapTimeout \/ MapDraw \/ UNCHANGED vars
      BY <3>2 DEF ServerPosition, MapTimeout, MapDraw, vars
    <3>3. CASE ServerFromMap
      BY <1>p, <3>3, <3>r DEF ServerFromMap
    <3>4. CASE ServerWrite
      <4> DEFINE w == Head(to_write)
      <4>1. pipe' = Sent(w.to, w.msg)
        BY <3>4 DEF ServerWrite
      <4>2. w.to # "target_server" /\ w.to \in PipeNames /\ w.msg \in Msg
        <5>1. w \in [to : PipeNames, msg : Msg]
          BY <1>t, <3>4, HeadTailProperties DEF ServerWrite, TypeOK
        <5>2. w.to # "target_server"
          BY <1>t, <3>4 DEF ServerWrite, QueuesOK, ToWriteOK, Write1
        <5> QED
          BY <5>1, <5>2
      <4> QED
        BY <3>s, <4>1, <4>2
    <3>5. CASE MapRead
      BY <1>p, <3>5, <3>r DEF MapRead
    <3>6. CASE MapEndFrame
      <4>1. [type |-> "GE"] \in Msg
        BY DEF Msg, GEMsg
      <4> QED
        BY <1>p, <3>6, <3>s, <4>1 DEF MapEndFrame
    <3> QED
      BY <1>2, <3>1, <3>2, <3>3, <3>4, <3>5, <3>6 DEF Next
  <2> QED
    BY <1>d, <2>1, <2>2 DEF AllNews, InGame
<1> QED
  BY <1>1, <1>2

----------------------------------------------------------------------------
(* The sets.  A drawn set has N targets, and the removal of an entry takes *)
(* just the one target out of the set that the array stands for.           *)

LEMMA DrawnSet ==
  ASSUME DistinctCells, NEW s \in TargetSets
  PROVE  RangeOf(s, N) \in SUBSET Positions /\ Cardinality(RangeOf(s, N)) = N
<1> DEFINE S == RangeOf(s, N)
<1>1. s \in [1..N -> Positions] /\ N \in Nat
  BY NAssumption, TargetSetAssumption
<1>2. \A i, j \in 1..N : i # j => s[i] # s[j]
  <2>1. PICK l \in Layouts : TRUE
    BY LayoutAssumption
  <2> QED
    BY <2>1 DEF DistinctCells
<1>3. S = {s[i] : i \in 1..N}
  BY DEF RangeOf
<1> HIDE DEF S
<1>4. s \in Bijection(1..N, S)
  <2>1. s \in [1..N -> S]
    BY <1>1, <1>3
  <2>2. \A i, j \in 1..N : s[i] = s[j] => i = j
    BY <1>2
  <2>3. \A x \in S : \E i \in 1..N : s[i] = x
    BY <1>3
  <2> QED
    BY <2>1, <2>2, <2>3 DEF Bijection, Injection, Surjection, IsInjective
<1>5. ExistsBijection(1..N, S)
  BY <1>4 DEF ExistsBijection
<1>6. IsFiniteSet(1..N) /\ Cardinality(1..N) = N
  BY <1>1, FS_Interval
<1>7. Cardinality(S) = N
  BY <1>5, <1>6, FS_Bijection
<1> QED
  BY <1>1, <1>3, <1>7 DEF S

LEMMA RemovedSet ==
  ASSUME NEW arr, NEW n \in 1..N, NEW f \in 1..n, Apart(arr, n)
  PROVE  /\ arr[f] \in RangeOf(arr, n)
         /\ RangeOf(remove_target(f, arr, n), n - 1) = RangeOf(arr, n) \ {arr[f]}
<1> USE NAssumption
<1> DEFINE new == remove_target(f, arr, n)
<1>1. \A i, j \in 1..n : i # j => arr[i] # arr[j]
  <2>1. PICK l \in Layouts : TRUE
    BY LayoutAssumption
  <2> QED
    BY <2>1 DEF Apart
<1>2. \A i \in 1..(n - 1) :
         new[i] = IF i \in f..(n - 1) THEN arr[i + 1] ELSE arr[i]
  BY DEF remove_target
<1> HIDE DEF new
<1>3. ASSUME NEW i \in 1..(n - 1)
      PROVE  \E j \in 1..n : j # f /\ new[i] = arr[j]
  <2>1. CASE i \in f..(n - 1)
    <3>1. i + 1 \in 1..n /\ i + 1 # f
      BY <2>1
    <3> QED
      BY <1>2, <2>1, <3>1
  <2>2. CASE i \notin f..(n - 1)
    <3>1. i \in 1..n /\ i # f
      BY <2>2
    <3> QED
      BY <1>2, <2>2, <3>1
  <2> QED
    BY <2>1, <2>2
<1>4. ASSUME NEW j \in 1..n, j # f
      PROVE  \E i \in 1..(n - 1) : new[i] = arr[j]
  <2>1. CASE j < f
    <3>1. j \in 1..(n - 1) /\ j \notin f..(n - 1)
      BY <2>1
    <3> QED
      BY <1>2, <3>1
  <2>2. CASE j > f
    <3>1. j - 1 \in 1..(n - 1) /\ j - 1 \in f..(n - 1) /\ (j - 1) + 1 = j
      BY <2>2
    <3>2. new[j - 1] = arr[j]
      BY <1>2, <3>1
    <3> QED
      BY <3>1, <3>2
  <2> QED
    BY <1>4, <2>1, <2>2
<1>5. RangeOf(new, n - 1) = RangeOf(arr, n) \ {arr[f]}
  BY <1>1, <1>3, <1>4 DEF RangeOf
<1> QED
  BY <1>5 DEF RangeOf, new

----------------------------------------------------------------------------

LEMMA GameInit == Init => Game!Init
<1> SUFFICES ASSUME Init PROVE Game!Init
  OBVIOUS
<1>1. /\ pipe["server_drone"] = <<>> /\ pipe["map_server"] = <<>>
      /\ pipe["server_map"] = <<>> /\ pipe["target_server"] = <<>>
  BY DEF Init, PipeNames
<1>2. AllNews = <<>>
  <2>1. Writing = <<>> /\ Hits(pipe["map_server"]) = <<>>
    BY <1>1 DEF Init, Writing, Hits
  <2> QED
    BY <1>1, <2>1 DEF OnTheWay, AllNews
<1>3. News = <<>>
  <2>1. Len(AllNews) = 0
    BY <1>2, EmptySeq
  <2>2. News \in [{} -> {}]
    BY <2>1 DEF News
  <2> QED
    BY <2>1 DEF News
<1>4. InGame = {}
  <2>1. Coming = {}
    BY <1>1 DEF Init, Coming
  <2>2. InPlay.num = 0
    BY <2>1 DEF Init, InPlay, Left
  <2> QED
    BY <1>1, <2>2 DEF InGame, RangeOf
<1>5. RangeOf(targets_arr, targets_num) = {}
  BY DEF Init, RangeOf
<1> QED
  BY <1>3, <1>4, <1>5 DEF Game!Init

LEMMA GameStep ==
  ASSUME DistinctCells
  PROVE  AgreementInv /\ AgreementInv' /\ [Next]_vars => [Game!Next]_(Game!vars)
<1> SUFFICES ASSUME AgreementInv, AgreementInv', [Next]_vars
             PROVE  [Game!Next]_(Game!vars)
  OBVIOUS
<1> DEFINE told == RangeOf(targets_arr, targets_num)
<1>t. /\ RoundInv /\ FrameInv /\ DroneTold /\ DroneTold'
      /\ AllNews \in Seq(Msg) /\ Drone \in Holdings
  BY AllNewsType DEF AgreementInv
<1>n. News = NewsOf(Drone, AllNews)
  BY <1>t, NewsOfDrone
<1>d. told = Contents(Drone) /\ told' = Contents(Drone')
  BY DEF Contents, Drone
<1> HIDE DEF told
<1>a. ASSUME NEW m \in Msg, AllNews' = Append(AllNews, m), Drone' = Drone
      PROVE  /\ News' = Append(News, Contents(Heard(Drone, AllNews')[Len(AllNews')]))
             /\ told' = told
  <2>1. Append(AllNews, m) \in Seq(Msg) /\ Len(Append(AllNews, m)) = Len(AllNews) + 1
    BY <1>t, AppendFacts
  <2>2. AllNews' \in Seq(Msg) /\ Drone' \in Holdings
    BY <1>a, <1>t, <2>1
  <2>3. News' = NewsOf(Drone, Append(AllNews, m))
    BY <1>a, <2>2, NewsOfDrone
  <2>4. News' = Append(News, Contents(Heard(Drone, Append(AllNews, m))[Len(AllNews) + 1]))
    BY <1>n, <1>t, <2>3, NewsAppend
  <2> QED
    BY <1>a, <1>d, <2>1, <2>4
<1>1. CASE TargetSend
  <2>1. PICK s \in TargetSets :
           /\ [type |-> "T", set |-> s] \in Msg
           /\ AllNews' = Append(AllNews, [type |-> "T", set |-> s])
           /\ pipe'["target_server"] = <<[type |-> "T", set |-> s]>>
           /\ InGame = {}
    BY <1>1, <1>t, SpawnNews
  <2> DEFINE m == [type |-> "T", set |-> s]
  <2>2. m.type = "T" /\ m.set = s
    OBVIOUS
  <2>3. m \in Msg /\ AllNews' = Append(AllNews, m) /\ pipe'["target_server"] = <<m>>
    BY <2>1
  <2> HIDE DEF m
  <2>4. Drone' = Drone
    BY <1>1 DEF TargetSend, droneVars, Drone
  <2>5. Contents(Heard(Drone, AllNews')[Len(AllNews')]) = RangeOf(s, N)
    <3>1. Len(Append(AllNews, m)) = Len(AllNews) + 1
      BY <1>t, <2>3, AppendFacts
    <3>2. Contents(Heard(Drone, Append(AllNews, m))[Len(AllNews) + 1]) = RangeOf(s, N)
      BY <1>t, <2>2, <2>3, LastNews
    <3> QED
      BY <2>3, <3>1, <3>2
  <2>6. InGame' = RangeOf(s, N)
    <3>1. <<m>> # <<>> /\ <<m>>[1] = m
      OBVIOUS
    <3> QED
      BY <2>2, <2>3, <3>1 DEF InGame
  <2>7. RangeOf(s, N) \in SUBSET Positions /\ Cardinality(RangeOf(s, N)) = N
    BY DrawnSet
  <2>8. News' = Append(News, RangeOf(s, N)) /\ told' = told
    BY <1>a, <2>3, <2>4, <2>5
  <2>9. Game!Spawn
    <3> DEFINE S == RangeOf(s, N)
    <3> HIDE DEF S
    <3>1. S \in SUBSET Positions /\ Cardinality(S) = N
      BY <2>7 DEF S
    <3>2. Game!Change(S)
      BY <2>6, <2>8 DEF Game!Change, told, S
    <3>3. Game!Cardinality(S) = Cardinality(S)
      BY DEF Cardinality, Game!Cardinality
    <3>4. \E set \in SUBSET Positions : Game!Cardinality(set) = N /\ Game!Change(set)
      BY <3>1, <3>2, <3>3, Zenon
    <3> QED
      BY <2>1, <3>4 DEF Game!Spawn
  <2> QED
    BY <2>9 DEF Game!Next
<1>2. CASE MapHit
  <2> DEFINE m == HitReport(frame)
             t == targets_pos[frame]
  <2>1. /\ m \in Msg /\ AllNews' = Append(AllNews, m)
        /\ target_num \in 1..N /\ frame \in 1..target_num
        /\ InGame = RangeOf(targets_pos, target_num)
        /\ InGame' = RangeOf(remove_target(frame, targets_pos, target_num),
                             target_num - 1)
        /\ Contents(Heard(Drone, AllNews')[Len(AllNews')]) = InGame'
    BY <1>2, <1>t, ReachNews
  <2> HIDE DEF m
  <2>2. Drone' = Drone
    BY <1>2 DEF MapHit, droneVars, Drone
  <2>3. News' = Append(News, InGame') /\ told' = told
    BY <1>a, <2>1, <2>2
  <2>4. Apart(targets_pos, target_num)
    <3>1. InPlay = [arr |-> targets_pos, num |-> target_num] /\ ~to_decrease
      <4>1. frame \in frame..target_num /\ IsHit(frame)
        BY <1>2, <2>1, NAssumption DEF MapHit
      <4>2. ~to_decrease
        BY <1>t, <4>1 DEF FrameInv
      <4> QED
        BY <1>2, <1>t, <4>2, HitPlay
    <3> QED
      BY <1>t, <3>1 DEF FrameInv, Left
  <2>5. t \in InGame /\ InGame' = InGame \ {t}
    BY <2>1, <2>4, RemovedSet
  <2>6. Game!Reach
    BY <2>3, <2>5 DEF Game!Reach, Game!Change, told
  <2> QED
    BY <2>6 DEF Game!Next
<1>3. CASE DroneRead
  <2>1. /\ AllNews # <<>> /\ AllNews' = Tail(AllNews)
        /\ Drone' = Applied(Head(AllNews), Drone)
        /\ InGame' = InGame
    BY <1>3, <1>t, LearnNews
  <2>2. Head(AllNews) \in Msg /\ Tail(AllNews) \in Seq(Msg)
    BY <1>t, <2>1, TailFacts
  <2>3. Drone' \in Holdings /\ AllNews' \in Seq(Msg)
    BY <1>t, <2>1, <2>2, AppliedType
  <2>4. News' = NewsOf(Drone', AllNews')
    BY <2>3, NewsOfDrone
  <2>5. News # <<>> /\ Head(News) = Contents(Drone') /\ News' = Tail(News)
    BY <1>n, <1>t, <2>1, <2>4, NewsTail
  <2>6. Game!Learn
    BY <1>d, <2>1, <2>5 DEF Game!Learn, told
  <2> QED
    BY <2>6 DEF Game!Next
<1>4. CASE ~TargetSend /\ ~MapHit /\ ~DroneRead
  <2>1. AllNews' = AllNews /\ InGame' = InGame /\ Drone' = Drone
    BY <1>4, <1>t, SameNews
  <2>2. News' = News
    <3>1. AllNews' \in Seq(Msg) /\ Drone' \in Holdings
      BY <1>t, <2>1
    <3> QED
      BY <1>n, <2>1, <3>1, NewsOfDrone
  <2> QED
    BY <1>d, <2>1, <2>2 DEF Game!vars, told
<1> QED
  BY <1>1, <1>2, <1>3, <1>4

\* The processes implement the abstract game: a set comes into play only when the
\* one before it is used up, one target is reached at a time, and the drone hears
\* of every change in order and without a gap.
THEOREM PlaysTheGame ==
  ASSUME DistinctCells
  PROVE  Spec => PlaysGame
<1>1. Init => Game!Init
  BY GameInit
<1>2. AgreementInv /\ AgreementInv' /\ [Next]_vars => [Game!Next]_(Game!vars)
  BY GameStep
<1> QED
  BY <1>1, <1>2, AgreementInvariant, PTL DEF Spec, PlaysGame, Game!Spec
============================================================================
