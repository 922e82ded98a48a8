----------------------------- MODULE TargetGame -----------------------------
(***************************************************************************)
(* What the target processes promise together, without pipes, arrays or    *)
(* frames: sets of N targets come into play one after the other, each only *)
(* when the one before it is used up; the drone reaches the targets of the *)
(* set in play one at a time; and the process that computes the attraction *)
(* is told of every change, in order and without a gap.                    *)
(***************************************************************************)
EXTENDS Naturals, Sequences, FiniteSets

CONSTANTS N, Positions

VARIABLES
  left,   \* the targets in play
  news,   \* the sets the drone has still to be told of, oldest first
  told    \* the targets the drone believes to be in play

vars == <<left, news, told>>

TypeOK ==
  /\ left \subseteq Positions
  /\ news \in Seq(SUBSET Positions)
  /\ told \subseteq Positions

Init == left = {} /\ news = <<>> /\ told = {}

Change(set) == left' = set /\ news' = Append(news, set) /\ UNCHANGED told

Spawn ==
  /\ left = {}
  /\ \E set \in SUBSET Positions : Cardinality(set) = N /\ Change(set)

Reach == \E t \in left : Change(left \ {t})

Learn ==
  /\ news # <<>>
  /\ told' = Head(news)
  /\ news' = Tail(news)
  /\ UNCHANGED left

Next == Spawn \/ Reach \/ Learn

Spec == Init /\ [][Next]_vars

\* Once the drone has heard everything it agrees with the map: the promise
\* behind the TH messages that server.c relays to drone.c.
Informed == (IF news = <<>> THEN told ELSE news[Len(news)]) = left
=============================================================================
