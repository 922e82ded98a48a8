------------------------------ MODULE MCTargets ------------------------------
(* Small instances of Targets: which positions share a character cell of the *)
(* window, which sets are drawn and how much each pipe holds.                *)
EXTENDS AgreementProofs, TLC

CONSTANTS p1, p2, p3, c1, c2, c3

\* A window in which every position has a cell of its own.
Wide == {(p1 :> c1) @@ (p2 :> c2) @@ (p3 :> c3)}

\* This is what the proofs about agreement assume of a window.
ASSUME WideAssumption == Layouts = Wide => DistinctCells

\* A window that can be resized until p1 and p2 fall on one cell.
Narrow == Wide \cup {(p1 :> c1) @@ (p2 :> c1) @@ (p3 :> c3)}

\* Sets of distinct positions, in orders that differ in every place.
Cyclic == LET next == (p1 :> p2) @@ (p2 :> p3) @@ (p3 :> p1)
          IN  {[i \in 1..N |-> CASE i = 1 -> p [] i = 2 -> next[p] [] OTHER -> next[next[p]]]
                 : p \in Positions}

\* Every set, repeated positions included: target.c draws with replacement.
AllSets == [1..N -> Positions]

OneCap == [p \in PipeNames |->
               IF p = "map_server" THEN (N * (N + 1)) \div 2 + 1 ELSE 1]
==============================================================================
