------------------------------ MODULE MCScreen ------------------------------
(* Windows of one, four, six and nine cells, small enough to be filled by up   *)
(* to three targets and two obstacles; positions that reach every cell.        *)
EXTENDS Screen

MCSizes == {<<4, 3>>, <<5, 4>>, <<5, 5>>, <<6, 5>>}
MCPositions == {0, 250, 500}
=============================================================================
