----------------------------- MODULE MCDynamics -----------------------------
(* A field of seven by seven cells.  The user can cross it in one turn, and so *)
(* can the wall's force.                                                       *)
EXTENDS Dynamics

MCUserForces == {-9, 0, 9}
=============================================================================
