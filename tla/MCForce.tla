------------------------------ MODULE MCForce ------------------------------
(* Two limits and one step, of which a diagonal is a half: five values for   *)
(* each component.                                                           *)
EXTENDS Force

MCConfigs == {[max_force |-> 1, force_step |-> 2], [max_force |-> 2, force_step |-> 2]}
MCWild == <<9, 9>>
============================================================================
