------------------------------ MODULE MCParams ------------------------------
(* A file of up to five lines: two processes with two parameters, three slots *)
(* instead of five.                                                           *)
EXTENDS Params

MCNames == {"drone", "input"}
MCKeys == {"mass", "step"}
MCValues == {5, 12}
=============================================================================
