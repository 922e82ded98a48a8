----------------------------- MODULE MCShutdown -----------------------------
(* Small instances of Shutdown: how much each pipe holds and how much is sent *)
(* while the processes end.                                                   *)
EXTENDS Shutdown

SmallCap == [p \in Pipes |-> IF p = "server_drone" THEN 4 ELSE 1]

OneEach == [k \in {"map", "obstacles"} |-> 1]
==============================================================================
