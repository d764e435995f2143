------------------------------ MODULE MCLogger -------------------------------
(* Two engines that log to one file, both C, both C++, or one of each.       *)
EXTENDS Logger, TLC

CONSTANTS p1, p2, t1, t2

TwoEngines == (t1 :> p1) @@ (t2 :> p2)
Languages == {{}, {p1}, Procs}
==============================================================================
