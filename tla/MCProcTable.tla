----------------------------- MODULE MCProcTable -----------------------------
(* Instances of ProcTable for TLC: the scheduler and two programs. *)
EXTENDS ProcTable

CONSTANTS p0, p1, p2, scheduler, ping, pong
=============================================================================
