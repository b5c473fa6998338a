--------------------------- MODULE MCPacedDriver ---------------------------
(* The whole process with one worker and a profile whose plateau holds two   *)
(* permits in a slice, more than the buffer takes: the generator may block   *)
(* behind a worker, be late for its slice, and be stopped or outrun anywhere.*)
EXTENDS PacedDriver

CONSTANT w1

MCWorkers == {w1}

MCProfiles == {[target |-> 20, ramp |-> 1, plateau |-> 1]}
=============================================================================
