------------------------------ MODULE MCTicker ------------------------------
(* Ticker on small profiles.  A slice is three time units; the ramp of Ramped
   passes through slices of 1, 2 and 3 permits, Idle has a rate of zero. *)
EXTENDS Ticker

CONSTANTS w1, w2

MCWorkers == {w1, w2}

Ramped == [target |-> 30, ramp |-> 5, plateau |-> 4]
Steady == [target |-> 20, ramp |-> 0, plateau |-> 4]
Idle   == [target |-> 0,  ramp |-> 1, plateau |-> 3]

MCProfiles   == {Ramped, Steady, Idle}
=============================================================================
