------------------------------ MODULE MCDriver ------------------------------
(* Driver with two workers, which are interchangeable. *)
EXTENDS Driver, TLC

CONSTANTS w1, w2

MCWorkers == {w1, w2}

MCSymmetry == Permutations(MCWorkers)
=============================================================================
