----------------------------- MODULE MCWorkload -----------------------------
(* Workload with two workers, a pool of four bodies of which two are small   *)
(* and two large, and mixes that draw every scenario at the first and the    *)
(* last of its numbers.                                                      *)
EXTENDS Workload, TLC

Small == [class |-> 59, item |-> 0]
Large == [class |-> 60, item |-> 99]

MCGenDraws == {0 :> Small @@ 1 :> Large @@ 2 :> Small @@ 3 :> Large,
               0 :> Large @@ 1 :> Large @@ 2 :> Small @@ 3 :> Small}

MCMixDraws == {<<64, 64, 64, 64, 64, 64>>, <<40, 65, 84, 40, 65, 84>>,
               <<0, 40, 65, 85, 95, 64>>, <<84, 99, 39, 64, 94, 84>>}
=============================================================================
