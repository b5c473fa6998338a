--------------------------- MODULE MCSelfMetrics ---------------------------
(* SelfMetrics with two processors: a window of eleven units, which the horizon
   leaves room for, is the shortest for which the ratio 0.9..1.1 admits a
   length other than its own. *)
EXTENDS SelfMetrics
=============================================================================
