------------------------------ MODULE MCMatrix ------------------------------
(* Matrix with three cells and two passes: a cell that overlaps needs one
   before it, and a stale file an earlier pass. *)
EXTENDS Matrix

MCOrder == <<1, 2, 3>>
MCOrder2 == <<1, 2>>
=============================================================================
