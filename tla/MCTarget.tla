------------------------------ MODULE MCTarget ------------------------------
(* Target with two calls in hand, and two different gRPC messages. *)
EXTENDS Target
=============================================================================
