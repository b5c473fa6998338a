----------------------------- MODULE MCClients ------------------------------
(* Clients with two workers and one connection. *)
EXTENDS Clients
=============================================================================
