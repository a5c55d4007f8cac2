----------------------------- MODULE MCClients ------------------------------
(* Clients on instances small enough for TLC. *)
EXTENDS Clients
=============================================================================
