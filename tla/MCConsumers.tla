------------------------------ MODULE MCConsumers ------------------------------
(* One event, of which one message never succeeds, and a worker thread. *)
EXTENDS Consumers

CONSTANTS p, g, w, main

MCStartup == <<"cred.created">>
MCEvent == [m \in Messages |-> "cred.created"]
=============================================================================
