-------------------------------- MODULE MCRelay --------------------------------
(* Relay on small instances. *)
EXTENDS RelayProofs, TLC
Perms == Permutations(Clients)
================================================================================
