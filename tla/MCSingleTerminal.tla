---------------------------- MODULE MCSingleTerminal ----------------------------
(* SingleTerminal on small instances. *)
EXTENDS CarefulProofs, TLC
Perms == Permutations(Clients)
=================================================================================
