---------------------------- MODULE MCLoginService ----------------------------
(* LoginService on small instances. *)
EXTENDS LoginServiceProofs, TLC
Perms == Permutations(Users) \cup Permutations(Passwords)
=============================================================================
