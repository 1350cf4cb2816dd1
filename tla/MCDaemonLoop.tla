----------------------------- MODULE MCDaemonLoop -----------------------------
(* DaemonLoop on small instances. *)
EXTENDS DaemonLoop, TLC
Perms == Permutations(Clients) \cup Permutations(Bufs)
=============================================================================
