---------------------------- MODULE SessionRegistry ----------------------------
(***************************************************************************)
(* What the login service promises, without its database or its SQL        *)
(* statements: every user has at most one account password, a session is   *)
(* opened only with that password, and a user never has two sessions.      *)
(* A second device takes over in two steps, Close and then Open, because   *)
(* the code does not wrap them in a transaction (loginer.cpp:253).         *)
(***************************************************************************)
CONSTANTS Users, Passwords, Fds

VARIABLES accounts,  \* accounts[u]: the passwords u is registered with
          sessions   \* sessions[u]: the client fds u is logged in from

vars == <<accounts, sessions>>

Init == /\ accounts = [u \in Users |-> {}]
        /\ sessions = [u \in Users |-> {}]

Register(u, p) == /\ accounts[u] = {}
                  /\ accounts' = [accounts EXCEPT ![u] = {p}]
                  /\ UNCHANGED sessions

Open(u, p, f) == /\ p \in accounts[u]
                 /\ sessions[u] = {}
                 /\ sessions' = [sessions EXCEPT ![u] = {f}]
                 /\ UNCHANGED accounts

Close(u) == /\ sessions' = [sessions EXCEPT ![u] = {}]
            /\ UNCHANGED accounts

Next == \E u \in Users :
           \/ \E p \in Passwords : \/ Register(u, p)
                                   \/ \E f \in Fds : Open(u, p, f)
           \/ Close(u)

Spec == Init /\ [][Next]_vars
================================================================================
