\* Every statement works; the process may be killed, a response be lost.
CONSTANTS
    Users = {u1, u2}
    Passwords = {p1, p2}
    Fds = {5, 6}
    MaxLogins = 4
    MaxAccounts = 2
    IntMax = 7
    Faults = {"crash", "reply"}
SPECIFICATION Spec
SYMMETRY Perms
INVARIANTS NoAssertFailure EvictionMeansReplaced RefusedOnlyIfInvalid
