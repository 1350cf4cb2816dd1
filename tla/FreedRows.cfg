\* What is left when the rows read after mysql_free_result() hold anything.
CONSTANTS
    Users = {u1, u2}
    Passwords = {p1}
    Fds = {5, 6}
    MaxLogins = 3
    MaxAccounts = 1
    IntMax = 7
    Faults = {"freed"}
SPECIFICATION Spec
SYMMETRY Perms
INVARIANT EvictionMeansReplaced
