\* Every statement may fail, lose its answer or be cut off by a crash.
CONSTANTS
    Users = {u1, u2}
    Passwords = {p1, p2}
    Fds = {5, 6}
    MaxLogins = 3
    MaxAccounts = 2
    IntMax = 7
    Faults = {"query", "lost", "reply", "crash"}
SPECIFICATION Spec
SYMMETRY Perms
INVARIANTS TypeOK SingleLogin RegisteredOnce SuccessIsRecorded IInv
PROPERTIES OnlyOwnSession ImplementsRegistry
