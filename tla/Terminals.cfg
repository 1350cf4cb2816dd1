\* Anything typed at any time; statements fail and clients and the receiver are killed.
CONSTANTS
    Clients = {c1, c2, c3}
    NoClient = NoClient
    Users = {u1}
    NoUser = NoUser
    Fds = {5, 6}
    MaxCommands = 3
    Careful = FALSE
    Faults = {"sql", "die", "restart"}
SPECIFICATION Spec
SYMMETRY Perms
CHECK_DEADLOCK FALSE
INVARIANTS TypeOK OldTerminalIsTold DivertInv
PROPERTY NoticeNotDiverted
