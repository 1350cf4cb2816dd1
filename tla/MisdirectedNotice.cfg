\* A session outlives its connection and the descriptor is given out again.
CONSTANTS
    Clients = {c1, c2, c3}
    NoClient = NoClient
    Users = {u1}
    NoUser = NoUser
    Fds = {5, 6}
    MaxCommands = 3
    Careful = FALSE
    Faults = {}
SPECIFICATION Spec
CHECK_DEADLOCK FALSE
PROPERTY NoticeOnlyToUser
