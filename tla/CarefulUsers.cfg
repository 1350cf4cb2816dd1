\* Careful users and nothing that fails.
CONSTANTS
    Clients = {c1, c2, c3}
    NoClient = NoClient
    Users = {u1}
    NoUser = NoUser
    Fds = {5, 6}
    MaxCommands = 3
    Careful = TRUE
    Faults = {}
SPECIFICATION Spec
CHECK_DEADLOCK FALSE
INVARIANT CarefulInv
PROPERTIES NoticeOnlyToUser ExitLogsOut CommandAnswered
