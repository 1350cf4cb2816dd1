\* A LOGOUT crosses the notice that another terminal took over.
CONSTANTS
    Clients = {c1, c2, c3}
    NoClient = NoClient
    Users = {u1}
    NoUser = NoUser
    Fds = {5, 6}
    MaxCommands = 4
    Careful = TRUE
    Faults = {}
SPECIFICATION Spec
CHECK_DEADLOCK FALSE
INVARIANT OneTerminal
