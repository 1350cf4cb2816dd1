\* The notice is read together with an answer, or by the other thread.
CONSTANTS
    Clients = {c1, c2}
    NoClient = NoClient
    Users = {u1}
    NoUser = NoUser
    Fds = {5, 6}
    MaxCommands = 2
    Careful = TRUE
    Faults = {}
SPECIFICATION Spec
CHECK_DEADLOCK FALSE
PROPERTY EvictedExits
