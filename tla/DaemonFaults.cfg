\* Pipelining clients, failing calls and exhausted memory; the daemon may die for good.
CONSTANTS
    Clients = {c1, c2}
    NoClient = NoClient
    Fds = {5, 6}
    Bufs = {b1, b2}
    NoBuf = NoBuf
    MaxMessages = 3
    Pipelining = TRUE
    Faults = {"accept", "mod", "handler", "notice"}
SPECIFICATION Spec
INVARIANT RepliesInOrder
PROPERTY DescriptorReleased
CHECK_DEADLOCK FALSE
