\* Clients that wait for each reply; accept() and EPOLL_CTL_ADD may fail.
CONSTANTS
    Clients = {c1, c2}
    NoClient = NoClient
    Fds = {5, 6}
    Bufs = {b1, b2, b3}
    NoBuf = NoBuf
    MaxMessages = 3
    Pipelining = FALSE
    Faults = {"accept", "add"}
SPECIFICATION Spec
INVARIANTS TypeOK WriterGetsReadersData RepliesToSender OneBlockPerClient
PROPERTY EveryMessageAnswered
