\* The dispatcher dies while the receiver is idle.
CONSTANTS
    Clients = {c1, c2}
    NoLink = NoLink
    Fds = {5, 6, 7}
    MaxRequests = 2
    MaxStarts = 1
    MaxKills = 1
    Mortal = {"dispatcher"}
SPECIFICATION Spec
CHECK_DEADLOCK FALSE
INVARIANT RequestsStayInside
