\* Daemons are killed and started again.
CONSTANTS
    Clients = {c1, c2}
    NoLink = NoLink
    Fds = {5, 6, 7}
    MaxRequests = 2
    MaxStarts = 2
    MaxKills = 1
    Mortal = {"receiver", "dispatcher", "service"}
SPECIFICATION Spec
CHECK_DEADLOCK FALSE
INVARIANTS TypeOK AnswersOwnRequests RelayInv
PROPERTY NobodyWaitsForever
