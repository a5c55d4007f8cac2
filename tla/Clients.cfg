SPECIFICATION ClientsSpec
CONSTANTS
    MaxClients = 3
    ReqLen = 2
    BufSize = 2
    MaxSock = 2
    MaxWork = 2
    Backends = {"epoll", "poll"}
    Sleepers = {1}
    Testers = {2}
    Clogged = {1}
    None = None
INVARIANTS ClientsTypeOK NoInputLost
PROPERTIES GrabExcludes InputIsServed
