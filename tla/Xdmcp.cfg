SPECIFICATION Spec
CONSTANTS
    h1 = h1
    h2 = h2
    s1 = s1
    s2 = s2
    s3 = s3
    Host = {h1, h2}
    Session = {s1, s2, s3}
    Owner <- MCOwner
    Sock = {4, 5}
    MgrAddr <- MCMgrAddr
    InitStates = {"QUERY", "BROADCAST", "MULTICAST", "INDIRECT"}
    MIN_RTX = 2
    MAX_RTX = 32
    RTX_LIMIT = 7
    KA_RTX_LIMIT = 4
    DEF_DORMANCY = 180
    None = None
INVARIANTS TypeOK SessionIsWhole
PROPERTIES SessionIsKept SilenceEnds
CHECK_DEADLOCK FALSE
