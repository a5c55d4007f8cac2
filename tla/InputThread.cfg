SPECIFICATION Spec
CONSTANTS
    f1 = f1
    f2 = f2
    Fds <- MCTwoFds
    MaxCalls = 5
    MaxInput = 1
    NotifySize = 3
    ReadMax = 2
INVARIANTS TypeOK PollMatchesList
PROPERTIES NoReadAfterUnregister InputIsRead FiniReturns
CHECK_DEADLOCK FALSE
