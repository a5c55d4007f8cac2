SPECIFICATION Spec
CONSTANTS
    c1 = c1
    c2 = c2
    Client <- MCClients
    SaverTimes = {0, 2}
    DefaultTime = 2
    DefaultInterval = 1
    Intervals = {0, 1}
    PowerTimes <- MCPowerTimes
    MaxTime = 3
    MaxLag = 1
    MaxAge = 1
    MaxCalls = 6
    Off = Off
INVARIANTS TypeOK TimerIsKept
PROPERTIES DarkOnlyWhenIdleBefore IdleScreenGoesDark
