SPECIFICATION Spec
CONSTANTS
    t1 = t1
    t2 = t2
    Timer <- TwoTimers
    Half = 5
    MaxDelta = 2
    FarDelays = {5}
    Slack = 0
    MaxLag = 1
    MaxSkew = 1
    MaxDepth = 2
    Off = Off
INVARIANTS ListIsExact
PROPERTIES ImplementsPromise DueTimersRun
