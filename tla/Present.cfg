SPECIFICATION Spec
CONSTANTS
    w1 = w1
    w2 = w2
    Windows = {w1, w2}
    Requests <- MCRequests
    Drivers <- MCDrivers
    Capabilities <- MCCapabilities
    MaxPresents = 3
    MaxMsc = 2
    MaxFences = 1
    None = None
INVARIANTS ShownIsHeld FlipIsTracked FlipsAreFullScreen NobodyIsForgotten

