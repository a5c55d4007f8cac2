SPECIFICATION Spec
CONSTANTS
    w1 = w1
    w2 = w2
    Windows = {w1}
    Requests <- FenceRequests
    Drivers <- FenceDrivers
    Capabilities <- MCCapabilities
    MaxPresents = 1
    MaxMsc = 2
    MaxFences = 1
    None = None
PROPERTIES EveryPresentCompletes
