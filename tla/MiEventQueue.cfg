SPECIFICATION FairSpec
CONSTANTS
    d1 = d1
    d2 = d2
    Devices <- MCDevices
    NoDevice = NoDevice
    NoEvent = NoEvent
    Times <- MCOneTime
    JumpWindow = 10
    InitialSize = 2
    Sizes <- MCSizes
    WordSize = 8
    MaxEvents = 5
INVARIANTS TypeOK NoEventLost NoDanglingDevice
PROPERTIES ImplementsFifo EveryEventLeaves
