SPECIFICATION Spec
CONSTANTS
    a = a
    b = b
    Clients <- MCClients
    Closers <- MCClients
    Owner = a
    PassiveGrabs <- MCPassive
    ActiveGrabs <- MCActive
    PressSelected <- MCSelected
    Buttons <- MCTwo
    Keys <- MCOne
    NoGrab = NoGrab
    NoEvent = NoEvent
    NoClient = NoClient
    MaxEvents = 3
INVARIANTS TypeOK FreezeHasGrab NothingOverdue InOrder GrabsHaveOwners
PROPERTY RequestsEnd
