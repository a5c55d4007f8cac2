SPECIFICATION Spec
CONSTANTS
    a = a
    b = b
    Clients <- MCClients
    Closers <- MCCloserA
    Owner = a
    PassiveGrabs <- MCOnePassive
    ActiveGrabs <- MCActive
    PressSelected <- MCSelected
    Buttons <- MCOne
    Keys <- MCOne
    NoGrab = NoGrab
    NoEvent = NoEvent
    NoClient = NoClient
    MaxEvents = 2
INVARIANT NoGrabOfFreedClient
