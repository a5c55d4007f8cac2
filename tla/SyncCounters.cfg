SPECIFICATION Spec
CONSTANTS
    a = a
    b = b
    c = c
    k = k
    l = l
    f = f
    x = x
    y = y
    MinInt <- MCMin
    MaxInt = 3
    Clients <- MCClients
    Closers <- MCOneClient
    Counters <- MCCounters
    Fences <- MCFences
    Alarms <- MCOneAlarm
    Owner <- MCOwner
    InitialValues <- MCInitial
    SetValues <- MCSet
    Increments <- MCIncrements
    Awaits <- MCAwaits
    NewAlarms <- MCNewAlarms
    AlarmChanges <- MCAlarmChanges
    Keep = Keep
    None = None
    Gone = Gone
    NoAlarm = NoAlarm
    NoClient = NoClient
INVARIANTS TypeOK ListsAreExact AlarmsAreUpdated
PROPERTIES LoopsEnd ImplementsAwait
