SPECIFICATION Spec
CONSTANTS
    a = a
    b = b
    c = c
    k = k
    l = l
    f = f
    x = x
    y = y
    MinInt <- MCMin
    MaxInt = 3
    Clients <- MCOneClient
    Closers <- MCOneClient
    Counters <- MCCounters
    Fences <- MCNone
    Alarms <- MCOneAlarm
    Owner <- MCOwner
    InitialValues <- MCInitial
    SetValues <- MCSet
    Increments <- MCIncrements
    Awaits <- MCNone
    NewAlarms <- MCNewAlarm
    AlarmChanges <- MCAlarmChange
    Keep = Keep
    None = None
    Gone = Gone
    NoAlarm = NoAlarm
    NoClient = NoClient
INVARIANT AlarmUpdateEnds
