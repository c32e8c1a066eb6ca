\* Two loops take a due schedule at once; no fault, no shutdown.
SPECIFICATION Spec
CONSTANTS
    a = a
    b = b
    i1 = i1
    i2 = i2
    None = None
    Schedule <- OneSchedule
    Loop <- TwoLoops
    Expression <- Expressions
    Duration <- MCDuration
    Shorthand <- MCShorthand
    OneHour = 120
    Minute <- MCMinute
    LastTick = 2
    TickLimit = 1
    MaxCommands = 1
    MaxFaults = 0
    MayShutdown = FALSE
INVARIANTS
    NoDoubleFire
