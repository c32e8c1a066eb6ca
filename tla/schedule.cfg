\* Two loops and two schedules of half a minute, a fault and a shutdown.
\* A cancelled scheduler stops for good, and then nothing is left to do.
CHECK_DEADLOCK FALSE
SPECIFICATION FairSpec
CONSTANTS
    a = a
    b = b
    i1 = i1
    i2 = i2
    None = None
    Schedule <- TwoSchedules
    Loop <- TwoLoops
    Expression <- Expressions
    Duration <- MCDuration
    Shorthand <- MCShorthand
    OneHour = 120
    Minute <- MCMinute
    LastTick = 1
    TickLimit = 2
    MaxCommands = 3
    MaxFaults = 1
    MayShutdown = TRUE
INVARIANTS
    TypeOK
    RepeatsNeedContention
    PassedWithTask
    DisabledRunsOut
PROPERTIES
    DueFires
