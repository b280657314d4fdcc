CONSTANTS
    v = v
    big = big
    Oversized = {big}
    Calls <- AllCalls
    MaxCalls = 3
    MaxCrashes = 2

SPECIFICATION Spec

INVARIANTS
    TypeOK
    LogKeepsTheOrder
    MemoryIsTheReplay

PROPERTIES
    ReplayIsSequential
    RestartEnds
    QueueDrains

CHECK_DEADLOCK FALSE
