CONSTANTS
    v = v
    big = big
    Oversized = {big}
    Calls <- KvCalls
    MaxCalls = 3
    MaxCrashes = 2

SPECIFICATION Spec

INVARIANT ReplayRebuildsKv

CHECK_DEADLOCK FALSE
