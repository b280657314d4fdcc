CONSTANTS
    v = v
    big = big
    Oversized = {big}
    Calls <- LogCalls
    MaxCalls = 3
    MaxCrashes = 2

SPECIFICATION Spec

INVARIANT ReplayRepeatsReplies

CHECK_DEADLOCK FALSE
