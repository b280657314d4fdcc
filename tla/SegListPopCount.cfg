CONSTANTS
    k1 = k1
    a = a
    none = none
    big = big
    Keys = {k1}
    Payloads = {a, none, big}
    Empty = none
    Oversized = {big}
    CHUNK = 2
    CAPACITY = 5
    MaxBatch = 2
    MaxLen = 2

SPECIFICATION Spec

INVARIANT PopCountPopsTheCount
