CONSTANTS
    k1 = k1
    k2 = k2
    a = a
    none = none
    big = big
    Keys = {k1, k2}
    Payloads = {a, none, big}
    Empty = none
    Oversized = {big}
    CHUNK = 2
    CAPACITY = 5
    MaxBatch = 2
    MaxLen = 2

SYMMETRY Symmetry

SPECIFICATION Spec

INVARIANTS
    TypeOK
    EverySegmentHasOnePlace
    FreeSegmentsAreZeroed

PROPERTIES
    ImplementsAbstractList
