CONSTANTS
    SEGMENT_SIZE = 7
    INITIAL_SEGMENTS = 2
    MAX_SEGMENTS = 3
    Timestamps <- MCTimestamps
    Payloads <- MCPayloads
    MaxId = 5

SPECIFICATION Spec

INVARIANTS
    TypeOK
    LiveIdsAreASuffix
    LayoutOrdered
    RawSliceAgrees

PROPERTIES
    FailedAllocationIsFinal
    ImplementsAbstractLog
