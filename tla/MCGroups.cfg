SPECIFICATION Spec
CONSTANTS
    Oversized = {9}
    cap = 3
    ttl = 1
    Names = {"g"}
    Batches <- MCBatches
    MaxId = 4
    MaxTime = 3
    Width = 3
    MaxCapacity = 5
INVARIANTS
    TypeOK
    CachesAreLinked
    SlotsBehaveAsQueue
    ReadsAreTransparent
