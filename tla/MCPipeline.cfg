CONSTANTS
    MaxPipelines = 3
    Programs <- MixedPrograms
    ChannelSize = 1
    MaxDirect = 1

SPECIFICATION Spec

INVARIANTS
    TypeOK
    LocksExclude
    JobsAtOnePlace

PROPERTIES
    JobsAreSerial
    SmallJobsFirst
    NonConflictingJobsEnd

CHECK_DEADLOCK FALSE
