CONSTANTS
    MaxPipelines = 1
    Programs <- FailingPrograms
    ChannelSize = 1
    MaxDirect = 0

SPECIFICATION Spec

INVARIANT AllOrNothing

CHECK_DEADLOCK FALSE
