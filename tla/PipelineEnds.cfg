CONSTANTS
    MaxPipelines = 2
    Programs <- KvPrograms
    ChannelSize = 1
    MaxDirect = 0

SPECIFICATION Spec

PROPERTY EveryJobEnds

CHECK_DEADLOCK FALSE
