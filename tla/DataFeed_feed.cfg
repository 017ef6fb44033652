SPECIFICATION FairSpec
CONSTANTS
    Streams = {m5, m15}
    MinCount = 2
    MaxMem = 2
    MaxEvents = 2
    MaxEmpty = 1
    NormalCloses = TRUE
    BackfillFails = TRUE
INVARIANTS
    RunningHolesExplained
    StormBlocks
    OnePipelinePerCandle
PROPERTIES
    EventuallyRunning
CHECK_DEADLOCK FALSE
