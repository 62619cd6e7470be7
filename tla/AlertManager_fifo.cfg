SPECIFICATION FairSpec
CONSTANTS
    Normal = Normal
    High = High
    Critical = Critical
    DroppedType = Dropped
    Types <- MCTypes
    Priority <- MCPriority
    Subjects <- MCSubjects
    InitialLimit = 1
    Limits = {}
    MaxPosts = 5
INVARIANTS TypeOK NoLostWakeup RoomForReport
PROPERTIES DropsAreReported ImplementsQueue QueuedIsDelivered
CHECK_DEADLOCK FALSE
