SPECIFICATION SpecAny
CONSTANTS
    Normal = Normal
    High = High
    Critical = Critical
    DroppedType = Dropped
    Types <- MCTypes
    Priority <- MCPriority
    Subjects <- MCSubjects
    InitialLimit = 1
    Limits = {0, 2}
    MaxPosts = 4
INVARIANTS BatchIntact ReadyMeansQueued
CHECK_DEADLOCK FALSE
