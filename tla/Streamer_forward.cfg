SPECIFICATION Spec
CONSTANTS
    Streamers = {s1, s2}
    None = None
    Sources = {"clip", "short"}
    Magnets = {}
    NumPieces <- MCNumPieces
    Files <- MCFiles
    Limit = 3
    Types <- MCTypes
    DroppedType = "alerts_dropped"
    Priority <- MCPriority
    Subjects <- MCSubjects
    PieceLength = 1
    BufferPercent = 100
    TailPieces = 3
    FileOutcomes = {"ok", "fatal"}
    DirOutcomes = {"ok"}
    SpaceOutcomes = {TRUE}
    ResumeOutcomes = {"good"}
    ExpiryOutcomes = {TRUE, FALSE}
    HeapOutcomes = {"unharmed", "fatal"}
    Deletes = {FALSE}
    Selecting = {FALSE}
    MaxStarts = 1
    MaxCancels = 1
    MaxForwards = 1
    MaxIgnored = 0
INVARIANTS TypeOK DeadlinesFollowRequired
CONSTRAINT OwnTorrents
SYMMETRY Symmetry
CHECK_DEADLOCK FALSE
