SPECIFICATION FairSpec
CONSTANTS
    Streamers = {s1}
    None = None
    Sources = {"long", "magnet", "album"}
    Magnets = {"magnet"}
    NumPieces <- MCNumPieces
    Files <- MCFiles
    Limit = 2
    Types <- MCTypes
    DroppedType = "alerts_dropped"
    Priority <- MCPriority
    Subjects <- MCSubjects
    PieceLength = 1
    BufferPercent = 30
    TailPieces = 1
    FileOutcomes = {"ok", "missing", "corrupt"}
    DirOutcomes = {"ok", "nobase", "nodir"}
    SpaceOutcomes = {TRUE, FALSE}
    ResumeOutcomes = {"good"}
    ExpiryOutcomes = {FALSE}
    HeapOutcomes = {"unharmed"}
    Deletes = {FALSE}
    Selecting = {TRUE, FALSE}
    MaxStarts = 1
    MaxCancels = 1
    MaxForwards = 0
    MaxIgnored = 1
INVARIANTS ReadyOnce DeadlinesFollowRequired
PROPERTIES AnsweredUnlessLost
CHECK_DEADLOCK FALSE
