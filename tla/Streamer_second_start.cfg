SPECIFICATION FairSpec
CONSTANTS
    Streamers = {s1}
    None = None
    Sources = {"movie"}
    Magnets = {}
    NumPieces <- MCNumPieces
    Files <- MCFiles
    Limit = 5
    Types <- MCTypes
    DroppedType = "alerts_dropped"
    Priority <- MCPriority
    Subjects <- MCSubjects
    PieceLength = 1
    BufferPercent = 50
    TailPieces = 1
    FileOutcomes = {"ok"}
    DirOutcomes = {"ok"}
    SpaceOutcomes = {TRUE}
    ResumeOutcomes = {"good"}
    ExpiryOutcomes = {FALSE}
    HeapOutcomes = {"unharmed"}
    Deletes = {FALSE}
    Selecting = {FALSE}
    MaxStarts = 2
    MaxCancels = 1
    MaxForwards = 0
    MaxIgnored = 0
PROPERTIES StartIsAnswered
CHECK_DEADLOCK FALSE
