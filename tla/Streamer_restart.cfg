SPECIFICATION Spec
CONSTANTS
    Streamers = {s1}
    None = None
    Sources = {"link", "clip"}
    Magnets = {"link"}
    NumPieces <- MCNumPieces
    Files <- MCFiles
    Limit = 2
    Types <- MCTypes
    DroppedType = "alerts_dropped"
    Priority <- MCPriority
    Subjects <- MCSubjects
    PieceLength = 1
    BufferPercent = 50
    TailPieces = 0
    FileOutcomes = {"ok", "missing"}
    DirOutcomes = {"ok", "nodir"}
    SpaceOutcomes = {TRUE}
    ResumeOutcomes = {"good", "garbage"}
    ExpiryOutcomes = {TRUE, FALSE}
    HeapOutcomes = {"unharmed"}
    Deletes = {TRUE, FALSE}
    Selecting = {FALSE}
    MaxStarts = 2
    MaxCancels = 1
    MaxForwards = 0
    MaxIgnored = 0
INVARIANTS DeadlinesAreMissing DeleteIsFinal
PROPERTIES ReadyMeansComplete CancelStopsDownload
CHECK_DEADLOCK FALSE
