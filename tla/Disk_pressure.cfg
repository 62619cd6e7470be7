SPECIFICATION Spec
CONSTANTS
    Peers = {p1, p2}
    MaxUse = 4
    Changes <- MCChanges
    Slack = 3
    Threads = {t1, t2}
    UseReadCache = FALSE
    AllocOutcomes = {TRUE}
    ReadSizes = {2}
    MaxPieces = 3
    MaxExtras = 1
INVARIANTS BuffersAgree WritesAccounted WaitersAreKnown OneChecker NobodyLeftWaiting
CONSTRAINT OneEvent
SYMMETRY Symmetry
CHECK_DEADLOCK FALSE
