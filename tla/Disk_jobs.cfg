SPECIFICATION Spec
CONSTANTS
    Jobs <- MCJobs
    Reads = {r1, r2}
    Writes = {w1, w2}
    Hashes = {h1}
    Fences = {f1, f2}
    Threads = {t1, t2}
    None = None
    CacheOutcomes = {TRUE, FALSE}
    ReadOutcomes = {"hit", "miss", "direct"}
    MaxRetries = 1
    MaxIssued = 3
INVARIANTS FenceTypeOK CountersAgree FenceIsExclusive FenceIsHeld HeadIsFence JobsAccounted QuietMeansAnswered
PROPERTIES ImplementsBarrier
SYMMETRY Symmetry
CHECK_DEADLOCK FALSE
