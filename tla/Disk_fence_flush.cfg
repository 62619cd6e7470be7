SPECIFICATION FairSpec
CONSTANTS
    Jobs <- MCJobs
    Reads = {}
    Writes = {w1}
    Hashes = {}
    Fences = {f1, f2}
    Threads = {t1, t2}
    None = None
    CacheOutcomes = {TRUE}
    ReadOutcomes = {"miss"}
    MaxRetries = 0
    MaxIssued = 3
PROPERTIES FenceRuns
CHECK_DEADLOCK FALSE
