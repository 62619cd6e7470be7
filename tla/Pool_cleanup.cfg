SPECIFICATION FairSpec
CONSTANTS
    AioThreads = {2, 3}
    Divisor = 2
    Releasing = {"generic", "hash"}
    MaxJobs = 3
    MaxReaps = 2
    MaxChanges = 1
INVARIANTS CleanupIsLast
CHECK_DEADLOCK FALSE
