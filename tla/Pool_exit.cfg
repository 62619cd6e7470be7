SPECIFICATION FairSpec
CONSTANTS
    AioThreads = {2, 3}
    Divisor = 2
    Releasing = {"generic"}
    MaxJobs = 1
    MaxReaps = 0
    MaxChanges = 0
PROPERTIES ThreadsEnd
CHECK_DEADLOCK FALSE
