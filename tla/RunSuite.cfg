SPECIFICATION JobSpec
CONSTANTS
    MaxJobs = 3
INVARIANTS
    GreenIsHonest
    CleanupIsComplete
CHECK_DEADLOCK FALSE
