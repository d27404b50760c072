SPECIFICATION Spec
CONSTANTS
    Vms = {v1, v2}
    Scripts = 2
    MaxSessions = 2
    MaxTests = 2
    MaxRepos = 2
INVARIANTS
    MarkerIsTrue
    ExclusiveDir
    TeardownIsComplete
CHECK_DEADLOCK FALSE
