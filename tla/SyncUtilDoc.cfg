SPECIFICATION SyncSpec
CONSTANTS
    Results = {r1, r2}
    Errors = {e1, e2}
    MaxTimeout = 7
    MaxDelay = 1
PROPERTIES
    KeepsDocstring
