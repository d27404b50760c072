SPECIFICATION Spec
CONSTANTS
    MaxTests = 2
    MaxFaults = 2
    MaxLabels = 1
INVARIANTS
    TypeOK
    MgmtSpared
    NothingLeftBehind
PROPERTIES
    SetupIsDeclarative
