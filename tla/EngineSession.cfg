SPECIFICATION Spec
CONSTANTS
    MaxFaults = 2
INVARIANTS
    TypeOK
    LeftOnlyByOwnFailure
    NotFoundIsSuccess
PROPERTIES
    ExitRestores
