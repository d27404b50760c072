SPECIFICATION Spec
CONSTANTS
    Chunk = 2
    Window = 3
    Tries = 2
    MaxLookups = 2
INVARIANTS
    TypeOK
    HonestResult
    LosesOnlyWhatCameLate
    ClosesConnection
PROPERTIES
    CommandEnds
