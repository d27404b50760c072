SPECIFICATION Spec
CONSTANTS
    Home = home
    Target = target
    MaxTries = 3
    MaxFaults = 2
INVARIANTS
    BusyIsNeverFatal
    BodyInTarget
    Restored
PROPERTIES
    StableIfSpmWasSeen
