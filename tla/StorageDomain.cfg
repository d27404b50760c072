SPECIFICATION StorageSpec
CONSTANTS
    MaxTries = 3
    MaxFaults = 2
    MaxStorageSessions = 3
INVARIANTS
    NoActiveLeak
    FixtureGivesActive
