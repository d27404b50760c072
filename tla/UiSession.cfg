CONSTANTS
  GridRetries = 3
  GridPolls = 2
  MaxFaults = 1
  Browsers <- BrowsersDef
  Plans <- PlansDef
  MaxPolls = 2
  MaxTries = 2
SPECIFICATION Spec
INVARIANTS TypeOK AssertsOnSettledPage NoSilentPass LeavesNothing
PROPERTY SessionEnds
