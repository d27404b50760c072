CONSTANTS
  Hosts = {h0, h1}
  Host0 = h0
  MaxPolls = 3
  MaxFaults = 2
SPECIFICATION Spec
INVARIANTS MaintenanceCoversRestart PassMeansDone
PROPERTY HeSessionEnds
