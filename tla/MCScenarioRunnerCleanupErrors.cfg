CONSTANTS
  MaxSteps = 2
  Services = {}
  Clients = {c1}
  Scenarios <- BootOnly
  MaxSpawns = 2
  MaxFindings = 1
SPECIFICATION Spec
INVARIANT CleanupErrorsAttached
CHECK_DEADLOCK FALSE
