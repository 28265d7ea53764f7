CONSTANTS
  MaxSteps = 2
  Services = {}
  Clients = {c1}
  Scenarios <- BootAndCycle
  MaxSpawns = 2
  MaxFindings = 1
SPECIFICATION Spec
INVARIANT NoServerAfterReport
CHECK_DEADLOCK FALSE
