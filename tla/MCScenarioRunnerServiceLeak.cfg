CONSTANTS
  MaxSteps = 2
  Services = {"db"}
  Clients = {c1}
  Scenarios <- ServiceOnly
  MaxSpawns = 2
  MaxFindings = 1
SPECIFICATION Spec
INVARIANT NoContainerForgotten
CHECK_DEADLOCK FALSE
