CONSTANTS
  Procs = {p1, p2}
  Plan <- const_Plan
  Checked = {"mod", "twin", "given"}
  Supplied = {"given"}
  Source <- const_Source
  Target <- const_Target
  Chunks = 2
  MaxRuns = 1
SPECIFICATION Spec
INVARIANT HolesAreBeingWritten
INVARIANT InstalledAsPinned
INVARIANT EmittedIsInstalled
PROPERTY PreparationEnds
CHECK_DEADLOCK FALSE
