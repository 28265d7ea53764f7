CONSTANTS
  Procs = {p1}
  Plan <- const_NamesPlan
  Checked = {"left", "right"}
  Supplied = {}
  Source <- const_NamesSource
  Target <- const_NamesTarget
  Chunks = 2
  MaxRuns = 1
SPECIFICATION Spec
INVARIANT ChecksumsEnforced
CHECK_DEADLOCK FALSE
