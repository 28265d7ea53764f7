CONSTANTS
  Providers = {"structures", "principals"}
  Modes = {"missing", "stale"}
  Unbuildable <- NoPrincipals
  Requests = {r1, r2}
  Ops <- SomeOps
  MaxTicks = 1
  MaxStarts = 2
SPECIFICATION Spec
INVARIANT OriginalsKept
INVARIANT PersistedIsBuildable
INVARIANT AcknowledgedHolds
PROPERTY HandlersReturn
CHECK_DEADLOCK FALSE
