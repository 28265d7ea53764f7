CONSTANTS
  MaxSteps = 3
  Services = {"db"}
  Clients = {c1}
  Scenarios <- AllScenarios
  MaxSpawns = 2
  MaxFindings = 1
SPECIFICATION Spec
INVARIANT TypeOK
INVARIANT StepDiscipline
INVARIANT FirstErrorIsFirst
INVARIANT OnlyTimedOutTasksLinger
INVARIANT NoTimeoutNoLeak
INVARIANT VerdictIsSound
PROPERTY ForgottenOnlyWhenRemoved
PROPERTY EveryRunEnds
CHECK_DEADLOCK FALSE
