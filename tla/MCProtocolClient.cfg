CONSTANTS
  Tasks = {t1, t2}
  ChorusUi = TRUE
  MaxSpawns = 2
  MaxRequests = 2
SPECIFICATION Spec
INVARIANT TypeOK
INVARIANT PendingRequestsWait
INVARIANT NoWaitOnExitedChild
PROPERTY AnsweredByOwnChild
PROPERTY NoProcessLeftToItself
SYMMETRY Interchangeable
CHECK_DEADLOCK FALSE
