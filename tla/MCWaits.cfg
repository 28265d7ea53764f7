SPECIFICATION Spec
CONSTANTS
  Timeouts = {0, 1, 3, 7}
  Interval = 2
  Work = 2
  Lag = 1
  Overrun = 3
INVARIANT EndsInTime
PROPERTY GivesUpInVain
PROPERTY WaitsEnd
CHECK_DEADLOCK FALSE
