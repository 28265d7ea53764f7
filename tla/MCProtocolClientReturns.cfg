CONSTANTS
  Tasks = {t1}
  ChorusUi = TRUE
  MaxSpawns = 2
  MaxRequests = 2
SPECIFICATION Spec
PROPERTY CallsReturn
CHECK_DEADLOCK FALSE
