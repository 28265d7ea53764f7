CONSTANTS
  Tasks = {t1}
  ChorusUi = FALSE
  MaxSpawns = 2
  MaxRequests = 2
SPECIFICATION Spec
PROPERTY ConnectionFollowsEvents
CHECK_DEADLOCK FALSE
