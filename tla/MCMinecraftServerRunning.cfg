CONSTANTS
  Tasks = {t1}
  MaxSpawns = 2
  MaxFindings = 0
SPECIFICATION Spec
PROPERTY RefusedOnlyWhileAlive
CHECK_DEADLOCK FALSE
