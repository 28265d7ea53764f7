CONSTANTS
  Tasks = {t1, t2}
  MaxSpawns = 3
  MaxFindings = 1
SPECIFICATION Spec
INVARIANT TypeOK
INVARIANT AtMostOneAlive
INVARIANT WaitersOnCurrent
PROPERTY KillsOwnChild
PROPERTY StopOkMeansDown
PROPERTY CallsReturn
CHECK_DEADLOCK FALSE
