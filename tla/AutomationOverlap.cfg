SPECIFICATION Spec
CONSTANTS
  Autos = {a1, a2}
  Wakes = {w1, w2}
  MaxRev = 1
  MaxOcc = 1
  Interval = 1
  Grace = 0
  CatchUp = "NONE"
  MaxNow = 0
  HistoryCap = 2
  Overlap = {"claim"}
  MaxCrashes = 1
INVARIANTS OneClaim TurnOnce
PROPERTIES PurgeEnds
CHECK_DEADLOCK FALSE
