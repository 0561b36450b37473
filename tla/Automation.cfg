SPECIFICATION Spec
CONSTANTS
  Autos = {a1}
  Wakes = {w1, w2}
  MaxRev = 2
  MaxOcc = 2
  Interval = 1
  Grace = 0
  CatchUp = "NONE"
  MaxNow = 1
  HistoryCap = 4
  Overlap = {}
  MaxCrashes = 1
INVARIANTS HistoryInOrder HistoryTrue WorkspaceKept PurgedOwnsNothing
PROPERTIES ClaimSettlesOrStrands
CHECK_DEADLOCK FALSE
