SPECIFICATION Spec
SYMMETRY Symmetry
CONSTANTS
  Procs = {p1, p2, p3}
  NoProc = NoProc
  Source = Source
  Workspaces = {w1, w2}
  Diffs = {d}
  None = None
  Points = {c}
  MaxFaults = 2
  MaxCrashes = 1
INVARIANTS CleanedIsGone CaptureFirst UnlistedIsCut
CHECK_DEADLOCK FALSE
