SPECIFICATION Spec
CONSTANTS
  Kinds = {"net"}
  BatchSize = 1
  MaxRev = 1
  MaxCorrections = 1
  RunLimit = 3
  PermitUses = 1
INVARIANTS NoBatchLost
CHECK_DEADLOCK FALSE
