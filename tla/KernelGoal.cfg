SPECIFICATION Spec
CONSTANTS
  Kinds = {"read", "net", "write", "proc"}
  BatchSize = 1
  MaxRev = 3
  MaxCorrections = 2
  RunLimit = 2
  PermitUses = 2
INVARIANTS InvokeAuthorized
PROPERTIES VerifiedIsProved TurnEnds
CHECK_DEADLOCK FALSE
