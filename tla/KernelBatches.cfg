SPECIFICATION Spec
CONSTANTS
  Kinds = {"net", "write", "proc"}
  BatchSize = 2
  MaxRev = 2
  MaxCorrections = 1
  RunLimit = 2
  PermitUses = 1
INVARIANTS AtMostOnce EffectAccounted
PROPERTIES BatchProtocol
CHECK_DEADLOCK FALSE
