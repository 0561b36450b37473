SPECIFICATION Spec
SYMMETRY Symmetry
CONSTANTS
  o1 = o1
  o2 = o2
  o3 = o3
  Owners <- ThreeOwners
  PidOf <- Pids
  First <- FirstOwners
  Sessions = {s1, s2}
  NoOne = NoOne
  Torn = Torn
  MaxObs = 2
  MaxActs = 2
  MaxFaults = 1
INVARIANTS LockIsHis WriteAhead ResultTrue ClosedIsClean
PROPERTIES ActsUnderLease
CHECK_DEADLOCK FALSE
