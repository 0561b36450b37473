SPECIFICATION Spec
CONSTANTS
  Servers = {s1, s2}
  Nobody = Nobody
  MaxDowns = 2
INVARIANTS ConfirmedIsGone DoneOnCurrent DoneOwnsNothing
PROPERTIES OrphansEnd
CHECK_DEADLOCK FALSE
