SPECIFICATION Spec
CONSTANTS
  Sessions = {s1, s2, s3}
  None = None
  MaxUses = 4
  MaxCloses = 4
PROPERTIES EnvSpec WorkerStops
CHECK_DEADLOCK FALSE
