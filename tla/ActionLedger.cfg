SPECIFICATION Spec
CONSTANTS
  Clients = {c1, c2}
  Digests = {message, pause}
  Direct = {pause}
  ReplayLimit = 2
  MaxSeq = 3
  NoClient = NoClient
INVARIANTS AcceptedOnce RepliesTruthful TurnOwnsDisk
CHECK_DEADLOCK FALSE
