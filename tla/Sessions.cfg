SPECIFICATION Spec
SYMMETRY Symmetry
CONSTANTS
  Clients = {p1, p2}
  Convs = {c1, c2}
  NoOne = NoOne
  Nothing = Nothing
  Torn = Torn
  MaxHistory = 1
  MaxRev = 1
  CommitKinds = {"work", "done"}
  MaxFaults = 1
INVARIANTS OneWriter NothingLost HistoryBounded
PROPERTIES ArchivesWhatWasShown
