SPECIFICATION Spec
CONSTANTS
  a = a
  Docs = {a, b}
  Procs = {p, q}
  Versions = {1, 2}
  Dated = {1, 2}
  Sites <- BothPages
  Configs <- RoutedAll
  Faults = {"crash", "network", "overlap"}
  MaxRunning = 2
  MaxRecords = 4
  MaxPosts = 3
  MaxFaults = 3
  MaxEdits = 0
SYMMETRY Symmetry
INVARIANTS OwnRecords DuplicatesAreFaults
