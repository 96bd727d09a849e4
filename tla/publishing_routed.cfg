SPECIFICATION Spec
CONSTANTS
  a = a
  Docs = {a}
  Procs = {p}
  Versions = {1}
  Dated = {1}
  Sites <- PageOrNot
  Configs <- AllOrNothing
  Faults = {}
  MaxRunning = 1
  MaxRecords = 2
  MaxPosts = 1
  MaxFaults = 0
  MaxEdits = 2
PROPERTIES OnlyRoutedPublished
