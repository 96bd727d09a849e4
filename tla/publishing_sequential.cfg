SPECIFICATION FairSpec
CONSTANTS
  a = a
  b = b
  Docs = {a, b}
  Procs = {p}
  Versions = {1, 2, 3}
  Dated = {1, 2}
  Sites <- Beside
  Configs <- AllConfigs
  Faults = {"crash", "disk", "reply"}
  MaxRunning = 1
  MaxRecords = 3
  MaxPosts = 1
  MaxFaults = 1
  MaxEdits = 2
INVARIANTS TypeOK CopyIsFresh PublishedIsCurrent CleanPublishIsComplete DuplicatesAreFaults
PROPERTIES UrisAreKept Converges ImplementsLedger
