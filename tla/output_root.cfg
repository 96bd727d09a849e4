SPECIFICATION Spec
CONSTANTS
  blog = blog
  a = a
  b = b
  Index = index
  Versions = {1, 2}
  Dated = {1, 2}
  Dids = {me, you}
  Files <- ABFiles
  Docs <- ABDocs
  Canonical <- ABCanonical
  Configs <- RootConfigs
  Sites <- ABSites
  Elsewhere <- Drafts
  Routings <- RootRouting
  Faults = {}
  MaxRecords = 2
  MaxFaults = 1
  MaxChanges = 1
INVARIANTS RootCoversAll
