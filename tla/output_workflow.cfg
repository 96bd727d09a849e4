SPECIFICATION FairSpec
CONSTANTS
  blog = blog
  a = a
  b = b
  Index = index
  Versions = {1, 2}
  Dated = {1, 2}
  Dids = {me, you}
  Files <- ABFiles
  Docs <- ABDocs
  Canonical <- ABCanonical
  Configs <- ABConfigs
  Sites <- ABSites
  Elsewhere <- Drafts
  Routings <- ABRoutings
  Faults = {"crash", "disk"}
  MaxRecords = 2
  MaxFaults = 1
  MaxChanges = 1
INVARIANTS TypeOK DeepestPathRules LinksAreOwn InjectSettles WorkflowVerifies VerifiedIsLinked
PROPERTIES Deploys
