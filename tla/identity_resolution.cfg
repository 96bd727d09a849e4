SPECIFICATION Spec
CONSTANTS
  h = h
  g = g
  d = d
  e = e
  s = s
  t = t
  i = i
  j = j
  None = None
  Handles = {h, g}
  Dids = {d, e}
  Servers = {s, t}
  Issuers = {i, j}
  Zones <- ABZones
  Documents <- ABDocuments
  Resources <- ABResources
  Worlds <- ABWorlds
  MaxChanges = 3
INVARIANTS TypeOK Agreed FindsWhatIsThere
