SPECIFICATION FairSpec
CONSTANTS
  Dids = {a, b}
  Dirs = {x, y}
  Procs = {p}
  Faults = {"crash", "disk", "reply"}
  Changes = {"init", "remove", "move", "clean"}
  MaxRunning = 1
  MaxPublications = 3
  MaxFaults = 1
  MaxChanges = 3
INVARIANTS TypeOK Attached PublicationsAreOwn
PROPERTIES StateIsAuthority Heals
