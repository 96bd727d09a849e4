SPECIFICATION Spec
CONSTANTS
  Dids = {a}
  Dirs = {x}
  Procs = {p}
  Faults = {}
  Changes = {"remove"}
  MaxRunning = 1
  MaxPublications = 2
  MaxFaults = 0
  MaxChanges = 1
PROPERTIES AddConfigures
