SPECIFICATION Spec
CONSTANTS
  Dids = {1, 2}
  Procs = {p, q}
  Faults = {"crash", "disk", "overlap"}
  MaxRunning = 2
  MaxGrants = 3
  MaxCalls = 1
  MaxFaults = 1
SYMMETRY Symmetry
INVARIANTS BrokenAreFaults ActiveIsKnown GrantsAreOwn
