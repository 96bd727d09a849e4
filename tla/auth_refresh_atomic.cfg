SPECIFICATION Spec
CONSTANTS
  Dids = {1}
  Procs = {p}
  Faults = {"disk"}
  MaxRunning = 1
  MaxGrants = 3
  MaxCalls = 2
  MaxFaults = 1
INVARIANTS StoredTokensLive
