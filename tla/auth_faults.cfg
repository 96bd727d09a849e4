SPECIFICATION FairSpec
CONSTANTS
  Dids = {1, 2}
  Procs = {p}
  Faults = {"disk", "keyring", "reply", "denial"}
  MaxRunning = 1
  MaxGrants = 3
  MaxCalls = 2
  MaxFaults = 1
INVARIANTS TypeOK BrokenAreFaults SecretsAreDescribed
PROPERTIES SecretsSurvive ActivationIsExplicit ImplementsRegistry StepsAreBounded CommandsEnd
