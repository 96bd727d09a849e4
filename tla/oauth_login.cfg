SPECIFICATION FairSpec
CONSTANTS
  Logins = {l, m}
  Accounts = {a, b}
  Ports = {x}
  MaxVisits = 2
INVARIANTS TypeOK CodesAreOwn SessionsAreOwn
PROPERTIES AnsweredLoginsEnd
CHECK_DEADLOCK FALSE
