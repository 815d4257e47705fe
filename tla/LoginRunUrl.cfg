CONSTANTS
  Logins = {l1}
  Logouts = {}
  Uses = {v1}
  Urls = {u1, u2}
  MaxSlow = 1
  MaxCrashes = 0
  None = None
SPECIFICATION Spec
INVARIANTS
  RunKeyForServer
CHECK_DEADLOCK FALSE
