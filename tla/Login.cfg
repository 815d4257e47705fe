CONSTANTS
  Logins = {l1, l2}
  Logouts = {o1}
  Uses = {v1}
  Urls = {u1, u2}
  MaxSlow = 1
  MaxCrashes = 1
  None = None
SPECIFICATION Spec
INVARIANTS
  KeyForServer
  StoreFaithful
  LiveKeysAccounted
PROPERTIES
  CommandsFinish
CHECK_DEADLOCK FALSE
