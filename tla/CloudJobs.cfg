CONSTANTS
  Calls = {k1}
  Builds = {b1}
  Earlier <- MCEarlier
  Boards = {f1}
  Polls = 2
  None = None
SPECIFICATION Spec
INVARIANTS
  TypeOK
  ListingAccounts
  LinesHonest
PROPERTIES
  HttpAtMostOnce
  CommandsEnd
CHECK_DEADLOCK FALSE
CONSTANTS
  r1 = r1
  r2 = r2
