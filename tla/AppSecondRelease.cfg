CONSTANTS
  A = A
  B = B
  m = m
  w = w
  j1 = j1
  j2 = j2
  j3 = j3
  b1 = b1
  b2 = b2
  x1 = x1
  x2 = x2
  x3 = x3
  None = None
  Apps <- TwoApps
  Threads <- TwoThreads
  Given <- NoneGiven
  AppOf <- Apart
  Mains <- NoMains
  Jobs <- TwoJobs
  Boards <- OneBoard
  Transports <- TwoTransports
  MaxEnters = 1
  Early = TRUE
  Lossy = FALSE
SPECIFICATION Spec
SYMMETRY Symmetry
CHECK_DEADLOCK FALSE
PROPERTY ReleasesOwnSession
