CONSTANTS
  m = m
  w = w
  a = a
  b = b
  d = d
  c1 = c1
  c2 = c2
  c3 = c3
  None = None
  Other = Other
  Threads <- TwoThreads
  Main = m
  Calls <- ThreeCalls
  Conns <- TwoConns
  IdleTimeout = 2
  LinkTimeout = 5
  Latency = 1
  MaxCloses = 1
SPECIFICATION Spec
SYMMETRY Symmetry
INVARIANTS
  RepliesPaired
  MidCallSocketKept
  OpenSocketWatched
  LeasedInv
PROPERTIES
  AtMostOnce
  ForwardsUnderLock
