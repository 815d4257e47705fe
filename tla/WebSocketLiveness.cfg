CONSTANTS
  m = m
  w = w
  a = a
  b = b
  d = d
  c1 = c1
  c2 = c2
  c3 = c3
  None = None
  Other = Other
  Threads <- TwoThreads
  Main = m
  Calls <- TwoCalls
  Conns <- TwoConns
  IdleTimeout = 1
  LinkTimeout = 2
  Latency = 0
  MaxCloses = 1
SPECIFICATION FairSpec
PROPERTIES
  CallsReturn
  CloseReturns
  SocketsClose
