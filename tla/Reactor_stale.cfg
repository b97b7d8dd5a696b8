\* Two clients that stay, with a worker each.
CONSTANTS
  Workers = {w1, w2}
  Conns = {c1, c2}
  Closers = {}
  BufferSize = 2
  MaxSends = 3
  MaxFd = 2
  MaxEvents = 2
  NoConn = NoConn
SPECIFICATION FairSpec
CHECK_DEADLOCK FALSE
PROPERTIES
  FirstRequestHandled
