\* Two clients, of which one may close, two workers, a descriptor for each
\* client, and three messages from an only client, which is one more than a
\* buffer holds, or two when both are there. The system stops when the clients
\* have nothing more to do, or at a fatal error.
CONSTANTS
  Workers = {w1, w2}
  Conns = {c1, c2}
  Closers = {c1}
  BufferSize = 2
  MaxSends = 3
  MaxFd = 2
  MaxEvents = 2
  NoConn = NoConn
SPECIFICATION FairSpec
CHECK_DEADLOCK FALSE
INVARIANTS
  TypeOK
  MemoryAvailable
  OneConnectionPerBuffer
  FatalOnlyOnListener
PROPERTIES
  FirstReadIsHandled
  AloneIsRead
  NextInLineIsAccepted
