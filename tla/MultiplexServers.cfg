\* All three servers, three clients, descriptors for two of them, two messages
\* in all, and an array that poll fills up. The system stops when the
\* clients have nothing more to do, or at exit(1).
CONSTANTS
  Kinds = {"select", "poll", "epoll"}
  Conns = {c1, c2, c3}
  MaxSends = 2
  MaxFd = 2
  N = 4
  NoConn = NoConn
SPECIFICATION FairSpec
CHECK_DEADLOCK FALSE
INVARIANTS
  TypeOK
  WatchesItsClients
PROPERTIES
  WaitingAreAccepted
  HeldAreServed
