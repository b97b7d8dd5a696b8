\* A buffer of four bytes and a stream of seven: more than one buffer, and
\* enough for four recvs.  A line of 9 bytes fits, one of 10 has no room for its
\* NUL, one of 11 none for its LF.  The longest message with lines that fit just
\* fits the buffer.  The system stops when a call has returned nothing to parse,
\* and at an access beyond a buffer.
CONSTANTS
  Size = 4
  Total = 7
  BufSize = 36
  LineSize = 12
  Messages <- MCMessages
SPECIFICATION TaskSpec
CHECK_DEADLOCK FALSE
INVARIANTS
  ReadTypeOK
  EmptyUnlessFilledAtOnce
  TwoRecvsInOrder
  ClosesOnlyAtEnd
  TypeOK
  RequestLineUnderstood
  HeadersInOrder
  ValuesDecoded
  StaysInside
