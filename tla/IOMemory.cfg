\* Four workers and so four slots: two can hold slots while a third takes one
\* in front of the walk of the fourth.
CONSTANTS
  Workers = {w1, w2, w3, w4}
SPECIFICATION Spec
INVARIANTS
  TypeOK
  NeverNull
  ExactlyTheHolders
  NoForeignData
PROPERTIES
  IsBufferPool
