\* Two events, three levels of two slots, delays that reach every level, and
\* one revolution of the whole wheel and a quarter. SIGALRM comes at any time;
\* what comes after it has spoilt a list is left out, since no property here is
\* about that. The system stops at the last tick.
CONSTANTS
  Events = {e1, e2}
  NUM_SLOTS = 2
  NUM_LEVELS = 3
  Deltas = {0, 1, 3, 4}
  MaxTick = 10
  SpoiltTick = 0
  Null = Null
SPECIFICATION FairSpec
CHECK_DEADLOCK FALSE
INVARIANTS
  TypeOK
  ListsAgree
PROPERTIES
  IsTimer
  HandlerReturns
