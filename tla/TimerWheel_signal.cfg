\* Two events; SIGALRM comes at any time.
CONSTANTS
  Events = {e1, e2}
  NUM_SLOTS = 2
  NUM_LEVELS = 3
  Deltas = {1, 2, 3, 4}
  MaxTick = 10
  SpoiltTick = 10
  Null = Null
SPECIFICATION Spec
CHECK_DEADLOCK FALSE
INVARIANTS
  RunsOnce
