\* One event.
CONSTANTS
  Events = {e1}
  NUM_SLOTS = 2
  NUM_LEVELS = 3
  Deltas = {1, 2, 3, 4}
  MaxTick = 10
  SpoiltTick = 0
  Null = Null
SPECIFICATION Spec
CHECK_DEADLOCK FALSE
PROPERTIES
  RunsAtItsTime
