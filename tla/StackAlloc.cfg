\* One stack and two pools that are used directly.  A block has its pointer,
\* a byte of padding, and just the three slots that fit.
\* The heap may run out, as memory may: no step is left then but to give back.
CONSTANTS
  Pools = {s1, p1, p2}
  Stacks = {s1}
  Blocks = {b1, b2}
  BlockSize = 8
  SlotSize = 2
  SlotAlign = 2
  PointerSize = 1
  Values = {v1, v2}
  MaxDepth = 3
  Opaque = opaque
  Null = null
  Elements <- MCElements
SYMMETRY Symmetric
SPECIFICATION Spec
INVARIANTS
  TypeOK
  ElementsInsideBlocks
  EachSlotOnce
  BlocksOwnedOnce
  StackHoldsPushed
PROPERTIES
  NewBlockOnlyWhenFull
