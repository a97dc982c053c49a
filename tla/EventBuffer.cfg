SPECIFICATION Spec
CONSTANTS
  MaxBuffers = 2
  ArenaLen = 3
  MaxGeneration = 2
  Byte = {a, b}
  Unwritten = a
  NoBlock = NoBlock
  Item <- MCItem
  Unset = Unset
  Capacity = 2
  Envelope = {m}
  MaxDirect = 1
INVARIANTS BlocksInArena OwnersHoldBlocks
PROPERTIES ImplementsBlocks
