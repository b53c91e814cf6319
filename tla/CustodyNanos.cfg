CONSTANTS
  Writers = {w1}
  NoWriter = NoWriter
  Cases = {c1}
  NoCase = NoCase
  Ids <- MCIds
  Tick = 2
  MaxTime = 1
  MaxEvents = 1
SPECIFICATION Spec
INVARIANT ChainVerifies
CHECK_DEADLOCK FALSE
