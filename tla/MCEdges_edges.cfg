SPECIFICATION EdgesSpec
CONSTANTS
  Frames = 3
  Sizes = {1, 2}
  Prefix = 2
  MaxFrames = 1
  MaxBytes = 2
  MaxEarly = 1
  MaxBuffered = 1
  MaxPending = 1
  Calls <- MCCalls
  Tables <- MCTables
INVARIANTS
  RpcKept
  DatagramsKept
PROPERTIES
  LaneKept
  LaneSettles
  RpcEnds
CHECK_DEADLOCK FALSE
