SPECIFICATION Spec
CONSTANTS
  MaxStreamId = 3
  MaxSequence = 9
  MaxCredit = 3
  MaxInboundStreams = 2
  MaxPendingIncoming = 1
  MaxRetired = 1
  MaxItemUnits = 1
  MaxReassembly = 1
  MaxAttributeWeight = 0
  Script <- SinkScript
  Weights = {0}
  Acceptances = {"handler"}
  Demands = {1}
  ItemSizes = {1}
  Encodable = {TRUE}
  Lossy = FALSE
  MaxAsked = 1
  MaxItems = 1
  MaxJobs = 3
INVARIANTS
  LateDataDropped
CHECK_DEADLOCK FALSE
