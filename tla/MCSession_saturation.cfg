SPECIFICATION Spec
CONSTANTS
  MaxStreamId = 1
  MaxSequence = 9
  MaxCredit = 2
  MaxInboundStreams = 1
  MaxPendingIncoming = 1
  MaxRetired = 2
  MaxItemUnits = 1
  MaxReassembly = 1
  MaxAttributeWeight = 0
  Script <- FlowScript
  Weights = {0}
  Acceptances = {"handler"}
  Demands = {1, 2}
  ItemSizes = {1}
  Encodable = {TRUE}
  Lossy = FALSE
  MaxAsked = 5
  MaxItems = 3
  MaxJobs = 2
INVARIANTS
  DemandHonoured
CHECK_DEADLOCK FALSE
