SPECIFICATION Spec
CONSTANTS
  MaxStreamId = 1
  MaxSequence = 9
  MaxCredit = 3
  MaxInboundStreams = 1
  MaxPendingIncoming = 1
  MaxRetired = 2
  MaxItemUnits = 2
  MaxReassembly = 2
  MaxAttributeWeight = 0
  Script <- StreamScript
  Weights = {0}
  Acceptances = {"handler"}
  Demands = {1, 2}
  ItemSizes = {1, 2, 3}
  Encodable = {TRUE}
  Lossy = FALSE
  MaxAsked = 2
  MaxItems = 2
  MaxJobs = 2
INVARIANTS
  NoViolation
  CreditConserved
  CompleteMeansAll
  QuietPeersAgree
PROPERTIES
  FlowKept
CHECK_DEADLOCK FALSE
