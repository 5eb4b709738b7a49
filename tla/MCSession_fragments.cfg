SPECIFICATION Spec
CONSTANTS
  MaxStreamId = 3
  MaxSequence = 11
  MaxCredit = 3
  MaxInboundStreams = 2
  MaxPendingIncoming = 1
  MaxRetired = 2
  MaxItemUnits = 3
  MaxReassembly = 4
  MaxAttributeWeight = 0
  Script <- FragmentScript
  Weights = {0}
  Acceptances = {"handler"}
  Demands = {1}
  ItemSizes = {3}
  Encodable = {TRUE}
  Lossy = FALSE
  MaxAsked = 1
  MaxItems = 1
  MaxJobs = 3
INVARIANTS
  NoViolation
  BudgetsExact
  ItemsIntact
CHECK_DEADLOCK FALSE
