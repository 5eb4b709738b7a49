SPECIFICATION Spec
CONSTANTS
  MaxStreamId = 3
  MaxSequence = 4
  MaxCredit = 3
  MaxInboundStreams = 1
  MaxPendingIncoming = 1
  MaxRetired = 1
  MaxItemUnits = 1
  MaxReassembly = 1
  MaxAttributeWeight = 1
  Script <- TableScript
  Weights = {0, 1}
  Acceptances = {"none", "throws"}
  Demands = {1}
  ItemSizes = {1}
  Encodable = {TRUE, FALSE}
  Lossy = FALSE
  MaxAsked = 3
  MaxItems = 2
  MaxJobs = 1
INVARIANTS
  CountsExact
  BudgetsExact
  TableIsOpen
  SequenceUnbroken
  FrontiersAgree
PROPERTIES
  NoReuse
CHECK_DEADLOCK FALSE
