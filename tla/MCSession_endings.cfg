SPECIFICATION FairSpec
CONSTANTS
  MaxStreamId = 1
  MaxSequence = 12
  MaxCredit = 3
  MaxInboundStreams = 1
  MaxPendingIncoming = 1
  MaxRetired = 2
  MaxItemUnits = 1
  MaxReassembly = 1
  MaxAttributeWeight = 0
  Script <- EndingScript
  Weights = {0}
  Acceptances = {"handler", "throws"}
  Demands = {1}
  ItemSizes = {1}
  Encodable = {TRUE, FALSE}
  Lossy = TRUE
  MaxAsked = 1
  MaxItems = 1
  MaxJobs = 2
PROPERTIES
  EndingsReachPeer
  ReaderReturns
  CompletedIsReleased
  SessionsEndTogether
  CloseSettles
CHECK_DEADLOCK FALSE
