SPECIFICATION Spec
CONSTANTS
  Configurations <- MCConfigurations
INVARIANTS
  TypeOK
  ReadyPeersAgree
  DisposersAccounted
PROPERTIES
  SilentOnceEnded
  AttachSettles
  PeersEndTogether
  ConnectionReleased
CHECK_DEADLOCK FALSE
