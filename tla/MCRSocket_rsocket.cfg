SPECIFICATION Spec
CONSTANTS
  Configurations <- MCConfigurations
INVARIANTS
  TypeOK
  NoViolation
  CreditConserved
  AssembliesExact
  QuietPeersAgree
PROPERTIES
  FlowKept
  EverythingEnds
CHECK_DEADLOCK FALSE
