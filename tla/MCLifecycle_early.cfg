SPECIFICATION Spec
CONSTANTS
  Configurations <- DefaultConfigurations
INVARIANTS
  RefusedOnlyIfIncompatible
CHECK_DEADLOCK FALSE
