SPECIFICATION Spec
CONSTANTS
  MaxOthers = 0
CHECK_DEADLOCK FALSE
INVARIANTS
  StopConfirmsRemoval
