SPECIFICATION FairSpec
CONSTANTS
  MaxOthers = 2
CHECK_DEADLOCK FALSE
INVARIANTS
  OkMeansDone
  PolicyKept
PROPERTIES
  ChangeEnds
