SPECIFICATION Spec
CONSTANTS
  Ids = {1, 2}
  Kind <- RefusedThenMismatch
  Producers = {p1, p2}
  BatchMax = 1
  MaxStreak = 2
  MaxVersion = 1
  MaxFaults = 2
  MaxCrashes = 1
  None = None
INVARIANTS
  NoLostWakeup
  BlockedOnlyWhenStale
  NoSilentLoss
  
  CallbackIsFinal
PROPERTIES
  WakeNeverBypasses
  QueueSpec
