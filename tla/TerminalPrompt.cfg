SPECIFICATION FairSpec
CONSTANTS
  Threads = {t1, t2}
  MaxBytes = 4
  ChunkUnits = 2
  MaxPrompts = 2
  None = None
CHECK_DEADLOCK FALSE
INVARIANTS
  TerminalRestored
  LineAsTyped
PROPERTIES
  EveryPromptEnds
