SPECIFICATION FairCapture
CONSTANTS
  Maximum = 2
  Capacity = 2
  MaxWritten = 4
CHECK_DEADLOCK FALSE
INVARIANTS
  OutputIsComplete
PROPERTIES
  ChildEndsOnce
  CaptureEnds
