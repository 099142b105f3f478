SPECIFICATION StatusSpec
CONSTANTS
  Readers = {r1, r2}
  Platforms = {"unix", "windows"}
  MaxPublish = 2
  MaxObserve = 1
  MaxMishaps = 1
  None = None
CHECK_DEADLOCK FALSE
INVARIANTS
  
  EndpointStays
PROPERTIES
  CallsEnd
