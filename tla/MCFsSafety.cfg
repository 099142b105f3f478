SPECIFICATION SideBySide
CONSTANTS
  Procs = {p, q}
  Root = {q}
  Platforms = {"linux", "unix", "windows"}
  MaxFiles = 9
  MaxUpdates = 2
  MaxMishaps = 1
  None = None
  Token <- TheTokens
  Programs = {"installer", "daemon"}
  Service = "service"
  Account = "account"
  Depth = 4
  MaxDeeds = 1
  Nothing = Nothing
INVARIANTS
  AcknowledgedStays
  
  HeldStaysPrivate
  
PROPERTIES
  ReplacesWhatItOpened
  EveryCallEnds
