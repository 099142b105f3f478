SPECIFICATION LogsSpec
CONSTANTS
  Archives = 3
  FileBytes = 4
  MaxRecords = 8
  MaxFaults = 2
  MaxCrashes = 1
  None = None
  TailLines = 2
  SuffixBytes = 3
  Wanted = {1, 2, 5, 6, 8}
  LastLines = 2
  Reach = 2
  MaxUnits = 6
  MaxTurns = 2
  NoCursor = NoCursor
PROPERTIES
  LinesAreKept
  AppendsWhereItStands
  
