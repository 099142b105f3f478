CONSTANTS
  t1 = t1
  t2 = t2
  o1 = o1
  o2 = o2
  NoOne = NoOne
  NoOutput = NoOutput
  Threads = {t1, t2}
  Outputs = {o1, o2}
  MaxHandles = 2
  MaxGeneration = 2
  MaxInserts = 4
  MaxDepth = 2
  MaxCalls = 3
  MaxExceptions = 3
  Nothing = Nothing
SYMMETRY Symmetry
SPECIFICATION SideBySide
INVARIANTS
  BoundaryIsTight
  
PROPERTIES
  RegistryIsSound
