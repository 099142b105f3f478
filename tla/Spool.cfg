SPECIFICATION Spec
CONSTANTS
  t1 = t1
  t2 = t2
  t3 = t3
  p1 = p1
  p2 = p2
  Ids = {1, 2, 3}
  Size <- GrowingSizes
  Procs = {p1, p2}
  Threads = {t1, t2, t3}
  ProcOf <- TwoAndOne
  MaxEntries = 2
  MaxBytes = 4
  MaxRecord = 3
  MaxFaults = 1
  MaxCrashes = 2
  MaxRot = 1
  None = None
SYMMETRY Symmetry
INVARIANTS
  
  BytesAreSafe
PROPERTIES
  ImplementsQueue
