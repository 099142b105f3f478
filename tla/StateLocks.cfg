SPECIFICATION SideBySide
CONSTANTS
  c1 = c1
  c2 = c2
  Callers = {c1, c2}
  Child = child
  d1 = d1
  d2 = d2
  d3 = d3
  d4 = d4
  Descs = {d1, d2, d3, d4}
  MaxReplaced = 1
  MaxCrashes = 1
  None = None
  Programs = {"daemon", "operator"}
  Administrators = {"operator"}
  MaxDirectories = 2
  MaxFiles = 2
  MaxExchanges = 2
  MaxChanges = 1
  Missing = Missing
SYMMETRY Symmetry
INVARIANTS
  ExclusiveOwnership
  MaintenanceIsAlone
  StateStaysWhole
PROPERTIES
  LocksFollowTheirGuards
