SPECIFICATION Spec
CONSTANTS
  FileLimit = 4
  TotalLimit = 12
  CutsAt = {1, 2, 3}
  MaxRecords = 3
  MaxStops = 1
INVARIANTS
  RepairKeepsValidPrefix
