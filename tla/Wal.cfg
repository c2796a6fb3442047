SPECIFICATION Spec
CONSTANTS
  FileLimit = 4
  TotalLimit = 12
  CutsAt = {1, 2, 3}
  MaxRecords = 6
  MaxStops = 2
INVARIANTS
  TypeOK
  Durable
  FilesInRow
