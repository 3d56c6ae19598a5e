SPECIFICATION Spec
CONSTANTS
  Size = 6
  PageSize = 2
  SectorSize = 6
  CheckLen = 3
  MaxLen = 4
  Splits = TRUE
  MaxFaults = 1
INVARIANTS LockBelieved WriteExact
PROPERTY CheckedIsWritten
