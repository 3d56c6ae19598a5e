SPECIFICATION Spec
CONSTANTS
  a = a
  b = b
  v1 = v1
  v2 = v2
  Nil = Nil
  Bad = Bad
  Items <- MCItems
  Vals <- MCVals
  Len <- MCLenAligned
  IdxNum = 3
  Cap = 16
  Align = 4
  NvBase = 128
  LockEnd = 256
  Writes <- WritesMixed
  Faults = FALSE
  MaxCrash = 1
INVARIANT ReadBack
