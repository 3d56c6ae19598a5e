SPECIFICATION KRSpec
CONSTANTS
  Used = {1, 2}
  MaxCrash = 1
  KeySet = {1, 2}
  Hold = 2
  ReleaseCnt = 6
INVARIANTS NeverHalfReset ReleaseSeen
PROPERTIES FrameCountKept FactoryResetErases ResetFinishes ResetOnlyHeld
