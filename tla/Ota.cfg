SPECIFICATION Spec
CONSTANTS
  Blank = Blank
  Old = Old
  Mixed = Mixed
  Frame = 2
  HdrLen = 3
  FileLen = 7
  MaxRetries = 2
  SeqMod = 3
  SectorLen = 4
  Lock = {TRUE, FALSE}
  Prompt = FALSE
  NetCap = 2
  MaxLoss = 1
  MaxFail = 1
  MaxCrash = 1
CHECK_DEADLOCK FALSE
INVARIANTS AlwaysBootable NeverSilent StopMeansVerified
