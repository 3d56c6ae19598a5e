SPECIFICATION FairSpec
CONSTANTS
  Blank = Blank
  Old = Old
  Mixed = Mixed
  Frame = 2
  HdrLen = 3
  FileLen = 7
  MaxRetries = 2
  SeqMod = 4
  SectorLen = 4
  Lock = {TRUE, FALSE}
  Prompt = TRUE
  NetCap = 2
  MaxLoss = 1
  MaxFail = 0
  MaxCrash = 1
PROPERTY Completes
