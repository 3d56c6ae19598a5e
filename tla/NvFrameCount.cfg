SPECIFICATION Spec
CONSTANTS
  Nil = Nil
  Pages = 2
  PageWords = 8
  Unit = 4
  MaxCount = 46
  MaxCrash = 2
CHECK_DEADLOCK FALSE
INVARIANTS SearchIsFirstErased NeverBack
PROPERTY Progress
