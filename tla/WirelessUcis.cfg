SPECIFICATION Spec
CONSTANTS
  Lengths = {1, 4, 9, 25, 40}
  MaxOutput = 3
  MaxLine = 2
  BufLen = 24
  TmpLen = 30
  StartLen = 2
  EndLen = 2
INVARIANTS
  TypeOK
  AnswerIsWhole
  NothingLeaks
  OutsideOnlyIfUnfit
CHECK_DEADLOCK FALSE
