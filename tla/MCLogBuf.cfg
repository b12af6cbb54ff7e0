SPECIFICATION FairSpec
CONSTANTS
  a = a
  b = b
  LF = LF
  CR = CR
  Text = {a, b}
  Messages <- Printed
  BufSize = 2
  PipeSize = 4
  KeepLines = 2
  TailSizes = {1, 3}
  MaxPrinted = 8
INVARIANTS RingHoldsLast NothingLost
PROPERTIES AnswersAreLatest AllIsLogged
CHECK_DEADLOCK TRUE
