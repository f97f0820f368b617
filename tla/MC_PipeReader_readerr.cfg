CONSTANTS
  Texts <- MCTexts
  Inputs <- MCInputs
  BufSize <- MCBufSize
  WriterMayDie = FALSE
  ReadMayFail = TRUE
SPECIFICATION FairSpec
INVARIANT SuccessMeansComplete
PROPERTY Delivered
