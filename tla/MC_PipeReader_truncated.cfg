CONSTANTS
  Texts <- MCTexts
  Inputs <- MCInputs
  BufSize <- MCBufSize
  WriterMayDie = TRUE
  ReadMayFail = FALSE
SPECIFICATION Spec
INVARIANT NoFrameLeftOpen
