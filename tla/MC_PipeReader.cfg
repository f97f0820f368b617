CONSTANTS
  Texts <- MCTexts
  Inputs <- MCInputs
  BufSize <- MCBufSize
  WriterMayDie = FALSE
  ReadMayFail = FALSE
SPECIFICATION Spec
PROPERTY ChunkingInvariant
