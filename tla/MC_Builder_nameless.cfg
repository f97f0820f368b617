CONSTANTS
  Inputs <- MCInputsNameless
  GarbageTags <- MCGarbageTags
  LiteralTagOf <- MCLiteralTagOf
  CodeOf <- MCCodeOf
  OpcodeTable <- MCOpcodeTable
SPECIFICATION Spec
INVARIANT FunctionAnnotationsAsSpecified
