CONSTANTS
  Inputs <- MCInputsUnknownTag
  GarbageTags <- MCAnyTag
  LiteralTagOf <- MCLiteralTagOf
  CodeOf <- MCCodeOf
  OpcodeTable <- MCOpcodeTable
SPECIFICATION Spec
INVARIANT UnknownTagsSkipValue
