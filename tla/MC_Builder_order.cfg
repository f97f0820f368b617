CONSTANTS
  Inputs <- MCInputsAnyOrder
  GarbageTags <- MCGarbageTags
  LiteralTagOf <- MCLiteralTagOf
  CodeOf <- MCCodeOf
  OpcodeTable <- MCOpcodeTable
SPECIFICATION Spec
INVARIANT ModuleRecordIndexesLayouts
