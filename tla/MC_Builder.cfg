CONSTANTS
  Inputs <- MCInputs
  GarbageTags <- MCGarbageTags
  LiteralTagOf <- MCLiteralTagOf
  CodeOf <- MCCodeOf
  OpcodeTable <- MCOpcodeTable
SPECIFICATION Spec
INVARIANT LiteralArraysMatchFrames
INVARIANT ModuleRecordIndexesLayouts
INVARIANT FunctionAnnotationsAsSpecified
INVARIANT DebugInfoAsSpecified
PROPERTY TablesKeepFirstDefinition
