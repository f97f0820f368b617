CONSTANTS
  Funcs <- MCFuncsAll
SPECIFICATION Spec
INVARIANT AtMostOneEntryPerVreg
