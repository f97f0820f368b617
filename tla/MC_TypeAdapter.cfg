CONSTANTS
  Funcs <- MCFuncs
SPECIFICATION Spec
INVARIANT AdaptMatchesReference
