CONSTANTS
  Strings <- MCStrings
  CodeOf <- MCCodeOf
SPECIFICATION Spec
INVARIANT NormalizeMatchesSpec
