SPECIFICATION Spec
CONSTANTS
  Letter = {"probe", "x", "/", "*"}
  MaxLen = 4
  MaxValue = 4
INVARIANTS   ScopeAgreesWithMint
CHECK_DEADLOCK FALSE
