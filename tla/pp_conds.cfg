SPECIFICATION Spec
CONSTANTS
  Macros = {"A"}
  JitMode = TRUE
  MaxItems = 6
  MaxDepth = 3
INVARIANTS
  ActiveIsSelected
  EndsBalanced
PROPERTIES
  SkippedIsInert
