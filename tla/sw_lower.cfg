SPECIFICATION Spec
CONSTANTS
  MaxI = 7
  MaxRange = 3
  Null = 99
  Bodies <- MCBodies
INVARIANTS
  LoweringCorrect
  BlocksTerminated
