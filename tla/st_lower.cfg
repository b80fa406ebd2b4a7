SPECIFICATION Spec
CONSTANTS
  Labels = {"L", "K"}
  MaxItems = 6
INVARIANTS
  BlocksTerminated
  LoweringFollows
  ErrorsAreReal
