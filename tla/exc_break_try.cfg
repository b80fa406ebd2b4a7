SPECIFICATION Spec
CONSTANTS
  main = main
  g = g
  a = a
  b = b
  c = c
  Startup = main
  NULL = NULL
  Funs <- MCFuns
  Tries <- MCTries
  Encl <- MCEncl
  Chars = {1}
  TryExits = {"break"}
  CatchExits = {}
  MaxSteps = 5
  MaxRuns = 1
PROPERTIES
  EveryRethrowMovesOutward
