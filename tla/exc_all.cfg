SPECIFICATION FairSpec
CONSTANTS
  main = main
  g = g
  a = a
  b = b
  c = c
  Startup = main
  NULL = NULL
  Funs <- MCFuns
  Tries <- MCTries
  Encl <- MCEncl
  Chars = {1}
  TryExits = {"break", "return"}
  CatchExits = {"break", "return"}
  MaxSteps = 7
  MaxRuns = 2
INVARIANTS
  ChainMirrorsNesting
  NoDeadJump
PROPERTIES
  RethrowMovesOutward
  ImplementsHandlerSearch
  StopsOnlyWhenClaimed
  EverySearchEnds
