SPECIFICATION LexSpec
CONSTANTS
  Tokens <- MCTokens
  Names = {"A", "B", "C"}
  Plain = {"x"}
  MaxInput = 2
  Tables <- AcyclicTables
  Inputs <- MCInputs
INVARIANTS
  ExpansionCorrect
PROPERTIES
  EveryReadEnds
