SPECIFICATION Spec
CONSTANTS
  NoInit = NoInit
  NarrowBits = 2
  MaxFunLen = 5
  MaxVarLen = 4
  MaxArgs = 3
  Families <- AllPrograms
INVARIANTS
  OneBodyEach
  NewestDefinitionRuns
  ForwardCallRunsFirst
  ArgumentsArrive
  ReadsNewestValue
