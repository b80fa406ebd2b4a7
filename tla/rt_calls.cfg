CONSTANTS
    Width = 24
    FracBits = 14
    Blocks = {1, 2, 3}
    Slots = {"p", "q"}
    InitCap = 2
    MaxCalls = 3
    Sizes <- MCSizes
    Literals <- MCLiterals
    FirstTexts <- MCFirstTexts
    TextCalls <- MCTextCalls
    PrintCalls <- MCPrintCalls
    Worlds <- MCWorlds
    Files <- MCFiles
SPECIFICATION Spec
INVARIANTS NothingLost EveryTextFits DeliversRight FreesOnce FieldsRight KnownFailures
PROPERTY EveryQuestionEnds
CHECK_DEADLOCK FALSE
