SPECIFICATION Spec
CONSTANTS
  Width = 8
  Literals <- MCLiterals
  Macro = "M"
  Body <- MCBody
  UnaryToks = {"-", "!", "~", "*"}
  BinaryToks = {"||", "^^", "&&", "==", "<", ">", "+", "-", "|", "^", "&", "*", "/", "%", "pow", "<<", ">>"}
  CastToks = {"(U64)", "(I32)", "(U32)"}
  MaxToks = 5
INVARIANTS
  PrecedenceTable
  FoldsAgree
  CondAgrees
CHECK_DEADLOCK FALSE
