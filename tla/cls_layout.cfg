SPECIFICATION Spec
CONSTANTS
  A = A
  B = B
  NoName = NoName
  Names = {A, B}
  PadNames = {"pad"}
  MaxDecls = 3
  MemberLists <- Bodies
  Inits <- AllInits
  Radix = 4
  WordSize = 4
  HalfWord = 2
  StrAddr = 7
  Unset = Unset
  MaxInitDecls = 2
INVARIANTS
  ChainsEnd
  MembersApart
  InitialisersAgree
PROPERTY
  PinnedLayoutFixed
