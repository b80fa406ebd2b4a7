SPECIFICATION HccSpec
CONSTANTS
  MaxExe = 3
  MaxPrints = 2
  Codes = {0, 3, 256}
INVARIANTS
  ZeroMeansDelivered
  SpliceIsOwn
