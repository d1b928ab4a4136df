SPECIFICATION Spec
CONSTANTS
  a = a
  b = b
  Name = {a, b}
  MaxBudget = 2
  Image <- AllImages
INVARIANTS
  TypeOK
  LiveNeverReported
  OneFilePerName
  NewestReadableWins
  NothingMissed
  WalksWholeChain
PROPERTIES
  ImplementsDiff
