SPECIFICATION BlockSpec
CONSTANTS
  z = z
  g = g
  x = x
  Content = {z, g, x}
  Zeroes = z
  NoDva = NoDva
  Wrap = 5
  Skew = 1
  Cases <- AllCases
INVARIANTS
  BlockTypeOK
  ReadsFirstUsable
  AuditorMeetsReader
  TruncationIsNotTamper
