SPECIFICATION CodecSpec
CONSTANTS
  SumWidth = 10
  Blocks <- AllBlocks
INVARIANTS
  CodecTypeOK
  DataComesBack
  DamageIsSeen
