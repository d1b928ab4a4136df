SPECIFICATION Spec
CONSTANTS
  MaxPairs = 4
  MaxDepth = 2
  MaxLen = 3
  VersionName <- Version
  PoolGuid <- Guid
  VdevTreeName <- Tree
  AshiftName <- Shift
  Streams <- AllStreams
INVARIANTS
  TypeOK
  RoundTrip
  CutKeepsPrefix
  DamageStaysInside
