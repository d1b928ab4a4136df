SPECIFICATION ScanSpec
CONSTANTS
  NoUb = NoUb
  Txg = {1, 2}
  RingUnits = 2
  Images <- SmallImages
INVARIANTS
  ScanTypeOK
  ParseSelectsNewest
  MountSelectsNewest
