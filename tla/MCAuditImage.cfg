SPECIFICATION Spec
CONSTANTS
  Guid = {1, 2}
  Ashift = {9, 12}
  NoGuid = NoGuid
  NoMos = NoMos
  Images <- AllImages
INVARIANTS
  ChecksAreIndependent
  IntactIsSilent
