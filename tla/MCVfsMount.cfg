SPECIFICATION Spec
CONSTANTS
  Names = {"a", "b", "c"}
  Objects <- MCObjects
  Sources <- AllSources
  RootId = 3
  Pieces = {1, 2, 3, 5}
  MaxPath = 3
INVARIANTS
  TypeOK
  MountFollowsChain
  ReadsReassemble
  PathsAgree
