SPECIFICATION Spec
CONSTANTS
  x = 1
  y = 2
  Nul = 0
  Byte = {0, 1, 2}
  End = 9
  ArrayBytes = 2
  MaxBlock = 4
  Objects <- AllObjects
INVARIANTS
  TypeOK
  ListsEveryEntry
  ChainIsCapped
