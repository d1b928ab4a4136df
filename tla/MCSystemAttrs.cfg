SPECIFICATION AttrSpec
CONSTANTS
  Scalars <- MCScalars
  Times <- MCTimes
  DXATTR = "DXATTR"
  XATTR = "XATTR"
  ZnodeAt <- MCZnodeAt
  ZnodeSize = 24
  Objects <- AllObjects
INVARIANTS
  AttrTypeOK
  MetadataIsWritten
  XattrsAreWritten
