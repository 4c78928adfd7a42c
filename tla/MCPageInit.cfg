SPECIFICATION Spec
CONSTANTS
  PageSize = 2
  WordMax = 23
  Maps <- MCMaps
  Offsets = {0, 6}
  NullEntry = NullEntry
INVARIANTS
  OwnsExactlyTheUsablePages
  MetadataIsHoused
  RefusedOnlyForCause
