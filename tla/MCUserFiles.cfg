SPECIFICATION Spec
CONSTANTS
  FileSize <- MCFileSize
  OpenLimit = 2
  Tasks = {1}
  PageSize = 2
  UserLimit = 8
  WordMax = 10
  CopyLimit = 3
  InfoSize = 2
  Mappings <- MCMappings
  UartLimit = 1
INVARIANTS
  RangeAgreesWithPages
  ReadsFormAPrefix
PROPERTIES
  RefusedCallsLeaveNoTrace
