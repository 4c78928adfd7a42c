SPECIFICATION TwoTaskFairSpec
CONSTANTS
  FileSize <- MCFileSize
  OpenLimit = 2
  Levels = {3, 4, 5, 6}
  SliceSteps = 4
  Tables = 6
  FreePages <- MCFreePages
  MaxTicks = 60
INVARIANTS
  OnlyIntentionalStop
PROPERTIES
  ExperimentCompletes
