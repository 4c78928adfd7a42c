SPECIFICATION Spec
CONSTANTS
  FrameCount = 17
  TaskLimit = 4
  TableLimit = 2
  PageLimit = 2
  Plan <- MCPlan
  Programs = 3
  Statuses = {0}
  Vectors = {12, 14}
  MaxPid = 4
  Memories <- MCMemories
INVARIANTS
  PagesHaveOneOwner
  CurrentIsMapped
  WaiterHasLivingChild
  FamilyIntact
  NoInternalPanic
  PagesArriveClean
PROPERTIES
  ImplementsProcesses
