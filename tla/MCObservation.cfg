SPECIFICATION ObservationSpec
CONSTANTS
  FrameCount = 13
  TaskLimit = 4
  TableLimit = 1
  PageLimit = 2
  Plan <- MCPlan
  Programs = 3
  Statuses = {0}
  Vectors = {12, 14}
  MaxPid = 4
  Memories <- MCMemories
INVARIANTS
  MirrorFollowsTable
  LivePagesApart
PROPERTIES
  ReadyTasksRun
