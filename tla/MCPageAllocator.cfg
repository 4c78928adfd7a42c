SPECIFICATION AllocatorSpec
CONSTANTS
  FrameCount = 5
  Memories <- MCMemories
  Offsets = {0, 1}
INVARIANTS
  CountExact
  RefusalMeansExhausted
PROPERTIES
  ImplementsPool
  EveryFrameCirculates
