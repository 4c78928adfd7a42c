SPECIFICATION FairSpec
CONSTANTS
  Handlers = {h1, h2}
  MaxEpoch = 3
  WireLimit = 1
INVARIANTS
  OneGuestAtATime
  LossIsNoticed
PROPERTIES
  StoppedIsFinal
  LockIsReleased
