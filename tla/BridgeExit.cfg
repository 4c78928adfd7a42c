SPECIFICATION Spec
CONSTANTS
  Handlers = {h1}
  MaxEpoch = 2
  WireLimit = 1
INVARIANTS
  ExitLeavesNoGuest
