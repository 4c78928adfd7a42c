SPECIFICATION Spec
CONSTANTS
  Frame = {f1, f2, f3, f4, f5, f6, f7}
  BootRoot = BootRoot
  KernelTable = KernelTable
  Space = {s1, s2}
  Index = {0, 1}
  Upper = {1}
  Page <- MCPage
  FlagSets <- MCFlagSets
  TableLimit = 5
  DataLimit = 2
  NoRoot = NoRoot
  NotMapped = NotMapped
  Idle = Idle
SYMMETRY MCSymmetry
INVARIANTS
  EveryPageHasOneOwner
  WalksStayInside
  KernelHalfIntact
  NoStaleTranslation
PROPERTIES
  ImplementsAddressMap
