SPECIFICATION PackageSpec
CONSTANTS
  Levels <- MCLevels
  AttackCases <- MCAttacks
  FaultCases <- MCFaults
  Memories <- MCMemories
  MaxCommands = 2
  MaxVersion = 2
INVARIANT
  ManifestNamesSource
