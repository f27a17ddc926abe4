SPECIFICATION Spec
CONSTANTS
  IntMax = 32767
  LebSize = 1024
  MinIoSize = 8
  Mutants <- MixedMutants
INVARIANTS
  CodePassesItsTests
  CaughtByItsTest
  NoSurvivorHidden
