SPECIFICATION FairSpec
CONSTANTS
  IntMax = 255
  LebSize = 96
  MinIoSize = 16
  Images <- MCImages
  Starts = {0, 32}
  Pieces = {"cs", "ino", "odd", "badcrc", "toolong", "pad4", "pad36", "padover", "padneg", "pad2", "raw8", "raw16", "raw24", "raw10", "raw32", "junk", "gap", "stub"}
  MaxPieces = 3
INVARIANTS
  TypeOK
  CursorInSync
  HeapBalanced
  ListMirrorsFlash
  EndpointIsWritable
PROPERTIES
  LoopsConsume
  EveryStepCounts
  KeepsPromise
  UsesList
  EveryCallReturns
