SPECIFICATION Spec
CONSTANTS
  IntMax = 255
  LebSize = 96
  MinIoSize = 8
  Images <- MCImages
  Starts = {0, 32}
  Pieces = {"cs", "ino", "shortkey", "wrap", "leap", "pad4", "raw8"}
  MaxPieces = 3
INVARIANTS
  HeapBalanced
\* Reading outside of the scan buffer is the end of a behaviour.
CHECK_DEADLOCK FALSE
