SPECIFICATION HSpec
CONSTANTS
  IntMax = 511
  LebSize = 192
  MinIoSize = 64
  Images <- Erased
  Starts <- Units
  Kinds <- FewKinds
  SlebAddrs <- Heap
  PtrSpan = 65536
  LongSpan = 65536
  Damages <- Flips
INVARIANTS
  ReadBack
  NeverRefused
  HeldNodesFresh
  CallerKnows
  CrcIsRemainder
  DamageFound
