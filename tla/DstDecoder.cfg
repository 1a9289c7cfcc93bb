CONSTANTS
  Procs = 2
  MaxFrames = 3
  BadFrames = {2}
SPECIFICATION FairSpec
INVARIANTS
  DecoderInv
  BuffersExclusive
  ListsMatchLocks
  WriterAsserts
  DestroyAsserts
PROPERTIES
  OrderedSpec
  EveryFrameWritten
  CallsReturn
