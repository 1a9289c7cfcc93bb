SPECIFICATION Spec
CONSTANTS
  DstLayouts <- MCDstLayouts
  PlainLayouts <- MCPlainLayouts
  SectorSize = 6
  FrameSize = 9
  MaxSize = 15
  MaxBlocks = 2
INVARIANTS
  OneFrameOnly
