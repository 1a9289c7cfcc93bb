SPECIFICATION MCSpec
CONSTANTS
  DstLayouts <- MCDstLayouts
  PlainLayouts <- MCPlainLayouts
  SectorSize = 6
  FrameSize = 9
  MaxSize = 15
  MaxBlocks = 2
  Total = 2
  AreaTocs <- MCAreaTocs
  FrameRate = 75
  MaxData = 2
  MaxCalls = 4
  MaxFaults = 2
INVARIANTS
  TypesOK
  ExactlyWholeFrames
  DamageIsLocal
  TimesAscend
  OpenAreasAreSound
  GoodCopyIsUsed
  CloseFreesAll
  AnswersMatchRequests
