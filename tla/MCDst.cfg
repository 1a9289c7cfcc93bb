CONSTANTS
  NrOfChannels = 2
  MaxFrameLen = 3
  MAXNROF_FSEGS = 1
  MAXNROF_PSEGS = 2
  MAXNROF_SEGS = 2
  MIN_FSEG_LEN = 16
  MIN_PSEG_LEN = 8
  MaxOrder = 2
  BitsPerCh = 6
  BitsPerByte = 2
  PBITS = 3
  NBITS = 2
  QSTEP = 1
  UintBits = 12
  PredictBits = 5
  TableBits = 2
  TablesPerWord = 2
  NrOfWords = 2
  Codes <- MCCodes
  Filters <- MCFilters
  Ptables <- MCPtables
  Maps <- MCMaps
  HalfBits <- MCHalfBits
  Buffers <- MCBuffers
  MaxLen = 11
  MaxRiceM = 2
  MaxFrames = 2
SPECIFICATION MCSpec
INVARIANTS
  TypesOK
  EveryBitHasTables
  CodeInInterval
  FilterSeesLastBits
  ReadsMatchStream
