CONSTANTS
  NrOfChannels = 1
  MaxFrameLen = 2
  MAXNROF_FSEGS = 1
  MAXNROF_PSEGS = 1
  MAXNROF_SEGS = 2
  MIN_FSEG_LEN = 8
  MIN_PSEG_LEN = 8
  MaxOrder = 2
SPECIFICATION Spec
PROPERTY EndOfBitsEnds
