CONSTANTS
  DiscSize = 8
  AreaStart = 1
  AreaEnd = 4
  OtherStart = 6
  OtherEnd = 6
  TrackStarts <- MCTrackStarts
  TrackTimes <- MCTrackTimes
  MaxBlock = 2
  MaxSignals = 1
SPECIFICATION FairSpec
INVARIANTS
  TypesOK
  ClosedFileHoldsWhatWasRead
  CompleteFileHoldsItsTracks
  NothingLeft
PROPERTIES
  NoneAfterCutShort
  DestroyReturns
