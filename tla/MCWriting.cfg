SPECIFICATION MCSpec
CONSTANTS
  Channels = 2
  BlockSize = 3
  FrameBytes = 2
  TrackCount = 3
  MaxFrames = 2
  TagSize = 10
  ChannelCount = 2
  FrameLengths = {1, 2}
  MaxFrameCount = 3
  IndexStep = 2
  TextLengths = {0, 1, 2}
  TagLengths = {0, 3}
  VersionInfo = 71
  Pauses <- MCPauses
  MaxText = 2
  MaxTries = 2
  MaxOptions = 3
  Discs <- MCDiscs
  ConfigFiles <- MCConfigs
  DiscTexts <- MCDiscTexts
  Foreign <- MCForeign
INVARIANTS TypesOK EverySampleOnce HeaderMatchesFile ChunksTileFile IndexFindsFrames RequestServed TagReadsBack
