CONSTANTS
  Procs = 1
  MaxFrames = 5
  BadFrames = {3}
SPECIFICATION FairSpec
PROPERTIES
  CallsReturn
