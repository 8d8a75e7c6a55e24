SPECIFICATION HSpec
CONSTANTS
  Files <- MCHwFiles
  HeaderBuffers <- MCBuffers
  Chunks = {0, 1, 5}
  OutSizes = {0, 1, 9}
  TreeLen = 24
  XlenBits = 16
  Flushes = {"NO"}
  SkipLastDict = FALSE
  MayFail = TRUE
  LateDict = FALSE
  ObufSizes = {0, 2}
  Modes = {"SYNC"}
  NoSearch = FALSE
INVARIANTS
  HDelivered
PROPERTIES
  HInflateEnds
