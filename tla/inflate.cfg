SPECIFICATION Spec
CONSTANTS
  Files <- MCFiles
  HeaderBuffers <- MCBuffers
  Chunks = {0, 1, 20}
  OutSizes = {0, 1, 9}
  TreeLen = 24
  XlenBits = 16
  Flushes = {"NO", "FINISH"}
  SkipLastDict = TRUE
  MayFail = TRUE
  LateDict = FALSE
INVARIANTS
  RequestHoldsRest
  HeaderParsed
  Delivered
PROPERTIES
  InflateEnds
